-------------------------- MODULE IcmpToolsProofs --------------------------
(***************************************************************************)
(* What ping and traceroute guarantee for any number of processes, any     *)
(* route, any number of rounds, and whatever the network duplicates and    *)
(* strangers send.                                                         *)
(***************************************************************************)
EXTENDS IcmpTools, TLAPS

Types ==
  /\ pc \in [Procs -> {"sleep", "send", "wait", "done"}]
  /\ seq \in [Procs -> Nat]
  /\ total \in [Procs -> Nat]
  /\ tmp_timeout \in [Procs -> 0 .. timeout]
  /\ sockq \in [Procs -> Seq(Packet)]
  /\ net \in SUBSET Packet
  /\ copies \in 0 .. MaxCopies
  /\ requests \in [Procs -> Nat]
  /\ timeouts \in [Procs -> Nat]
  /\ accepted \in [Procs -> SUBSET (Nat \X Packet)]
  /\ lines \in [Procs -> Seq(1 .. Distance)]

(* A request has a sequence number of the loop, from 1 on.                 *)
InRounds ==
  \A p \in Procs : seq[p] <= Rounds(p) /\ (pc[p] \in {"send", "wait"} => seq[p] >= 1)

(* A ping that waits has one request more than answers.                    *)
Counted ==
  \A p \in Procs : total[p] <= requests[p] /\ (pc[p] = "wait" => total[p] < requests[p])

(* An echo reply carries the low bits of the identifier it was sent with,  *)
(* only a traceroute draws messages of type 11, and strangers send neither.*)
Genuine(m) ==
  /\ m.type = 0 => m.by \in Procs /\ m.id = Ident[m.by] % Word
  /\ m.type = 11 => m.by \in Traces

AllGenuine ==
  /\ \A m \in net : Genuine(m)
  /\ \A p \in Procs : \A k \in DOMAIN sockq[p] : Genuine(sockq[p][k])
  /\ \A p \in Procs : \A a \in accepted[p] : Genuine(a[2]) /\ Wanted(p, a[2])

(* The conditions under which the rounds of p match their answers.         *)
Clean(p) == Distinct /\ timeouts[p] = 0 /\ copies = 0 /\ (p \in Traces => Traces = {p})

(* Under these conditions at most one answer to p is left, it is the one p *)
(* waits for, and it is either under way or in the socket, once.           *)
AloneFor(p) ==
  Clean(p) /\ pc[p] # "done" =>
    /\ \A m \in net : m.by = p =>
         /\ pc[p] = "wait" /\ m = Answer(p)
         /\ \A k \in DOMAIN sockq[p] : sockq[p][k].by # p
    /\ \A j \in DOMAIN sockq[p] : sockq[p][j].by = p =>
         /\ pc[p] = "wait" /\ sockq[p][j] = Answer(p)
         /\ \A k \in DOMAIN sockq[p] : sockq[p][k].by = p => k = j

Alone == \A p \in Procs : AloneFor(p)

(* traceroute has printed one line for each round that has ended, and the  *)
(* round that reaches the destination is the last.                         *)
InOrderFor(p) ==
  p \in Traces /\ Clean(p) =>
    /\ \A k \in DOMAIN lines[p] : lines[p][k] = k
    /\ pc[p] = "sleep" => Len(lines[p]) = seq[p] /\ seq[p] < Distance
    /\ pc[p] \in {"send", "wait"} => Len(lines[p]) + 1 = seq[p] /\ seq[p] <= Distance

InOrder == \A p \in Procs : InOrderFor(p)

IInv == /\ Types /\ InRounds /\ Counted /\ AllGenuine
        /\ Alone /\ AnswersMatchRounds /\ InOrder

-----------------------------------------------------------------------------
(* The queues of the sockets.                                              *)

(* The rest of a queue is the queue one place further on.                  *)
LEMMA QueueTail ==
  ASSUME NEW S, NEW s \in Seq(S), s # <<>>
  PROVE  /\ 1 \in DOMAIN s /\ Head(s) = s[1] /\ Head(s) \in S /\ Tail(s) \in Seq(S)
         /\ \A k \in DOMAIN Tail(s) : k \in Nat /\ k + 1 \in DOMAIN s
                                      /\ Tail(s)[k] = s[k + 1]
OBVIOUS

(* A queue that grows keeps what it has and where.                         *)
LEMMA QueueAppend ==
  ASSUME NEW S, NEW s \in Seq(S), NEW e \in S
  PROVE  /\ Append(s, e) \in Seq(S) /\ Len(Append(s, e)) = Len(s) + 1
         /\ \A k \in DOMAIN Append(s, e) :
              \/ k \in DOMAIN s /\ Append(s, e)[k] = s[k]
              \/ k = Len(s) + 1 /\ Append(s, e)[k] = e
OBVIOUS

(* No queue grows; each loses its head, all of it, or nothing.             *)
Shorter ==
  \A q \in Procs : \E d \in {0, 1} : \A k \in DOMAIN sockq'[q] :
    k \in Nat /\ k + d \in DOMAIN sockq[q] /\ sockq'[q][k] = sockq[q][k + d]

(* Reading a packet, and closing the socket, shorten the queues.           *)
LEMMA QueuesShorten ==
  ASSUME Types, NEW p \in Procs,
         \/ sockq' = sockq
         \/ sockq' = [sockq EXCEPT ![p] = <<>>]
         \/ sockq[p] # <<>> /\ sockq' = [sockq EXCEPT ![p] = Tail(@)]
  PROVE  sockq' \in [Procs -> Seq(Packet)] /\ Shorter
<1>1. \A q \in Procs : /\ sockq[q] \in Seq(Packet)
                       /\ \A k \in DOMAIN sockq[q] : k \in Nat /\ k + 0 = k
  <2>1. sockq \in [Procs -> Seq(Packet)]
    BY DEF Types
  <2> QED BY <2>1
<1>2. CASE sockq' = sockq
  BY <1>1, <1>2 DEF Types, Shorter
<1>3. CASE sockq' = [sockq EXCEPT ![p] = <<>>]
  <2>1. sockq'[p] = <<>> /\ \A q \in Procs : q # p => sockq'[q] = sockq[q]
    BY <1>3 DEF Types
  <2>2. <<>> \in Seq(Packet) /\ DOMAIN sockq'[p] = {}
    BY <2>1
  <2>3. sockq' \in [Procs -> Seq(Packet)]
    BY <1>3, <2>2 DEF Types
  <2>4. ASSUME NEW q \in Procs
        PROVE  \A k \in DOMAIN sockq'[q] : /\ k \in Nat /\ k + 0 \in DOMAIN sockq[q]
                                          /\ sockq'[q][k] = sockq[q][k + 0]
    BY <1>1, <2>1, <2>2
  <2> QED BY <2>3, <2>4 DEF Shorter
<1>4. CASE sockq[p] # <<>> /\ sockq' = [sockq EXCEPT ![p] = Tail(@)]
  <2>1. sockq'[p] = Tail(sockq[p]) /\ \A q \in Procs : q # p => sockq'[q] = sockq[q]
    BY <1>4 DEF Types
  <2>2. /\ Tail(sockq[p]) \in Seq(Packet)
        /\ \A k \in DOMAIN Tail(sockq[p]) : k \in Nat /\ k + 1 \in DOMAIN sockq[p]
                                            /\ Tail(sockq[p])[k] = sockq[p][k + 1]
    BY <1>1, <1>4, QueueTail
  <2>3. sockq' \in [Procs -> Seq(Packet)]
    BY <1>4, <2>2 DEF Types
  <2>4. ASSUME NEW q \in Procs, q # p
        PROVE  \A k \in DOMAIN sockq'[q] : /\ k \in Nat /\ k + 0 \in DOMAIN sockq[q]
                                          /\ sockq'[q][k] = sockq[q][k + 0]
    BY <1>1, <2>1, <2>4
  <2>5. \A k \in DOMAIN sockq'[p] : /\ k \in Nat /\ k + 1 \in DOMAIN sockq[p]
                                   /\ sockq'[p][k] = sockq[p][k + 1]
    BY <2>1, <2>2
  <2> QED BY <2>3, <2>4, <2>5 DEF Shorter
<1> QED BY <1>2, <1>3, <1>4

-----------------------------------------------------------------------------
(* What the operators return.                                              *)

(* The low bits of an identifier fit the field of the packet.              *)
LEMMA LowBits == ASSUME NEW n \in Nat PROVE n % Word \in 0 .. Word - 1
BY DEF Word

(* A message of type 11 carries no identifier of ours: 0 stands for it.    *)
LEMMA NoBits == 0 \in 0 .. Word - 1
BY DEF Word

(* A counter of one process goes up.                                       *)
LEMMA Bump ==
  ASSUME NEW f \in [Procs -> Nat], NEW p \in Procs
  PROVE  /\ [f EXCEPT ![p] = @ + 1] \in [Procs -> Nat]
         /\ [f EXCEPT ![p] = @ + 1][p] = f[p] + 1
         /\ \A q \in Procs : q # p => [f EXCEPT ![p] = @ + 1][q] = f[q]
OBVIOUS

(* The answer to a request is a packet that says truly whose it is.        *)
LEMMA AnswerGenuine ==
  ASSUME Types, NEW p \in Procs, seq[p] >= 1
  PROVE  /\ Answer(p) \in Packet /\ Genuine(Answer(p))
         /\ Answer(p).by = p /\ Answer(p).round = seq[p]
<1>1. Ident[p] % Word \in 0 .. Word - 1 /\ 0 \in 0 .. Word - 1
  <2>1. Ident[p] \in Nat
    BY IcmpAssumption
  <2> QED BY <2>1, LowBits, NoBits
<1>2. seq[p] \in Nat /\ Distance \in 1 .. Distance
  BY IcmpAssumption DEF Types
<1>3. CASE Kind[p] = "traceroute" /\ seq[p] < Distance
  BY <1>1, <1>2, <1>3, IcmpAssumption DEF Answer, Packet, Genuine, Traces
<1>4. CASE ~ (Kind[p] = "traceroute" /\ seq[p] < Distance)
  BY <1>1, <1>2, <1>4, IcmpAssumption DEF Answer, Packet, Genuine, Traces
<1> QED BY <1>3, <1>4

(* A genuine packet that a process wants, under the conditions of Clean,   *)
(* answers one of its own requests.                                        *)
LEMMA WantedIsOwn ==
  ASSUME NEW p \in Procs, NEW m \in Packet, Genuine(m), Wanted(p, m), Distinct
  PROVE  /\ m.type = 0 => m.by = p
         /\ (p \in Traces => Traces = {p}) => m.by = p
<1>1. m.by \in Procs /\ m.type \in {0, 11}
  BY DEF Wanted, Mine, Genuine, Traces
<1>2. ASSUME m.type = 0 PROVE m.by = p
  <2>1. Ident[p] = Ident[m.by] % Word
    BY <1>2 DEF Wanted, Mine, Genuine
  <2>2. Ident[p] % Word = Ident[m.by] % Word
    BY <1>1, <2>1, IcmpAssumption DEF Word
  <2> QED BY <1>1, <2>2 DEF Distinct
<1>3. ASSUME m.type = 11, p \in Traces => Traces = {p} PROVE m.by = p
  BY <1>3 DEF Wanted, Mine, Genuine, Traces
<1> QED BY <1>1, <1>2, <1>3

(* What a stranger sends is a packet that answers no request of ours.      *)
LEMMA OtherGenuine == Other \in Packet /\ Genuine(Other) /\ \A q \in Procs : Other.by # q
<1>1. Distance \in 1 .. Distance /\ Stranger \notin Procs
  BY IcmpAssumption
<1> QED BY <1>1, NoBits DEF Other, Packet, Genuine

(* It joins each queue at its end, or leaves the queue as it is.           *)
LEMMA OtherQueued ==
  ASSUME Types, Foreign, NEW q \in Procs
  PROVE  /\ sockq'[q] \in Seq(Packet) /\ sockq' \in [Procs -> Seq(Packet)]
         /\ \A k \in DOMAIN sockq'[q] :
              \/ k \in DOMAIN sockq[q] /\ sockq'[q][k] = sockq[q][k]
              \/ sockq'[q][k] = Other
<1>1. \A p \in Procs :
        sockq[p] \in Seq(Packet) /\ Append(sockq[p], Other) \in Seq(Packet)
  BY OtherGenuine, QueueAppend DEF Types
<1>2. sockq' = [p \in Procs |-> IF HasRoom(p) THEN Append(sockq[p], Other) ELSE sockq[p]]
  BY DEF Foreign
<1>3. sockq' \in [Procs -> Seq(Packet)]
  BY <1>1, <1>2
<1>4. sockq'[q] = Append(sockq[q], Other) \/ sockq'[q] = sockq[q]
  BY <1>2
<1>5. \A k \in DOMAIN Append(sockq[q], Other) :
        \/ k \in DOMAIN sockq[q] /\ Append(sockq[q], Other)[k] = sockq[q][k]
        \/ Append(sockq[q], Other)[k] = Other
  BY <1>1, OtherGenuine, QueueAppend
<1> QED BY <1>3, <1>4, <1>5

-----------------------------------------------------------------------------
(* No process has started.                                                 *)
LEMMA InitIInv == Init => IInv
<1> SUFFICES ASSUME Init PROVE IInv
  OBVIOUS
<1>1. Types
  BY IcmpAssumption DEF Init, Types
<1>2. InRounds /\ Counted
  BY IcmpAssumption DEF Init, InRounds, Counted, Rounds
<1>3. AllGenuine /\ Alone /\ AnswersMatchRounds
  BY DEF Init, AllGenuine, Alone, AloneFor, AnswersMatchRounds
<1>4. InOrder
  BY IcmpAssumption DEF Init, InOrder, InOrderFor
<1> QED BY <1>1, <1>2, <1>3, <1>4 DEF IInv

-----------------------------------------------------------------------------
(* Types, rounds and counts.                                               *)

(* A packet that is taken is a packet, in a round.                         *)
LEMMA TakenTyped ==
  ASSUME Types, NEW p \in Procs, sockq[p] # <<>>, Taken(p)
  PROVE  /\ accepted' \in [Procs -> SUBSET (Nat \X Packet)]
         /\ accepted'[p] = accepted[p] \cup {<<seq[p], Head(sockq[p])>>}
         /\ \A q \in Procs : q # p => accepted'[q] = accepted[q]
<1>1. Head(sockq[p]) \in Packet /\ seq[p] \in Nat
  BY QueueTail DEF Types
<1> QED BY <1>1 DEF Taken, Types

(* Every step keeps the types.                                             *)
LEMMA TypesStep == ASSUME IInv, Next PROVE Types'
<1> USE DEF IInv
<1>1. ASSUME NEW p \in Procs, PingRound(p) \/ TraceRound(p) \/ Timeout(p) \/ Interrupt(p)
      PROVE  Types'
  <2>1. sockq' \in [Procs -> Seq(Packet)]
    BY <1>1, QueuesShorten DEF PingRound, TraceRound, Timeout, Interrupt
  <2>2. /\ pc' \in [Procs -> {"sleep", "send", "wait", "done"}]
        /\ seq' \in [Procs -> Nat] /\ timeouts' \in [Procs -> Nat]
    <3>1. /\ seq' = seq \/ seq' = [seq EXCEPT ![p] = @ + 1]
          /\ timeouts' = timeouts \/ timeouts' = [timeouts EXCEPT ![p] = @ + 1]
      BY <1>1 DEF PingRound, TraceRound, Timeout, Interrupt, toolVars
    <3>2. \E new \in {"sleep", "send", "done"} : pc' = [pc EXCEPT ![p] = new]
      BY <1>1 DEF PingRound, TraceRound, Timeout, Interrupt
    <3>3. seq' \in [Procs -> Nat] /\ timeouts' \in [Procs -> Nat]
      <4>1. seq \in [Procs -> Nat] /\ timeouts \in [Procs -> Nat]
        BY DEF Types
      <4> QED BY <3>1, <4>1, Bump
    <3>4. pc' \in [Procs -> {"sleep", "send", "wait", "done"}]
      BY <3>2, Zenon DEF Types
    <3> QED BY <3>3, <3>4
  <2>3. UNCHANGED <<total, tmp_timeout, net, copies, requests, accepted, lines>>
    BY <1>1 DEF PingRound, TraceRound, Timeout, Interrupt, toolVars
  <2> QED BY <2>1, <2>2, <2>3 DEF Types
<1>2. ASSUME NEW p \in Procs, SendTo(p) PROVE Types'
  <2>1. Answer(p) \in Packet
    BY <1>2, AnswerGenuine DEF SendTo, InRounds
  <2>2. tmp_timeout' \in [Procs -> 0 .. timeout]
    BY <1>2, IcmpAssumption DEF SendTo, Types
  <2> QED BY <1>2, <2>1, <2>2 DEF SendTo, Types
<1>3. ASSUME NEW p \in Procs, PingAccept(p) \/ TraceAccept(p) \/ Ignore(p) PROVE Types'
  <2>1. sockq' \in [Procs -> Seq(Packet)]
    BY <1>3, QueuesShorten DEF PingAccept, TraceAccept, Ignore
  <2>2. accepted' \in [Procs -> SUBSET (Nat \X Packet)]
    BY <1>3, TakenTyped DEF PingAccept, TraceAccept, Ignore, Types
  <2>3. Head(sockq[p]).hop \in 1 .. Distance
    <3>1. sockq[p] \in Seq(Packet) /\ sockq[p] # <<>>
      BY <1>3 DEF PingAccept, TraceAccept, Ignore, Types
    <3>2. Head(sockq[p]) \in Packet
      BY <3>1, QueueTail
    <3> QED BY <3>2 DEF Packet
  <2>4. lines' \in [Procs -> Seq(1 .. Distance)]
    <3>1. \/ lines' = lines
          \/ lines' = [lines EXCEPT ![p] = Append(@, Head(sockq[p]).hop)]
      BY <1>3 DEF PingAccept, TraceAccept, Ignore
    <3>2. Append(lines[p], Head(sockq[p]).hop) \in Seq(1 .. Distance)
      BY <2>3, QueueAppend DEF Types
    <3> QED BY <3>1, <3>2 DEF Types
  <2>5. \/ pc' = pc
        \/ pc' = [pc EXCEPT ![p] = "sleep"]
        \/ pc' = [pc EXCEPT ![p] = "done"]
    BY <1>3 DEF PingAccept, TraceAccept, Ignore
  <2>6. total' = total \/ total' = [total EXCEPT ![p] = @ + 1]
    BY <1>3 DEF PingAccept, TraceAccept, Ignore, toolVars
  <2>7. UNCHANGED <<seq, tmp_timeout, net, copies, requests, timeouts>>
    BY <1>3 DEF PingAccept, TraceAccept, Ignore, toolVars
  <2>8. pc' \in [Procs -> {"sleep", "send", "wait", "done"}]
    BY <2>5 DEF Types
  <2>9. total' \in [Procs -> Nat]
    <3>1. total \in [Procs -> Nat]
      BY DEF Types
    <3> QED BY <2>6, <3>1, Bump
  <2> QED BY <2>1, <2>2, <2>4, <2>7, <2>8, <2>9 DEF Types
<1>4. ASSUME NEW m \in net, Deliver(m) PROVE Types'
  <2>1. sockq' \in [Procs -> Seq(Packet)]
    BY <1>4 DEF Deliver, Types
  <2>2. copies' \in 0 .. MaxCopies /\ net' \in SUBSET Packet
    BY <1>4, IcmpAssumption DEF Deliver, Types
  <2> QED BY <1>4, <2>1, <2>2 DEF Deliver, Types, toolVars
<1>5. ASSUME NEW p \in Procs, Tick(p) PROVE Types'
  <2>1. tmp_timeout[p] \in 0 .. timeout /\ tmp_timeout[p] - 1 \in 0 .. timeout
    BY <1>5, IcmpAssumption DEF Tick, Types
  <2>2. tmp_timeout' \in [Procs -> 0 .. timeout]
    BY <1>5, <2>1 DEF Tick, Types
  <2> QED BY <1>5, <2>2 DEF Tick, Types
<1>6. ASSUME Foreign PROVE Types'
  <2>1. sockq' \in [Procs -> Seq(Packet)]
    BY <1>6, OtherQueued DEF Foreign
  <2> QED BY <1>6, <2>1 DEF Foreign, Types, toolVars
<1> QED BY <1>1, <1>2, <1>3, <1>4, <1>5, <1>6 DEF Next, Step

(* A round begins below its bound and with a number from 1 on; an answer   *)
(* is counted only by a ping that waits.                                   *)
LEMMA CountsStep == ASSUME IInv, Next PROVE InRounds' /\ Counted'
<1> USE DEF IInv
<1>1. \A q \in Procs : seq[q] \in Nat /\ total[q] \in Nat /\ requests[q] \in Nat
  BY DEF Types
<1>2. ASSUME NEW p \in Procs, Step(p) \/ Interrupt(p) PROVE InRounds' /\ Counted'
  <2>1. \A q \in Procs : q # p =>
          /\ pc'[q] = pc[q] /\ seq'[q] = seq[q] /\ total'[q] = total[q]
          /\ requests'[q] = requests[q]
    BY <1>2 DEF Step, PingRound, TraceRound, SendTo, Tick, Timeout, PingAccept, TraceAccept,
                Ignore, Interrupt, Types, toolVars
  <2>2. seq'[p] <= Rounds(p) /\ (pc'[p] \in {"send", "wait"} => seq'[p] >= 1)
    BY <1>1, <1>2, IcmpAssumption
       DEF Step, PingRound, TraceRound, SendTo, Tick, Timeout, PingAccept, TraceAccept,
           Ignore, Interrupt, Types, toolVars, InRounds, Rounds
  <2>3. total'[p] <= requests'[p] /\ (pc'[p] = "wait" => total'[p] < requests'[p])
    BY <1>1, <1>2
       DEF Step, PingRound, TraceRound, SendTo, Tick, Timeout, PingAccept, TraceAccept,
           Ignore, Interrupt, Types, toolVars, Counted
  <2> QED BY <2>1, <2>2, <2>3 DEF InRounds, Counted, Rounds
<1>3. ASSUME NEW m \in net, Deliver(m) PROVE InRounds' /\ Counted'
  BY <1>3 DEF Deliver, InRounds, Counted, Rounds, toolVars
<1>4. ASSUME Foreign PROVE InRounds' /\ Counted'
  BY <1>4 DEF Foreign, InRounds, Counted, Rounds, toolVars
<1> QED BY <1>2, <1>3, <1>4 DEF Next

-----------------------------------------------------------------------------
(* Whose answers they are.                                                 *)

(* Packets are sent genuine, and only what is wanted is taken.             *)
LEMMA GenuineStep == ASSUME IInv, Next PROVE AllGenuine'
<1> USE DEF IInv
<1>1. ASSUME NEW p \in Procs, PingRound(p) \/ TraceRound(p) \/ Tick(p) \/ Timeout(p)
                              \/ Interrupt(p) \/ Ignore(p)
      PROVE  AllGenuine'
  <2>1. Shorter
    BY <1>1, QueuesShorten DEF PingRound, TraceRound, Tick, Timeout, Interrupt, Ignore
  <2>2. UNCHANGED <<net, accepted>>
    BY <1>1 DEF PingRound, TraceRound, Tick, Timeout, Interrupt, Ignore
  <2> QED BY <2>1, <2>2 DEF AllGenuine, Shorter
<1>2. ASSUME NEW p \in Procs, SendTo(p) PROVE AllGenuine'
  <2>1. Genuine(Answer(p))
    BY <1>2, AnswerGenuine DEF SendTo, InRounds
  <2>2. UNCHANGED <<sockq, accepted>> /\ net' = net \cup {Answer(p)}
    BY <1>2 DEF SendTo
  <2> HIDE DEF IInv
  <2> QED BY <2>1, <2>2 DEF AllGenuine, IInv
<1>3. ASSUME NEW p \in Procs, PingAccept(p) \/ TraceAccept(p) PROVE AllGenuine'
  <2>1. sockq[p] # <<>> /\ Wanted(p, Head(sockq[p])) /\ Taken(p) /\ UNCHANGED net
    BY <1>3 DEF PingAccept, TraceAccept
  <2>2. Shorter
    BY <1>3, QueuesShorten DEF PingAccept, TraceAccept
  <2>3. Genuine(Head(sockq[p]))
    <3>1. 1 \in DOMAIN sockq[p] /\ Head(sockq[p]) = sockq[p][1]
      BY <2>1, QueueTail DEF Types
    <3> QED BY <3>1 DEF AllGenuine
  <2>4. /\ accepted'[p] = accepted[p] \cup {<<seq[p], Head(sockq[p])>>}
        /\ \A q \in Procs : q # p => accepted'[q] = accepted[q]
    BY <2>1, TakenTyped
  <2>5. \A q \in Procs : \A a \in accepted'[q] : Genuine(a[2]) /\ Wanted(q, a[2])
    BY <2>1, <2>3, <2>4 DEF AllGenuine
  <2> QED BY <2>1, <2>2, <2>5 DEF AllGenuine, Shorter
<1>4. ASSUME NEW m \in net, Deliver(m) PROVE AllGenuine'
  <2>1. Genuine(m) /\ m \in Packet /\ UNCHANGED accepted /\ net' \subseteq net
    BY <1>4 DEF Deliver, AllGenuine, Types
  <2>2. ASSUME NEW q \in Procs, NEW k \in DOMAIN sockq'[q] PROVE Genuine(sockq'[q][k])
    <3>1. sockq'[q] = <<>> \/ sockq'[q] = Append(sockq[q], m)
      BY <1>4 DEF Deliver
    <3>2. sockq[q] \in Seq(Packet) /\ sockq'[q] # <<>>
      BY DEF Types
    <3>3. \/ k \in DOMAIN sockq[q] /\ sockq'[q][k] = sockq[q][k]
          \/ sockq'[q][k] = m
      BY <2>1, <3>1, <3>2, QueueAppend
    <3> QED BY <2>1, <3>3 DEF AllGenuine
  <2> QED BY <2>1, <2>2 DEF AllGenuine
<1>5. ASSUME Foreign PROVE AllGenuine'
  <2>1. UNCHANGED <<net, accepted>>
    BY <1>5 DEF Foreign
  <2>2. ASSUME NEW q \in Procs, NEW k \in DOMAIN sockq'[q] PROVE Genuine(sockq'[q][k])
    BY <1>5, OtherGenuine, OtherQueued DEF AllGenuine
  <2> QED BY <2>1, <2>2 DEF AllGenuine
<1> QED BY <1>1, <1>2, <1>3, <1>4, <1>5 DEF Next, Step

-----------------------------------------------------------------------------
(* The one answer that is left.                                            *)

(* A step of p leaves what is known of another process's answer alone.     *)
LEMMA OthersAlone ==
  ASSUME Types, Alone, Shorter, NEW p \in Procs, NEW q \in Procs, q # p,
         seq[p] >= 1 \/ net' = net,
         pc'[q] = pc[q], seq'[q] = seq[q], timeouts'[q] = timeouts[q], copies' = copies,
         net' = net \/ net' = net \cup {Answer(p)}
  PROVE  AloneFor(q)'
<1>1. Answer(q)' = Answer(q)
  BY DEF Answer
<1>2. Clean(q)' => Clean(q)
  BY DEF Clean
<1>3. \A m \in net' : m.by = q => m \in net
  BY AnswerGenuine
<1>4. PICK d \in {0, 1} : \A k \in DOMAIN sockq'[q] :
        k \in Nat /\ k + d \in DOMAIN sockq[q] /\ sockq'[q][k] = sockq[q][k + d]
  BY DEF Shorter
<1>5. AloneFor(q)
  BY DEF Alone
<1> SUFFICES ASSUME Clean(q)', pc[q] # "done"
             PROVE  /\ \A m \in net' : m.by = q =>
                         /\ pc[q] = "wait" /\ m = Answer(q)
                         /\ \A k \in DOMAIN sockq'[q] : sockq'[q][k].by # q
                    /\ \A j \in DOMAIN sockq'[q] : sockq'[q][j].by = q =>
                         /\ pc[q] = "wait" /\ sockq'[q][j] = Answer(q)
                         /\ \A k \in DOMAIN sockq'[q] : sockq'[q][k].by = q => k = j
  BY <1>1 DEF AloneFor
<1>6. \A m \in net' : m.by = q =>
        /\ pc[q] = "wait" /\ m = Answer(q)
        /\ \A k \in DOMAIN sockq'[q] : sockq'[q][k].by # q
  BY <1>2, <1>3, <1>4, <1>5 DEF AloneFor
<1>7. ASSUME NEW j \in DOMAIN sockq'[q], sockq'[q][j].by = q
      PROVE  /\ pc[q] = "wait" /\ sockq'[q][j] = Answer(q)
             /\ \A k \in DOMAIN sockq'[q] : sockq'[q][k].by = q => k = j
  <2>1. /\ pc[q] = "wait" /\ sockq[q][j + d] = Answer(q)
        /\ \A k \in DOMAIN sockq[q] : sockq[q][k].by = q => k = j + d
    BY <1>2, <1>4, <1>5, <1>7 DEF AloneFor
  <2>2. ASSUME NEW k \in DOMAIN sockq'[q], sockq'[q][k].by = q PROVE k = j
    <3>1. k + d = j + d
      BY <1>4, <2>1, <2>2
    <3> QED BY <1>4, <3>1
  <2> QED BY <1>4, <2>1, <2>2
<1> QED BY <1>6, <1>7

(* The packet that p takes, under the conditions of Clean, is the answer   *)
(* to the request it waits for, and the only one left for it.              *)
LEMMA TakesItsAnswer ==
  ASSUME IInv, NEW p \in Procs, Clean(p), pc[p] = "wait", sockq[p] # <<>>,
         Wanted(p, Head(sockq[p]))
  PROVE  /\ Head(sockq[p]) = Answer(p) /\ Head(sockq[p]).by = p
         /\ \A m \in net : m.by # p
         /\ \A k \in DOMAIN Tail(sockq[p]) : Tail(sockq[p])[k].by # p
<1> USE DEF IInv
<1>1. /\ 1 \in DOMAIN sockq[p] /\ Head(sockq[p]) = sockq[p][1]
      /\ Head(sockq[p]) \in Packet
      /\ \A k \in DOMAIN Tail(sockq[p]) : k \in Nat /\ k + 1 \in DOMAIN sockq[p]
                                          /\ Tail(sockq[p])[k] = sockq[p][k + 1]
  BY QueueTail DEF Types
<1>2. Genuine(Head(sockq[p]))
  BY <1>1 DEF AllGenuine
<1>3. sockq[p][1].by = p
  BY <1>1, <1>2, WantedIsOwn DEF Clean
<1>4. /\ sockq[p][1] = Answer(p)
      /\ \A k \in DOMAIN sockq[p] : sockq[p][k].by = p => k = 1
      /\ \A m \in net : m.by # p
  BY <1>1, <1>3 DEF Alone, AloneFor
<1>5. ASSUME NEW k \in DOMAIN Tail(sockq[p]) PROVE Tail(sockq[p])[k].by # p
  <2>1. k \in Nat /\ k \in DOMAIN Tail(sockq[p]) /\ k # 0
    BY <1>5, QueueTail DEF Types
  <2>2. k + 1 # 1
    BY <2>1
  <2> QED BY <1>1, <1>4, <2>2
<1> QED BY <1>1, <1>3, <1>4, <1>5

(* Every step keeps the answers of a clean process apart.                  *)
LEMMA AloneStep == ASSUME IInv, Next PROVE Alone'
<1> USE DEF IInv
<1>1. ASSUME NEW p \in Procs, Step(p) \/ Interrupt(p) PROVE Alone'
  <2>1. Shorter
    BY <1>1, QueuesShorten DEF Step, PingRound, TraceRound, SendTo, Tick, Timeout,
                               PingAccept, TraceAccept, Ignore, Interrupt
  <2>2. copies' = copies /\ (net' = net \/ (net' = net \cup {Answer(p)} /\ pc[p] = "send"))
    BY <1>1 DEF Step, PingRound, TraceRound, SendTo, Tick, Timeout, PingAccept, TraceAccept,
                Ignore, Interrupt
  <2>3. \A q \in Procs : q # p =>
          pc'[q] = pc[q] /\ seq'[q] = seq[q] /\ timeouts'[q] = timeouts[q]
    BY <1>1 DEF Step, PingRound, TraceRound, SendTo, Tick, Timeout, PingAccept, TraceAccept,
                Ignore, Interrupt, Types, toolVars
  <2>4. seq[p] >= 1 \/ net' = net
    BY <2>2 DEF InRounds
  <2>5. ASSUME NEW q \in Procs, q # p PROVE AloneFor(q)'
    BY <2>1, <2>2, <2>3, <2>4, <2>5, OthersAlone
  <2>6. AloneFor(p)'
    <3>1. CASE PingRound(p) \/ TraceRound(p)
      <4>1. pc[p] = "sleep" /\ net' = net /\ timeouts' = timeouts
        BY <3>1 DEF PingRound, TraceRound
      <4>2. pc'[p] # "done" => sockq' = sockq
        BY <3>1 DEF PingRound, TraceRound, Types
      <4> QED BY <2>2, <4>1, <4>2 DEF Alone, AloneFor, Clean
    <3>2. CASE SendTo(p)
      <4>1. /\ pc[p] = "send" /\ pc'[p] = "wait" /\ net' = net \cup {Answer(p)}
            /\ UNCHANGED <<seq, sockq, timeouts>>
        BY <3>2 DEF SendTo, Types, toolVars
      <4>2. Answer(p)' = Answer(p)
        BY <4>1 DEF Answer
      <4> QED BY <2>2, <4>1, <4>2 DEF Alone, AloneFor, Clean
    <3>3. CASE Timeout(p)
      <4>1. timeouts'[p] = timeouts[p] + 1 /\ timeouts[p] \in Nat
        BY <3>3 DEF Timeout, Types
      <4> QED BY <4>1 DEF AloneFor, Clean
    <3>4. CASE PingAccept(p) \/ TraceAccept(p)
      <4>1. /\ pc[p] = "wait" /\ sockq[p] # <<>> /\ Wanted(p, Head(sockq[p]))
            /\ UNCHANGED <<net, timeouts>>
        BY <3>4 DEF PingAccept, TraceAccept
      <4>2. pc'[p] # "done" => sockq'[p] = Tail(sockq[p])
        BY <3>4 DEF PingAccept, TraceAccept, Types
      <4>3. Clean(p)' => Clean(p)
        BY <2>2, <4>1 DEF Clean
      <4>4. Clean(p) => /\ \A m \in net : m.by # p
                        /\ \A k \in DOMAIN Tail(sockq[p]) : Tail(sockq[p])[k].by # p
        BY <4>1, TakesItsAnswer
      <4> QED BY <4>1, <4>2, <4>3, <4>4 DEF AloneFor
    <3>5. CASE Ignore(p)
      <4>1. /\ UNCHANGED <<pc, seq, net, timeouts>> /\ sockq[p] # <<>>
            /\ sockq'[p] = Tail(sockq[p])
        BY <3>5 DEF Ignore, Types, toolVars
      <4>2. Answer(p)' = Answer(p)
        BY <4>1 DEF Answer
      <4>3. \A k \in DOMAIN sockq'[p] : k \in Nat /\ k + 1 \in DOMAIN sockq[p]
                                        /\ sockq'[p][k] = sockq[p][k + 1]
        BY <4>1, QueueTail DEF Types
      <4>4. Clean(p)' => Clean(p)
        BY <2>2, <4>1 DEF Clean
      <4>5. \A j, k \in DOMAIN sockq'[p] : j + 1 = k + 1 => j = k
        BY <4>3
      <4>6. AloneFor(p)
        BY DEF Alone
      <4> HIDE DEF IInv
      <4> QED BY <4>1, <4>2, <4>3, <4>4, <4>5, <4>6 DEF AloneFor
    <3>6. CASE Interrupt(p)
      <4>1. pc'[p] = "done"
        BY <3>6 DEF Interrupt, Types
      <4> QED BY <4>1 DEF AloneFor
    <3>7. CASE Tick(p)
      <4>1. UNCHANGED <<pc, seq, sockq, net, timeouts>>
        BY <3>7 DEF Tick
      <4>2. Answer(p)' = Answer(p) /\ AloneFor(p)
        BY <4>1 DEF Answer, Alone
      <4> QED BY <2>2, <4>1, <4>2 DEF AloneFor, Clean
    <3> QED BY <1>1, <3>1, <3>2, <3>3, <3>4, <3>5, <3>6, <3>7 DEF Step
  <2> QED BY <2>5, <2>6 DEF Alone
<1>2. ASSUME NEW m \in net, Deliver(m) PROVE Alone'
  <2> SUFFICES ASSUME NEW p \in Procs, Clean(p)', pc'[p] # "done" PROVE AloneFor(p)'
    BY DEF Alone, AloneFor
  <2>1. UNCHANGED <<pc, seq, timeouts>> /\ copies \in Nat
    BY <1>2, IcmpAssumption DEF Deliver, toolVars, Types
  <2>2. Clean(p) /\ net' = net \ {m}
    BY <1>2, <2>1 DEF Deliver, Clean
  <2>3. sockq'[p] = Append(sockq[p], m)
    BY <1>2, <2>1 DEF Deliver
  <2>4. Answer(p)' = Answer(p)
    BY <2>1 DEF Answer
  <2>5. /\ sockq[p] \in Seq(Packet) /\ m \in Packet
        /\ \A k \in DOMAIN sockq'[p] :
             \/ k \in DOMAIN sockq[p] /\ sockq'[p][k] = sockq[p][k]
             \/ k = Len(sockq[p]) + 1 /\ sockq'[p][k] = m
    BY <2>3, QueueAppend DEF Types
  <2>6. AloneFor(p)
    BY DEF Alone
  <2> HIDE DEF IInv
  <2>7. CASE m.by = p
    <3>1. /\ pc[p] = "wait" /\ m = Answer(p)
          /\ \A k \in DOMAIN sockq[p] : sockq[p][k].by # p
          /\ \A x \in net' : x.by # p
      BY <2>1, <2>2, <2>6, <2>7 DEF AloneFor
    <3> QED BY <2>1, <2>2, <2>4, <2>5, <3>1 DEF AloneFor
  <2>8. CASE m.by # p
    BY <2>1, <2>2, <2>4, <2>5, <2>6, <2>8 DEF AloneFor
  <2> QED BY <2>7, <2>8
<1>3. ASSUME Foreign PROVE Alone'
  <2> SUFFICES ASSUME NEW p \in Procs PROVE AloneFor(p)'
    BY DEF Alone
  <2>1. UNCHANGED <<pc, seq, net, timeouts, copies>>
    BY <1>3 DEF Foreign, toolVars
  <2>2. Answer(p)' = Answer(p) /\ AloneFor(p)
    BY <2>1 DEF Answer, Alone
  <2>3. \A k \in DOMAIN sockq'[p] : sockq'[p][k].by = p =>
          k \in DOMAIN sockq[p] /\ sockq'[p][k] = sockq[p][k]
    BY <1>3, OtherGenuine, OtherQueued
  <2> HIDE DEF IInv
  <2> QED BY <2>1, <2>2, <2>3 DEF AloneFor, Clean
<1> QED BY <1>1, <1>2, <1>3 DEF Next

-----------------------------------------------------------------------------
(* The answers and the lines of the rounds.                                *)

(* The conditions of Clean are only ever lost.                             *)
LEMMA CleanLasts == ASSUME IInv, Next, NEW q \in Procs, Clean(q)' PROVE Clean(q)
<1> USE DEF IInv
<1>1. timeouts[q] \in Nat /\ copies \in Nat
  BY IcmpAssumption DEF Types
<1>2. timeouts'[q] = timeouts[q] \/ timeouts'[q] = timeouts[q] + 1
  BY DEF Next, Step, PingRound, TraceRound, SendTo, Tick, Timeout, PingAccept, TraceAccept,
         Ignore, Interrupt, Deliver, Foreign, Types
<1>3. copies' = copies \/ copies' = copies + 1
  BY DEF Next, Step, PingRound, TraceRound, SendTo, Tick, Timeout, PingAccept, TraceAccept,
         Ignore, Interrupt, Deliver, Foreign
<1> QED BY <1>1, <1>2, <1>3 DEF Clean

(* What a clean process takes answers the request of the round.            *)
LEMMA MatchStep == ASSUME IInv, Next PROVE AnswersMatchRounds'
<1> SUFFICES ASSUME NEW q \in Procs, Clean(q)', NEW a \in accepted'[q]
             PROVE  a[2].by = q /\ a[2].round = a[1]
  BY DEF AnswersMatchRounds, Clean
<1>1. Clean(q)
  BY CleanLasts
<1>2. a \in accepted[q] => a[2].by = q /\ a[2].round = a[1]
  BY <1>1 DEF IInv, AnswersMatchRounds, Clean
<1>3. ASSUME NEW p \in Procs, PingAccept(p) \/ TraceAccept(p), a \notin accepted[q]
      PROVE  a[2].by = q /\ a[2].round = a[1]
  <2>1. /\ pc[p] = "wait" /\ sockq[p] # <<>> /\ Wanted(p, Head(sockq[p])) /\ Taken(p)
        /\ Types /\ InRounds
    BY <1>3 DEF PingAccept, TraceAccept, IInv
  <2>2. p = q /\ a = <<seq[q], Head(sockq[q])>>
    BY <1>3, <2>1, TakenTyped
  <2>3. Head(sockq[q]) = Answer(q)
    BY <1>1, <2>1, <2>2, TakesItsAnswer
  <2>4. Answer(q).by = q /\ Answer(q).round = seq[q]
    BY <2>1, <2>2, AnswerGenuine DEF InRounds
  <2> QED BY <2>2, <2>3, <2>4
<1>4. \/ accepted' = accepted
      \/ \E p \in Procs : PingAccept(p) \/ TraceAccept(p)
  BY DEF Next, Step, PingRound, TraceRound, SendTo, Tick, Timeout, Ignore, Interrupt,
         Deliver, Foreign
<1> QED BY <1>2, <1>3, <1>4

(* A clean traceroute prints the router of its round.                      *)
LEMMA OrderStep == ASSUME IInv, Next PROVE InOrder'
<1> SUFFICES ASSUME NEW q \in Procs, q \in Traces, Clean(q)' PROVE InOrderFor(q)'
  BY DEF InOrder, InOrderFor
<1>1. Clean(q) /\ InOrderFor(q)
  BY CleanLasts DEF IInv, InOrder
<1>2. /\ Kind[q] = "traceroute" /\ seq[q] \in Nat /\ lines[q] \in Seq(1 .. Distance)
      /\ timeouts[q] \in Nat /\ Distance \in Nat \ {0} /\ Types
  BY IcmpAssumption DEF IInv, Types, Traces
<1>3. CASE /\ pc'[q] = pc[q] \/ pc'[q] = "done"
           /\ seq'[q] = seq[q] /\ lines'[q] = lines[q]
  BY <1>1, <1>3 DEF InOrderFor
<1>4. CASE TraceRound(q)
  <2>1. lines' = lines /\ pc[q] = "sleep"
    BY <1>4 DEF TraceRound
  <2>2. \/ pc'[q] = "send" /\ seq'[q] = seq[q] + 1
        \/ pc'[q] = "done"
    BY <1>2, <1>4 DEF TraceRound, Types
  <2> QED BY <1>1, <1>2, <2>1, <2>2 DEF InOrderFor
<1>5. CASE SendTo(q)
  <2>1. pc[q] = "send" /\ pc'[q] = "wait" /\ UNCHANGED <<seq, lines>>
    BY <1>2, <1>5 DEF SendTo, Types, toolVars
  <2> QED BY <1>1, <2>1 DEF InOrderFor
<1>6. CASE Timeout(q)
  <2>1. timeouts'[q] = timeouts[q] + 1
    BY <1>2, <1>6 DEF Timeout, Types
  <2> QED BY <1>2, <2>1 DEF Clean
<1>7. CASE TraceAccept(q)
  <2>1. /\ pc[q] = "wait" /\ sockq[q] # <<>> /\ Wanted(q, Head(sockq[q])) /\ seq' = seq
        /\ lines'[q] = Append(lines[q], Head(sockq[q]).hop)
    BY <1>2, <1>7 DEF TraceAccept, Types, toolVars
  <2>2. Head(sockq[q]) = Answer(q)
    BY <1>1, <2>1, TakesItsAnswer
  <2>3. /\ Len(lines[q]) + 1 = seq[q] /\ seq[q] <= Distance
        /\ \A k \in DOMAIN lines[q] : lines[q][k] = k
    BY <1>1, <2>1 DEF InOrderFor
  <2>4. /\ Answer(q).hop = seq[q]
        /\ Answer(q).type = 11 => seq[q] < Distance
    BY <1>2, <2>3 DEF Answer
  <2>5. pc'[q] = "done" \/ (pc'[q] = "sleep" /\ Answer(q).type = 11)
    BY <1>2, <1>7, <2>2 DEF TraceAccept, Types
  <2>6. seq[q] \in 1 .. Distance
    BY <1>2, <2>3
  <2>7. /\ Len(lines'[q]) = seq[q]
        /\ \A k \in DOMAIN lines'[q] : lines'[q][k] = k
    BY <1>2, <2>1, <2>2, <2>3, <2>4, <2>6, QueueAppend
  <2> QED BY <2>1, <2>4, <2>5, <2>7 DEF InOrderFor
<1>8. \/ /\ pc'[q] = pc[q] \/ pc'[q] = "done"
         /\ seq'[q] = seq[q] /\ lines'[q] = lines[q]
      \/ TraceRound(q) \/ SendTo(q) \/ Timeout(q) \/ TraceAccept(q)
  <2>1. ASSUME NEW p \in Procs, p # q, Step(p) \/ Interrupt(p)
        PROVE  pc'[q] = pc[q] /\ seq'[q] = seq[q] /\ lines'[q] = lines[q]
    BY <1>2, <2>1 DEF Step, PingRound, TraceRound, SendTo, Tick, Timeout, PingAccept,
                      TraceAccept, Ignore, Interrupt, Types, toolVars
  <2>2. ASSUME NEW m \in net, Deliver(m)
        PROVE  pc'[q] = pc[q] /\ seq'[q] = seq[q] /\ lines'[q] = lines[q]
    BY <2>2 DEF Deliver, toolVars
  <2>3. ASSUME Ignore(q) \/ Interrupt(q) \/ Tick(q)
        PROVE  /\ pc'[q] = pc[q] \/ pc'[q] = "done"
               /\ seq'[q] = seq[q] /\ lines'[q] = lines[q]
    BY <1>2, <2>3 DEF Ignore, Interrupt, Tick, toolVars, Types
  <2>4. ~ PingRound(q) /\ ~ PingAccept(q)
    BY <1>2 DEF PingRound, PingAccept
  <2>5. ASSUME Foreign
        PROVE  pc'[q] = pc[q] /\ seq'[q] = seq[q] /\ lines'[q] = lines[q]
    BY <2>5 DEF Foreign, toolVars
  <2> QED BY <2>1, <2>2, <2>3, <2>4, <2>5 DEF Next, Step
<1> QED BY <1>3, <1>4, <1>5, <1>6, <1>7, <1>8

-----------------------------------------------------------------------------
(* The inductive step.                                                     *)
LEMMA NextIInv == ASSUME IInv, [Next]_vars PROVE IInv'
<1>1. CASE Next
  BY <1>1, TypesStep, CountsStep, GenuineStep, AloneStep, MatchStep, OrderStep DEF IInv
<1>2. CASE UNCHANGED vars
  <2>1. UNCHANGED <<pc, seq, total, tmp_timeout, sockq, net, copies, requests, timeouts,
                    accepted, lines>>
    BY <1>2 DEF vars, toolVars
  <2>2. Types' /\ InRounds' /\ Counted'
    BY <2>1 DEF IInv, Types, InRounds, Counted
  <2>3. AllGenuine' /\ AnswersMatchRounds'
    BY <2>1 DEF IInv, AllGenuine, AnswersMatchRounds
  <2>4. Alone' /\ InOrder'
    BY <2>1 DEF IInv, Alone, AloneFor, InOrder, InOrderFor, Clean, Answer
  <2> QED BY <2>2, <2>3, <2>4 DEF IInv
<1> QED BY <1>1, <1>2

(* The inductive invariant holds in every reachable state.                 *)
THEOREM Invariance == Spec => []IInv
BY InitIInv, NextIInv, PTL DEF Spec

(* The variables keep their types; no sequence number leaves its loop, and *)
(* every line names a router of the route.                                 *)
THEOREM TypeCorrect == Spec => []TypeOK
<1>1. IInv => TypeOK
  BY DEF IInv, Types, InRounds, TypeOK
<1> QED BY <1>1, Invariance, PTL

(* ping never counts more answers than it has sent requests, however often *)
(* the network repeats an answer and whenever the handler reads the counts.*)
THEOREM CountsBounded == Spec => []ReceivedAtMostSent
<1>1. IInv => ReceivedAtMostSent
  BY DEF IInv, Counted, ReceivedAtMostSent, Pings
<1> QED BY <1>1, Invariance, PTL

(* With identifiers that differ in their low bits, the echo reply another  *)
(* process waits for is never taken, for any number of processes.          *)
THEOREM RepliesOwn == Spec => []OwnRepliesOnly
<1>1. ASSUME IInv PROVE OwnRepliesOnly
  <2> SUFFICES ASSUME Distinct, NEW p \in Procs, NEW a \in accepted[p], a[2].type = 0
               PROVE  a[2].by = p
    BY DEF OwnRepliesOnly
  <2>1. a[2] \in Packet /\ Genuine(a[2]) /\ Wanted(p, a[2])
    BY <1>1 DEF IInv, Types, AllGenuine
  <2> QED BY <2>1, WantedIsOwn
<1> QED BY <1>1, Invariance, PTL

(* Without a timeout or a duplicate a round's answer answers its request,  *)
(* though nothing compares sequence numbers.                               *)
THEOREM RoundsMatch == Spec => []AnswersMatchRounds
<1>1. IInv => AnswersMatchRounds
  BY DEF IInv
<1> QED BY <1>1, Invariance, PTL

(* Under the same conditions a lone traceroute prints the route in order,  *)
(* whatever its length.                                                    *)
THEOREM RoutePrinted == Spec => []PrintsTheRoute
<1>1. IInv => PrintsTheRoute
  BY DEF IInv, InOrder, InOrderFor, Clean, PrintsTheRoute, Traces
<1> QED BY <1>1, Invariance, PTL
=============================================================================
