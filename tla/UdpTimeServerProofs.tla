------------------------ MODULE UdpTimeServerProofs ------------------------
(***************************************************************************)
(* What the UDP time server guarantees for every number of requests,       *)
(* clients, workers, queue slots and restarts.                             *)
(*                                                                         *)
(* The argument types the buffers: every place a message can be - the main *)
(* thread's req, each worker's req, both queues - holds only messages that *)
(* are Own, addressed to the sender of the request they descend from or to *)
(* nobody; qids[1] and a worker about to msgsnd hold only printed times.   *)
(*                                                                         *)
(* The second part follows a request: each step leaves its one copy where  *)
(* it is or moves it to one other place, Removed and Moved say which.      *)
(***************************************************************************)
EXTENDS UdpTimeServer, SequenceTheorems, TLAPS

Own == {m \in Msg : m.r \in Reqs => m.addr \in {Source[m.r], NoAddr}}

OwnQueued == {m \in Own : m.type >= 1}

OwnTime == {m \in OwnQueued : m.body = "time"}

(* The inductive invariant. The conjunct on socklen is what makes the first*)
(* recvfrom harmless: nobody's address is in req before it. The one on     *)
(* qok[1] says that a worker without a request queue never held a request. *)
IInv ==
  /\ TypeOK
  /\ req \in Own
  /\ socklen = "unset" => req.addr = NoAddr
  /\ queue[1] \in Seq(OwnQueued)
  /\ queue[2] \in Seq(OwnTime)
  /\ \A w \in Workers :
       /\ wreq[w] \in Own
       /\ wpc[w] = "send" => wreq[w].body = "time"
       /\ ~ qok[1] => wreq[w].r \notin Reqs
  /\ sent \subseteq Own

-----------------------------------------------------------------------------
(* Sequences.                                                              *)

(* msgrcv removes one message and leaves the others what they were.        *)
LEMMA RemoveAtType ==
  ASSUME NEW S, NEW s \in Seq(S), NEW i \in DOMAIN s
  PROVE  RemoveAt(s, i) \in Seq(S)
<1>1. i \in 1 .. Len(s) /\ Len(s) \in Nat
  BY LenProperties
<1>2. SubSeq(s, 1, i - 1) \in Seq(S)
  <2>1. \A j \in 1 .. i - 1 : s[j] \in S
    BY <1>1, ElementOfSeq
  <2> QED BY <1>1, <2>1, SubSeqProperties
<1>3. SubSeq(s, i + 1, Len(s)) \in Seq(S)
  <2>1. \A j \in i + 1 .. Len(s) : s[j] \in S
    BY <1>1, ElementOfSeq
  <2> QED BY <1>1, <2>1, SubSeqProperties
<1> QED BY <1>2, <1>3, ConcatProperties DEF RemoveAt

(* What msgrcv returns is a message of the queue.                          *)
LEMMA TakenType ==
  ASSUME NEW S, NEW s \in Seq(S), NEW i \in DOMAIN s
  PROVE  s[i] \in S
BY LenProperties, ElementOfSeq

(* msgsnd adds one message and leaves the others what they were.           *)
LEMMA AppendType ==
  ASSUME NEW S, NEW s \in Seq(S), NEW e \in S
  PROVE  Append(s, e) \in Seq(S)
BY AppendProperties

-----------------------------------------------------------------------------
(* Init and the steps.                                                     *)

(* A zeroed or never filled buffer carries no request and no address.      *)
LEMMA ZeroedOwn == Zeroed \in Own /\ Zeroed.addr = NoAddr /\ Zeroed.r = NoReq
BY UdpAssumption DEF Zeroed, Own, Msg

(* Before the first start every buffer and queue is empty.                 *)
LEMMA InitIInv == Init => IInv
<1> SUFFICES ASSUME Init PROVE IInv
  OBVIOUS
<1>1. \A S : <<>> \in Seq(S)
  BY EmptySeq
<1>2. Zeroed \in Msg
  BY ZeroedOwn DEF Own
<1>3. TypeOK
  <2>1. queue \in [1 .. 2 -> Seq(QueuedMsg)] /\ sockbuf \in Seq(Reqs \cup {NoReq})
    BY <1>1 DEF Init
  <2>2. wreq \in [Workers -> Msg] /\ req \in Msg
    BY <1>2 DEF Init
  <2>3. boots \in 0 .. MaxBoots
    BY UdpAssumption DEF Init
  <2>4. qok \in [1 .. 2 -> BOOLEAN]
    BY DEF Init
  <2>5. wpc \in [Workers -> {"new", "test", "recv", "send", "exit"}]
    BY DEF Init
  <2> QED BY <2>1, <2>2, <2>3, <2>4, <2>5, Zenon DEF Init, TypeOK
<1>4. \A w \in Workers : wreq[w] = Zeroed /\ wpc[w] = "new"
  BY DEF Init
<1>5. queue[1] \in Seq(OwnQueued) /\ queue[2] \in Seq(OwnTime)
  BY <1>1 DEF Init
<1>6. req \in Own /\ req.addr = NoAddr /\ sent \subseteq Own
  BY ZeroedOwn DEF Init
<1> QED BY <1>3, <1>4, <1>5, <1>6, ZeroedOwn, UdpAssumption DEF IInv

(* The sets the buffers are typed with.                                    *)
LEMMA Buffers ==
  /\ OwnTime \subseteq OwnQueued /\ OwnQueued \subseteq Own
  /\ OwnQueued \subseteq QueuedMsg /\ Own \subseteq Msg
BY DEF OwnTime, OwnQueued, Own, QueuedMsg

(* Steps that touch no buffer and bring no worker to its msgsnd.           *)
LEMMA Frame ==
  ASSUME IInv, TypeOK',
         UNCHANGED <<req, socklen, qok, queue, wreq, sent>>,
         \A w \in Workers : wpc'[w] = "send" => wpc[w] = "send"
  PROVE  IInv'
BY DEF IInv

(* Start-up: the buffers are zeroed, the queues are what they were.        *)
LEMMA BootStep == ASSUME IInv, Boot PROVE IInv'
<1>1. TypeOK'
  <2>1. wreq' \in [Workers -> Msg] /\ req' \in Msg
    BY ZeroedOwn, Buffers DEF Boot
  <2>2. boots' \in 0 .. MaxBoots
    BY UdpAssumption DEF Boot, IInv, TypeOK
  <2>3. sockbuf' \in Seq(Reqs \cup {NoReq})
    BY EmptySeq DEF Boot
  <2>4. wpc' \in [Workers -> {"new", "test", "recv", "send", "exit"}]
    BY DEF Boot
  <2> QED BY <2>1, <2>2, <2>3, <2>4, Zenon DEF Boot, IInv, TypeOK, history
<1>2. \A w \in Workers : wreq'[w] = Zeroed /\ wpc'[w] = "new"
  BY DEF Boot
<1> QED BY <1>1, <1>2, ZeroedOwn, UdpAssumption DEF Boot, IInv, history

(* The main thread's steps that touch no message.                          *)
LEMMA QuietStep ==
  ASSUME IInv,
         \/ \E w \in Workers : Spawn(w)
         \/ Open \/ Loop \/ Timeout \/ EmptyQueue \/ Join \/ Signal \/ InterruptMain
         \/ ArriveOther
         \/ \E r \in Reqs : Arrive(r)
         \/ \E w \in Workers : WorkerTest(w) \/ InterruptSend(w)
         \/ Crash
  PROVE  IInv'
<1> USE DEF mainVars, kernelVars, workerVars, history
<1>1. ASSUME NEW w \in Workers, Spawn(w) PROVE IInv'
  <2>1. TypeOK'
    BY <1>1 DEF Spawn, IInv, TypeOK
  <2> QED BY <1>1, <2>1, Frame DEF Spawn, IInv, TypeOK
<1>2. CASE Open \/ Loop \/ Timeout \/ EmptyQueue \/ Join \/ Signal \/ InterruptMain
  <2>1. TypeOK'
    BY <1>2 DEF Open, Loop, Timeout, EmptyQueue, Join, Signal, InterruptMain, IInv, TypeOK
  <2>2. UNCHANGED <<req, socklen, qok, queue, wreq, sent, wpc>>
    BY <1>2 DEF Open, Loop, Timeout, EmptyQueue, Join, Signal, InterruptMain
  <2> QED BY <2>1, <2>2, Frame
<1>3. ASSUME NEW r \in Reqs, Arrive(r) PROVE IInv'
  <2>1. sockbuf' \in Seq(Reqs \cup {NoReq})
    BY <1>3, AppendType DEF Arrive, IInv, TypeOK
  <2>2. TypeOK'
    BY <1>3, <2>1 DEF Arrive, IInv, TypeOK
  <2> QED BY <1>3, <2>2, Frame DEF Arrive
<1>4. ASSUME NEW w \in Workers, WorkerTest(w) \/ InterruptSend(w) PROVE IInv'
  <2>1. TypeOK'
    BY <1>4 DEF WorkerTest, InterruptSend, IInv, TypeOK
  <2> QED BY <1>4, <2>1, Frame DEF WorkerTest, InterruptSend, IInv, TypeOK
<1>5. CASE Crash
  <2>1. sockbuf' \in Seq(Reqs \cup {NoReq})
    BY <1>5, EmptySeq DEF Crash
  <2>2. TypeOK'
    BY <1>5, <2>1 DEF Crash, IInv, TypeOK
  <2> QED BY <1>5, <2>2, Frame DEF Crash
<1>6. CASE ArriveOther
  <2>1. sockbuf' \in Seq(Reqs \cup {NoReq})
    BY <1>6, AppendType DEF ArriveOther, IInv, TypeOK
  <2>2. TypeOK'
    BY <1>6, <2>1 DEF ArriveOther, IInv, TypeOK
  <2> QED BY <1>6, <2>2, Frame DEF ArriveOther
<1> QED BY <1>1, <1>2, <1>3, <1>4, <1>5, <1>6

(* STATE_RECV: req gets the sender's address, or - the first time only -   *)
(* keeps the empty one.                                                    *)
LEMMA ReceiveStep == ASSUME IInv, Receive PROVE IInv'
<1> USE DEF mainVars, kernelVars, workerVars, history
<1> DEFINE r == Head(sockbuf)
<1>1. r \in Reqs \cup {NoReq} /\ Tail(sockbuf) \in Seq(Reqs \cup {NoReq})
  BY HeadTailProperties DEF Receive, IInv, TypeOK
<1>2. Sender(r) \in Clients /\ (r \in Reqs => Sender(r) = Source[r])
  BY UdpAssumption DEF Sender
<1>3. req' \in Own
  <2>1. [req EXCEPT !.r = r, !.body = "query", !.addr = Sender(r)] \in Own
    BY <1>1, <1>2 DEF Own, Msg, IInv
  <2>2. ASSUME socklen = "unset"
        PROVE  [req EXCEPT !.r = r, !.body = "query"] \in Own
    BY <1>1, <2>2 DEF Own, Msg, IInv
  <2> QED BY <2>1, <2>2 DEF Receive
<1>4. socklen' = "unset" => req'.addr = NoAddr
  BY DEF Receive, IInv, Own, Msg
<1>5. TypeOK'
  BY <1>1, <1>3, Buffers DEF Receive, IInv, TypeOK
<1> QED BY <1>3, <1>4, <1>5 DEF Receive, IInv

(* STATE_SEND with a reply, and its fall-through with an old buffer.       *)
LEMMA SendStep == ASSUME IInv, SendReply \/ SendStale PROVE IInv'
<1> USE DEF mainVars, kernelVars, workerVars, history
<1>1. CASE SendReply
  <2>1. PICK i \in DOMAIN queue[2] :
          /\ queue' = [queue EXCEPT ![2] = RemoveAt(@, i)]
          /\ req' = queue[2][i]
          /\ sent' = sent \cup {queue[2][i]}
    BY <1>1 DEF SendReply, Take
  <2>2. queue[2][i] \in OwnTime /\ RemoveAt(queue[2], i) \in Seq(OwnTime)
    BY RemoveAtType, TakenType DEF IInv
  <2>3. RemoveAt(queue[2], i) \in Seq(QueuedMsg)
    BY RemoveAtType DEF IInv, TypeOK
  <2>4. queue' \in [1 .. 2 -> Seq(QueuedMsg)]
    BY <2>1, <2>3 DEF IInv, TypeOK
  <2>5. queue'[1] = queue[1] /\ queue'[2] = RemoveAt(queue[2], i)
    BY <2>1 DEF IInv, TypeOK
  <2>6. req' \in Own /\ sent' \subseteq Own
    BY <2>1, <2>2, Buffers DEF IInv
  <2>7. TypeOK'
    BY <1>1, <2>4, <2>6, Buffers DEF SendReply, IInv, TypeOK
  <2> QED BY <1>1, <2>2, <2>5, <2>6, <2>7 DEF SendReply, IInv
<1>2. CASE SendStale
  <2>1. sent' \subseteq Own
    BY <1>2 DEF SendStale, IInv
  <2>2. TypeOK'
    BY <1>2, <2>1, Buffers DEF SendStale, IInv, TypeOK
  <2> QED BY <1>2, <2>1, <2>2 DEF SendStale, IInv
<1> QED BY <1>1, <1>2

(* STATE_RESPONSE_HANDLER: what goes into qids[0] is req with a valid type.*)
LEMMA ResponseHandlerStep == ASSUME IInv, ResponseHandler PROVE IInv'
<1> USE DEF mainVars, kernelVars, workerVars, history
<1>1. req' \in OwnQueued /\ req'.addr = req.addr
  BY DEF ResponseHandler, OwnQueued, Own, Msg, IInv
<1>2. /\ queue' \in [1 .. 2 -> Seq(QueuedMsg)]
      /\ queue'[1] \in Seq(OwnQueued)
      /\ queue'[2] = queue[2]
  <2>1. CASE Put(1, req')
    <3>1. Append(queue[1], req') \in Seq(OwnQueued)
      BY <1>1, AppendType DEF IInv
    <3>2. Append(queue[1], req') \in Seq(QueuedMsg)
      BY <1>1, AppendType, Buffers DEF IInv, TypeOK
    <3> QED BY <2>1, <3>1, <3>2 DEF Put, IInv, TypeOK
  <2>2. CASE UNCHANGED queue
    BY <2>2 DEF IInv, TypeOK
  <2> QED BY <2>1, <2>2 DEF ResponseHandler
<1>3. TypeOK'
  BY <1>1, <1>2, Buffers DEF ResponseHandler, IInv, TypeOK
<1> QED BY <1>1, <1>2, <1>3, Buffers DEF ResponseHandler, IInv

(* IPC_RMID empties a queue and touches no buffer.                         *)
LEMMA RemoveQueuesStep == ASSUME IInv, RemoveQueues PROVE IInv'
<1> USE DEF mainVars, kernelVars, workerVars, history
<1>1. \A S : <<>> \in Seq(S)
  BY EmptySeq
<1>2. /\ queue' \in [1 .. 2 -> Seq(QueuedMsg)]
      /\ queue'[1] \in Seq(OwnQueued)
      /\ queue'[2] \in Seq(OwnTime)
  BY <1>1 DEF RemoveQueues, IInv, TypeOK
<1>3. TypeOK'
  BY <1>1, <1>2 DEF RemoveQueues, IInv, TypeOK
<1> QED BY <1>2, <1>3 DEF RemoveQueues, IInv

(* A worker's msgrcv: the message moves to its buffer and becomes a time.  *)
LEMMA WorkerReceiveStep ==
  ASSUME IInv, NEW w \in Workers, WorkerReceive(w)
  PROVE  IInv'
<1> USE DEF mainVars, kernelVars, workerVars, history
<1>1. PICK i \in DOMAIN queue[1] :
        /\ queue' = [queue EXCEPT ![1] = RemoveAt(@, i)]
        /\ wreq' = [wreq EXCEPT ![w] = [queue[1][i] EXCEPT !.body = "time"]]
  BY DEF WorkerReceive, Take
<1>2. queue[1][i] \in OwnQueued /\ RemoveAt(queue[1], i) \in Seq(OwnQueued)
  BY RemoveAtType, TakenType DEF IInv
<1>3. RemoveAt(queue[1], i) \in Seq(QueuedMsg)
  BY RemoveAtType DEF IInv, TypeOK
<1>4. /\ queue' \in [1 .. 2 -> Seq(QueuedMsg)]
      /\ queue'[1] = RemoveAt(queue[1], i) /\ queue'[2] = queue[2]
  BY <1>1, <1>3 DEF IInv, TypeOK
<1>5. [queue[1][i] EXCEPT !.body = "time"] \in OwnTime
  BY <1>2 DEF OwnTime, OwnQueued, Own, Msg
<1>6. \A v \in Workers : wreq'[v] \in Own /\ (wpc'[v] = "send" => wreq'[v].body = "time")
  BY <1>1, <1>5, Buffers DEF WorkerReceive, IInv, TypeOK, OwnTime
<1>7. TypeOK'
  <2>1. wreq' \in [Workers -> Msg]
    BY <1>1, <1>5, Buffers DEF IInv, TypeOK
  <2>2. wpc' \in [Workers -> {"new", "test", "recv", "send", "exit"}]
    BY DEF WorkerReceive, IInv, TypeOK
  <2> QED BY <1>4, <2>1, <2>2, Zenon DEF WorkerReceive, IInv, TypeOK
<1> QED BY <1>2, <1>4, <1>6, <1>7 DEF WorkerReceive, IInv

(* A worker goes on with its old buffer: the request and the address in it *)
(* stay, the text is printed again.                                        *)
LEMMA ReuseStep ==
  ASSUME IInv, NEW w \in Workers, WorkerReceiveError(w) \/ InterruptReceive(w)
  PROVE  IInv'
<1> USE DEF mainVars, kernelVars, workerVars, history
<1>a. wreq[w] \in Msg /\ wreq[w].type \in 0 .. 2
  BY DEF IInv, TypeOK, Msg
<1>b. ReuseBuffer(w)
  BY DEF WorkerReceiveError, InterruptReceive
<1>1. PICK t \in 0 .. 2 : wreq' = [wreq EXCEPT ![w].type = t, ![w].body = "time"]
  <2>1. CASE wreq[w].body = "zero"
    BY <1>b, <2>1 DEF ReuseBuffer
  <2>2. CASE wreq[w].body # "zero"
    BY <1>a, <1>b, <2>2 DEF ReuseBuffer
  <2> QED BY <2>1, <2>2
<1>2. /\ wreq'[w] \in Own /\ wreq'[w].body = "time" /\ wreq'[w].r = wreq[w].r
      /\ wreq' \in [Workers -> Msg]
  <2> DEFINE m == [r |-> wreq[w].r, addr |-> wreq[w].addr, type |-> t, body |-> "time"]
  <2>1. wreq'[w] = m
    BY <1>1, <1>a DEF IInv, TypeOK, Msg
  <2>2. m \in Own
    BY <1>a DEF IInv, Own, Msg
  <2>3. \A v \in Workers \ {w} : wreq'[v] = wreq[v]
    BY <1>1 DEF IInv, TypeOK
  <2>4. wreq' \in [Workers -> Msg]
    BY <1>1, <2>1, <2>2, <2>3, Buffers DEF IInv, TypeOK
  <2> QED BY <2>1, <2>2, <2>4
<1>3. \A v \in Workers \ {w} : wreq'[v] = wreq[v] /\ wpc'[v] = wpc[v]
  BY <1>1 DEF WorkerReceiveError, InterruptReceive, ReuseBuffer, IInv, TypeOK
<1>4. TypeOK'
  <2>1. wpc' \in [Workers -> {"new", "test", "recv", "send", "exit"}]
    BY DEF WorkerReceiveError, InterruptReceive, ReuseBuffer, IInv, TypeOK
  <2> QED BY <1>2, <2>1 DEF WorkerReceiveError, InterruptReceive, ReuseBuffer, IInv, TypeOK
<1> QED BY <1>2, <1>3, <1>4 DEF WorkerReceiveError, InterruptReceive, IInv

(* A worker's msgsnd: only a printed time enters qids[1].                  *)
LEMMA WorkerSendStep ==
  ASSUME IInv, NEW w \in Workers, WorkerSend(w)
  PROVE  IInv'
<1> USE DEF mainVars, kernelVars, workerVars, history
<1>1. /\ queue' \in [1 .. 2 -> Seq(QueuedMsg)]
      /\ queue'[1] = queue[1]
      /\ queue'[2] \in Seq(OwnTime)
  <2>1. CASE wreq[w].type >= 1 /\ Put(2, wreq[w])
    <3>1. wreq[w] \in OwnTime
      BY <2>1 DEF WorkerSend, IInv, OwnTime, OwnQueued
    <3>2. Append(queue[2], wreq[w]) \in Seq(OwnTime)
      BY <3>1, AppendType DEF IInv
    <3>3. Append(queue[2], wreq[w]) \in Seq(QueuedMsg)
      BY <3>1, AppendType, Buffers DEF IInv, TypeOK
    <3> QED BY <2>1, <3>2, <3>3 DEF Put, IInv, TypeOK
  <2>2. CASE UNCHANGED queue
    BY <2>2 DEF IInv, TypeOK
  <2> QED BY <2>1, <2>2 DEF WorkerSend
<1>2. TypeOK'
  BY <1>1 DEF WorkerSend, IInv, TypeOK
<1> QED BY <1>1, <1>2 DEF WorkerSend, IInv, TypeOK

(* Every step of the server and of its environment keeps the invariant.    *)
LEMMA NextIInv == IInv /\ [Next]_vars => IInv'
<1> SUFFICES ASSUME IInv, [Next]_vars PROVE IInv'
  OBVIOUS
<1>1. CASE UNCHANGED vars
  BY <1>1 DEF vars, mainVars, kernelVars, workerVars, history, IInv, TypeOK
<1>2. CASE Main
  BY <1>2, QuietStep, ReceiveStep, SendStep, ResponseHandlerStep, RemoveQueuesStep DEF Main
<1>3. ASSUME NEW w \in Workers, Worker(w) PROVE IInv'
  BY <1>3, QuietStep, WorkerReceiveStep, ReuseStep, WorkerSendStep DEF Worker
<1>4. CASE Environment
  BY <1>4, BootStep, QuietStep, ReuseStep DEF Environment
<1> QED BY <1>1, <1>2, <1>3, <1>4 DEF Next

-----------------------------------------------------------------------------
(* The inductive invariant: with the types, every message in a buffer, in  *)
(* a queue or on the wire that descends from a request carries the address *)
(* of its sender or none, and qids[1] holds printed times only.            *)
THEOREM Invariance == Spec => []IInv
BY InitIInv, NextIInv, PTL DEF Spec

(* Every variable of the server keeps its type; in particular msgsnd is    *)
(* never given a message of type 0 by the main thread.                     *)
THEOREM TypeCorrect == Spec => []TypeOK
<1>1. IInv => TypeOK
  BY DEF IInv
<1> QED BY <1>1, Invariance, PTL

(* For any number of clients, workers, requests and restarts, a reply goes *)
(* to the client whose request it answers, or to no client.                *)
THEOREM RepliesGoHome == Spec => []AddressedToSender
<1>1. IInv => AddressedToSender
  BY DEF IInv, AddressedToSender, Own
<1> QED BY <1>1, Invariance, PTL

(* With a working reply queue every datagram sent carries a printed time.  *)
THEOREM OnlyTimesAreSent == Spec => RepliesAreTimes
<1>1. ASSUME IInv, [Next]_vars
      PROVE  [\A m \in sent' \ sent : qok[2] => m.body = "time"]_vars
  <2>1. CASE SendReply
    <3>1. PICK i \in DOMAIN queue[2] : sent' = sent \cup {queue[2][i]}
      BY <2>1 DEF SendReply
    <3>2. queue[2][i] \in OwnTime
      BY <1>1, TakenType DEF IInv
    <3> QED BY <3>1, <3>2 DEF OwnTime
  <2>2. CASE SendStale
    BY <2>2 DEF SendStale
  <2>3. CASE sent' = sent
    BY <2>3
  <2>4. SendReply \/ SendStale \/ sent' = sent \/ UNCHANGED vars
    BY <1>1 DEF Next, Main, Worker, Environment, Spawn, Open, Loop, Receive, Timeout,
       EmptyQueue, ResponseHandler, Join, RemoveQueues, WorkerTest, WorkerReceive,
       WorkerReceiveError, WorkerSend, Boot, Signal, InterruptMain, Crash, Arrive, ArriveOther,
       InterruptReceive, InterruptSend, history
  <2> QED BY <2>1, <2>2, <2>3, <2>4
<1> QED BY <1>1, Invariance, PTL DEF Spec, RepliesAreTimes

(* A request is put on the wire a second time only while the process shuts *)
(* down, or when it runs without a reply queue.                            *)
THEOREM RepeatsExplained == Spec => RepeatsOnlyOnFailure
<1>1. ASSUME IInv, [Next]_vars
      PROVE  [repeated' # repeated => ~ running' \/ ~ qok[2]]_vars
  <2>1. CASE SendStale
    BY <2>1 DEF SendStale
  <2>2. ASSUME NEW w \in Workers, WorkerReceiveError(w) PROVE repeated' = repeated
    BY <1>1, <2>2 DEF WorkerReceiveError, ReuseBuffer, IInv
  <2>3. ASSUME NEW w \in Workers, InterruptReceive(w) PROVE running' = FALSE
    BY <2>3 DEF InterruptReceive
  <2>4. \/ SendStale \/ repeated' = repeated \/ UNCHANGED vars
        \/ \E w \in Workers : WorkerReceiveError(w) \/ InterruptReceive(w)
    BY <1>1 DEF Next, Main, Worker, Environment, Spawn, Open, Loop, Receive, Timeout,
       SendReply, EmptyQueue, ResponseHandler, Join, RemoveQueues, WorkerTest,
       WorkerReceive, WorkerSend, Boot, Signal, InterruptMain, Crash, Arrive, ArriveOther,
       InterruptSend, history
  <2> QED BY <2>1, <2>2, <2>3, <2>4
<1> QED BY <1>1, Invariance, PTL DEF Spec, RepeatsOnlyOnFailure

-----------------------------------------------------------------------------
(* Where the copies of a request are.                                      *)

MainPlace == <<"main", "STATE_RESPONSE_HANDLER">>

Handling(r) == state = "STATE_RESPONSE_HANDLER" /\ mpc \in {"loop", "body"} /\ req.r = r

(* Where the copy at p is once message i of a queue has gone to another    *)
(* place and the messages behind it have moved up.                         *)
Removed(name, i, to, p) ==
  IF p = <<name, i>> THEN to
  ELSE IF p[1] = name /\ p[2] > i THEN <<name, p[2] - 1>> ELSE p

(* Where the copy at p is once the one at from has moved.                  *)
Moved(from, to, p) == IF p = from THEN to ELSE p

(* A buffer, a queue or the wire holds no request that has not arrived.    *)
Known ==
  /\ \A j \in DOMAIN sockbuf : sockbuf[j] \in arrived \cup {NoReq}
  /\ req.r \in arrived \cup {NoReq}
  /\ \A k \in 1 .. 2 : \A j \in DOMAIN queue[k] : queue[k][j].r \in arrived \cup {NoReq}
  /\ \A w \in Workers : wreq[w].r \in arrived \cup {NoReq}
  /\ \A m \in sent : m.r \in arrived \cup {NoReq}

(* A worker's buffer with a request came from qids[0], with a valid type;  *)
(* nothing has arrived before the first process has its socket.            *)
Valid ==
  /\ \A w \in Workers : wreq[w].r \in Reqs => wreq[w].type >= 1 /\ wreq[w].body # "zero"
  /\ boots = 0 => mpc = "down" /\ arrived = {}
  /\ boots = 1 /\ mpc \in {"spawn", "open"} => arrived = {}

(* The inductive invariant of the journey of a request.                    *)
Journey == IInv /\ Known /\ Valid /\ AtMostOnce /\ NothingLost

(* No request that is nowhere comes back, and none turns up elsewhere.     *)
NoReturn == \A r \in arrived \ repeated' : Places(r)' # {} => Places(r) # {}

(* No request outside Gone disappears.                                     *)
Stay(Gone) == \A r \in arrived \ Gone : Places(r) # {} => Places(r)' # {}

(* Membership in Places, before and after a step.                          *)
LEMMA InPlaces ==
  ASSUME NEW r
  PROVE  \A p : p \in Places(r) <=>
           \/ \E j \in DOMAIN sockbuf : sockbuf[j] = r /\ p = <<"socket", j>>
           \/ Handling(r) /\ p = MainPlace
           \/ \E j \in DOMAIN queue[1] : queue[1][j].r = r /\ p = <<"queue1", j>>
           \/ \E w \in Workers : wpc[w] = "send" /\ wreq[w].r = r /\ p = <<"worker", w>>
           \/ \E j \in DOMAIN queue[2] : queue[2][j].r = r /\ p = <<"queue2", j>>
           \/ \E m \in sent : m.r = r /\ p = <<"sent", m>>
BY Zenon DEF Places, Handling, MainPlace

LEMMA InPlacesNext ==
  ASSUME NEW r
  PROVE  \A p : p \in Places(r)' <=>
           \/ \E j \in DOMAIN sockbuf' : sockbuf'[j] = r /\ p = <<"socket", j>>
           \/ Handling(r)' /\ p = MainPlace
           \/ \E j \in DOMAIN queue'[1] : queue'[1][j].r = r /\ p = <<"queue1", j>>
           \/ \E w \in Workers : wpc'[w] = "send" /\ wreq'[w].r = r /\ p = <<"worker", w>>
           \/ \E j \in DOMAIN queue'[2] : queue'[2][j].r = r /\ p = <<"queue2", j>>
           \/ \E m \in sent' : m.r = r /\ p = <<"sent", m>>
BY Zenon DEF Places, Handling, MainPlace

(* RemoveAt closes the gap.                                                *)
LEMMA RemoveAtElements ==
  ASSUME NEW S, NEW s \in Seq(S), NEW i \in DOMAIN s
  PROVE  /\ DOMAIN s = 1 .. Len(s) /\ Len(s) \in Nat
         /\ DOMAIN RemoveAt(s, i) = 1 .. Len(s) - 1
         /\ \A j \in 1 .. Len(s) - 1 :
              RemoveAt(s, i)[j] = s[IF j < i THEN j ELSE j + 1]
<1>1. i \in 1 .. Len(s) /\ Len(s) \in Nat /\ DOMAIN s = 1 .. Len(s)
  BY LenProperties
<1> DEFINE low == SubSeq(s, 1, i - 1)  high == SubSeq(s, i + 1, Len(s))
<1>2. /\ low \in Seq(S) /\ Len(low) = i - 1
      /\ \A j \in 1 .. i - 1 : low[j] = s[j]
  <2>1. \A j \in 1 .. i - 1 : s[j] \in S
    BY <1>1, ElementOfSeq
  <2> QED BY <1>1, <2>1, SubSeqProperties
<1>3. /\ high \in Seq(S) /\ Len(high) = Len(s) - i
      /\ \A j \in 1 .. Len(s) - i : high[j] = s[i + j]
  <2>1. \A j \in i + 1 .. Len(s) : s[j] \in S
    BY <1>1, ElementOfSeq
  <2> QED BY <1>1, <2>1, SubSeqProperties
<1>4. RemoveAt(s, i) = low \o high
  BY DEF RemoveAt
<1> HIDE DEF low, high
<1>5. /\ low \o high \in Seq(S) /\ Len(low \o high) = Len(s) - 1
      /\ \A j \in 1 .. Len(s) - 1 :
           (low \o high)[j] = IF j <= Len(low) THEN low[j] ELSE high[j - Len(low)]
  <2>1. Len(low) + Len(high) = Len(s) - 1
    BY <1>1, <1>2, <1>3
  <2>2. /\ low \o high \in Seq(S) /\ Len(low \o high) = Len(low) + Len(high)
        /\ \A j \in 1 .. Len(low) + Len(high) :
             (low \o high)[j] = IF j <= Len(low) THEN low[j] ELSE high[j - Len(low)]
    BY <1>2, <1>3, ConcatProperties, Zenon
  <2> QED BY <2>1, <2>2, Zenon
<1>6. DOMAIN (low \o high) = 1 .. Len(s) - 1
  BY <1>5, LenProperties
<1>7. ASSUME NEW j \in 1 .. Len(s) - 1
      PROVE  (low \o high)[j] = s[IF j < i THEN j ELSE j + 1]
  <2>1. CASE j < i
    BY <1>1, <1>2, <1>5, <2>1
  <2>2. CASE ~ (j < i)
    <3>1. j - (i - 1) \in 1 .. Len(s) - i /\ i + (j - (i - 1)) = j + 1
      BY <1>1, <2>2
    <3>2. high[j - (i - 1)] = s[i + (j - (i - 1))]
      BY <1>3, <3>1
    <3>3. (low \o high)[j] = high[j - (i - 1)]
      BY <1>1, <1>2, <1>5, <2>2
    <3> QED BY <2>2, <3>1, <3>2, <3>3
  <2> QED BY <2>1, <2>2
<1> QED BY <1>1, <1>4, <1>6, <1>7

(* Append adds a last element.                                             *)
LEMMA AppendElements ==
  ASSUME NEW S, NEW s \in Seq(S), NEW e \in S
  PROVE  /\ DOMAIN s = 1 .. Len(s) /\ Len(s) \in Nat
         /\ DOMAIN Append(s, e) = 1 .. Len(s) + 1
         /\ \A j \in 1 .. Len(s) : Append(s, e)[j] = s[j]
         /\ Append(s, e)[Len(s) + 1] = e
BY AppendProperties, LenProperties

-----------------------------------------------------------------------------
(* The steps.                                                              *)

(* The types the steps below need.                                         *)
LEMMA JourneyTypes ==
  ASSUME Journey
  PROVE  /\ sockbuf \in Seq(Reqs \cup {NoReq}) /\ req \in Msg
         /\ queue \in [1 .. 2 -> Seq(QueuedMsg)]
         /\ wreq \in [Workers -> Msg] /\ wpc \in [Workers -> {"new", "test", "recv", "send", "exit"}]
         /\ DOMAIN sockbuf = 1 .. Len(sockbuf) /\ Len(sockbuf) \in Nat
         /\ \A k \in 1 .. 2 : DOMAIN queue[k] = 1 .. Len(queue[k]) /\ Len(queue[k]) \in Nat
         /\ arrived \subseteq Reqs
<1>1. /\ sockbuf \in Seq(Reqs \cup {NoReq}) /\ req \in Msg
      /\ queue \in [1 .. 2 -> Seq(QueuedMsg)]
      /\ wreq \in [Workers -> Msg] /\ wpc \in [Workers -> {"new", "test", "recv", "send", "exit"}]
      /\ arrived \subseteq Reqs
  BY DEF Journey, IInv, TypeOK
<1> QED BY <1>1, LenProperties

(* Steps that add no copy of a request.                                    *)
LEMMA NoNewCopy ==
  ASSUME Journey,
         UNCHANGED arrived, repeated \subseteq repeated',
         \/ sent' = sent
         \/ sent' = sent \cup {req} /\ (req.r \in Reqs => req.r \in repeated'),
         sockbuf' = sockbuf \/ sockbuf' = <<>>,
         \A k \in 1 .. 2 : queue'[k] = queue[k] \/ queue'[k] = <<>>,
         req'.r = req.r \/ req'.r = NoReq,
         \A w \in Workers : wreq'[w].r = wreq[w].r \/ wreq'[w].r = NoReq,
         (state' = "STATE_RESPONSE_HANDLER" /\ mpc' \in {"loop", "body"})
            => /\ state = "STATE_RESPONSE_HANDLER" /\ mpc \in {"loop", "body"}
               /\ req'.r = req.r,
         \A w \in Workers : \/ wpc'[w] # "send"
                            \/ wpc[w] = "send" /\ wreq'[w].r = wreq[w].r
                            \/ wreq[w].r \in Reqs => wreq[w].r \in repeated'
  PROVE  Known' /\ AtMostOnce' /\ NoReturn
<1> DEFINE empty == <<>>
<1>1. DOMAIN empty = {}
  OBVIOUS
<1>2. Known'
  BY <1>1 DEF Journey, Known
<1>3. ASSUME NEW r \in Reqs \ repeated', NEW p \in Places(r)'
      PROVE  p \in Places(r)
  <2>1. CASE \E j \in DOMAIN sockbuf' : sockbuf'[j] = r /\ p = <<"socket", j>>
    <3>1. \E j \in DOMAIN sockbuf : sockbuf[j] = r /\ p = <<"socket", j>>
      BY <1>1, <2>1
    <3> QED BY <3>1, InPlaces
  <2>2. CASE Handling(r)' /\ p = MainPlace
    <3>1. Handling(r) /\ p = MainPlace
      BY <2>2 DEF Handling
    <3> QED BY <3>1, InPlaces
  <2>3. CASE \E j \in DOMAIN queue'[1] : queue'[1][j].r = r /\ p = <<"queue1", j>>
    <3>1. \E j \in DOMAIN queue[1] : queue[1][j].r = r /\ p = <<"queue1", j>>
      BY <1>1, <2>3
    <3> QED BY <3>1, InPlaces
  <2>4. CASE \E w \in Workers : wpc'[w] = "send" /\ wreq'[w].r = r /\ p = <<"worker", w>>
    <3>1. \E w \in Workers : wpc[w] = "send" /\ wreq[w].r = r /\ p = <<"worker", w>>
      BY <2>4, UdpAssumption
    <3> QED BY <3>1, InPlaces
  <2>5. CASE \E j \in DOMAIN queue'[2] : queue'[2][j].r = r /\ p = <<"queue2", j>>
    <3>1. \E j \in DOMAIN queue[2] : queue[2][j].r = r /\ p = <<"queue2", j>>
      BY <1>1, <2>5
    <3> QED BY <3>1, InPlaces
  <2>6. CASE \E m \in sent' : m.r = r /\ p = <<"sent", m>>
    <3>1. \E m \in sent : m.r = r /\ p = <<"sent", m>>
      BY <2>6
    <3> QED BY <3>1, InPlaces
  <2>7. \/ \E j \in DOMAIN sockbuf' : sockbuf'[j] = r /\ p = <<"socket", j>>
        \/ Handling(r)' /\ p = MainPlace
        \/ \E j \in DOMAIN queue'[1] : queue'[1][j].r = r /\ p = <<"queue1", j>>
        \/ \E w \in Workers : wpc'[w] = "send" /\ wreq'[w].r = r /\ p = <<"worker", w>>
        \/ \E j \in DOMAIN queue'[2] : queue'[2][j].r = r /\ p = <<"queue2", j>>
        \/ \E m \in sent' : m.r = r /\ p = <<"sent", m>>
    BY <1>3, InPlacesNext
  <2> QED BY <2>1, <2>2, <2>3, <2>4, <2>5, <2>6, <2>7
<1>4. AtMostOnce' /\ NoReturn
  BY <1>3, JourneyTypes DEF Journey, AtMostOnce, NoReturn
<1> QED BY <1>2, <1>4

(* Steps that take away no copy of a request outside Gone.                 *)
LEMMA CopiesStay ==
  ASSUME Journey, NEW Gone, sent \subseteq sent', UNCHANGED <<sockbuf, queue>>,
         \A r \in Reqs \ Gone : Handling(r) => Handling(r)',
         \A w \in Workers : wpc[w] = "send"
            => \/ wpc'[w] = "send" /\ wreq'[w].r = wreq[w].r
               \/ wreq[w].r \notin Reqs
  PROVE  Stay(Gone)
<1> SUFFICES ASSUME NEW r \in arrived \ Gone, NEW p \in Places(r) PROVE p \in Places(r)'
  BY DEF Stay
<1>1. r \in Reqs
  BY JourneyTypes
<1>2. CASE \E j \in DOMAIN sockbuf : sockbuf[j] = r /\ p = <<"socket", j>>
  BY <1>2, InPlacesNext
<1>3. CASE Handling(r) /\ p = MainPlace
  BY <1>1, <1>3, InPlacesNext
<1>4. CASE \E j \in DOMAIN queue[1] : queue[1][j].r = r /\ p = <<"queue1", j>>
  BY <1>4, InPlacesNext
<1>5. CASE \E w \in Workers : wpc[w] = "send" /\ wreq[w].r = r /\ p = <<"worker", w>>
  <2>1. \E w \in Workers : wpc'[w] = "send" /\ wreq'[w].r = r /\ p = <<"worker", w>>
    BY <1>1, <1>5
  <2> QED BY <2>1, InPlacesNext
<1>6. CASE \E j \in DOMAIN queue[2] : queue[2][j].r = r /\ p = <<"queue2", j>>
  BY <1>6, InPlacesNext
<1>7. CASE \E m \in sent : m.r = r /\ p = <<"sent", m>>
  <2>1. \E m \in sent' : m.r = r /\ p = <<"sent", m>>
    BY <1>7
  <2> QED BY <2>1, InPlacesNext
<1>8. \/ \E j \in DOMAIN sockbuf : sockbuf[j] = r /\ p = <<"socket", j>>
      \/ Handling(r) /\ p = MainPlace
      \/ \E j \in DOMAIN queue[1] : queue[1][j].r = r /\ p = <<"queue1", j>>
      \/ \E w \in Workers : wpc[w] = "send" /\ wreq[w].r = r /\ p = <<"worker", w>>
      \/ \E j \in DOMAIN queue[2] : queue[2][j].r = r /\ p = <<"queue2", j>>
      \/ \E m \in sent : m.r = r /\ p = <<"sent", m>>
  BY InPlaces
<1> QED BY <1>2, <1>3, <1>4, <1>5, <1>6, <1>7, <1>8

(* Steps that take no copy away, while the first process serves.           *)
LEMMA NoCopyGone ==
  ASSUME Journey, FirstServes, mpc' \in {"loop", "body"},
         arrived' = arrived, dropped \subseteq dropped', sent \subseteq sent',
         UNCHANGED <<sockbuf, queue>>,
         state = "STATE_RESPONSE_HANDLER"
            => \/ state' = "STATE_RESPONSE_HANDLER" /\ req'.r = req.r
               \/ req.r \in Reqs => req.r \in dropped',
         \A w \in Workers : wpc[w] = "send"
            => \/ wpc'[w] = "send" /\ wreq'[w].r = wreq[w].r
               \/ wreq[w].r \notin Reqs
  PROVE  \A r \in arrived' \ dropped' : Places(r)' # {}
<1>1. \A r \in Reqs \ dropped' : Handling(r) => Handling(r)'
  BY DEF Handling
<1>2. Stay(dropped')
  BY <1>1, CopiesStay
<1> QED BY <1>2 DEF Stay, Journey, NothingLost, FirstServes

(* Steps of start-up, shutdown and the environment that move no message.   *)
LEMMA QuietJourney ==
  ASSUME Journey,
         \/ \E w \in Workers : Spawn(w)
         \/ Open \/ Loop \/ Timeout \/ EmptyQueue \/ Join \/ RemoveQueues
         \/ \E w \in Workers : WorkerTest(w) \/ InterruptSend(w)
         \/ Boot \/ Signal \/ InterruptMain \/ Crash
  PROVE  Known' /\ Valid' /\ AtMostOnce' /\ NothingLost' /\ NoReturn
<1> USE DEF mainVars, kernelVars, workerVars, history
<1>1. ASSUME NEW w \in Workers, Spawn(w) PROVE Known' /\ Valid' /\ AtMostOnce' /\ NothingLost' /\ NoReturn
  <2>1. Known' /\ AtMostOnce' /\ NoReturn
    BY <1>1, NoNewCopy, JourneyTypes DEF Spawn
  <2>2. Valid' /\ NothingLost'
    BY <1>1 DEF Spawn, Journey, Valid, NothingLost, FirstServes, Serving
  <2> QED BY <2>1, <2>2
<1>2. CASE Open
  <2>1. Known' /\ AtMostOnce' /\ NoReturn
    BY <1>2, NoNewCopy DEF Open
  <2>2. Valid' /\ NothingLost'
    BY <1>2 DEF Open, Journey, Valid, NothingLost, FirstServes
  <2> QED BY <2>1, <2>2
<1>3. CASE Loop \/ Timeout \/ EmptyQueue
  <2>1. Known' /\ AtMostOnce' /\ NoReturn
    BY <1>3, NoNewCopy DEF Loop, Timeout, EmptyQueue
  <2>2. Valid'
    BY <1>3 DEF Loop, Timeout, EmptyQueue, Journey, Valid
  <2>3. NothingLost'
    <3>1. SUFFICES ASSUME FirstServes' PROVE \A r \in arrived' \ dropped' : Places(r)' # {}
      BY DEF FirstServes, NothingLost
    <3>2. FirstServes /\ mpc' \in {"loop", "body"}
      BY <1>3, <3>1 DEF Loop, Timeout, EmptyQueue, FirstServes, Serving
    <3> QED BY <1>3, <3>2, NoCopyGone DEF Loop, Timeout, EmptyQueue
  <2> QED BY <2>1, <2>2, <2>3
<1>4. CASE Join \/ Signal \/ InterruptMain
  <2>1. Known' /\ AtMostOnce' /\ NoReturn
    BY <1>4, NoNewCopy DEF Join, Signal, InterruptMain
  <2>2. Valid' /\ NothingLost'
    BY <1>4 DEF Join, Signal, InterruptMain, Journey, Valid, NothingLost, FirstServes, Serving
  <2> QED BY <2>1, <2>2
<1>5. CASE RemoveQueues
  <2>1. Known' /\ AtMostOnce' /\ NoReturn
    BY <1>5, NoNewCopy, JourneyTypes DEF RemoveQueues
  <2>2. Valid' /\ NothingLost'
    BY <1>5 DEF RemoveQueues, Journey, Valid, NothingLost, FirstServes, Serving
  <2> QED BY <2>1, <2>2
<1>6. ASSUME NEW w \in Workers, WorkerTest(w)
      PROVE  Known' /\ Valid' /\ AtMostOnce' /\ NothingLost' /\ NoReturn
  <2>1. \A v \in Workers : wpc'[v] = "send" <=> wpc[v] = "send"
    BY <1>6, JourneyTypes DEF WorkerTest
  <2>2. Known' /\ AtMostOnce' /\ NoReturn
    BY <1>6, <2>1, NoNewCopy DEF WorkerTest
  <2>3. Valid'
    BY <1>6 DEF WorkerTest, Journey, Valid
  <2>4. NothingLost'
    <3>1. SUFFICES ASSUME FirstServes' PROVE \A r \in arrived' \ dropped' : Places(r)' # {}
      BY DEF FirstServes, NothingLost
    <3>2. FirstServes /\ mpc' \in {"loop", "body"}
      BY <1>6, <3>1 DEF WorkerTest, FirstServes, Serving
    <3> QED BY <1>6, <2>1, <3>2, NoCopyGone DEF WorkerTest
  <2> QED BY <2>2, <2>3, <2>4
<1>7. ASSUME NEW w \in Workers, InterruptSend(w)
      PROVE  Known' /\ Valid' /\ AtMostOnce' /\ NothingLost' /\ NoReturn
  <2>1. \A v \in Workers : wpc'[v] = "send" => wpc[v] = "send"
    BY <1>7, JourneyTypes DEF InterruptSend
  <2>2. Known' /\ AtMostOnce' /\ NoReturn
    BY <1>7, <2>1, NoNewCopy DEF InterruptSend
  <2>3. Valid' /\ NothingLost'
    BY <1>7 DEF InterruptSend, Journey, Valid, NothingLost, FirstServes, Serving
  <2> QED BY <2>2, <2>3
<1>8. CASE Boot
  <2>1. Zeroed.r = NoReq /\ NoReq \notin Reqs
    BY ZeroedOwn, UdpAssumption
  <2>2. Known' /\ AtMostOnce' /\ NoReturn
    BY <1>8, <2>1, NoNewCopy DEF Boot
  <2>3. boots \in Nat
    BY UdpAssumption DEF Journey, IInv, TypeOK
  <2>4. Valid' /\ NothingLost'
    BY <1>8, <2>1, <2>3 DEF Boot, Journey, Valid, NothingLost, FirstServes, Serving
  <2> QED BY <2>2, <2>4
<1>9. CASE Crash
  <2>1. Known' /\ AtMostOnce' /\ NoReturn
    BY <1>9, NoNewCopy DEF Crash
  <2>2. Valid' /\ NothingLost'
    BY <1>9 DEF Crash, Journey, Valid, NothingLost, FirstServes, Serving
  <2> QED BY <2>1, <2>2
<1> QED BY <1>1, <1>2, <1>3, <1>4, <1>5, <1>6, <1>7, <1>8, <1>9

(* An old buffer used again: its request counts as repeated.               *)
LEMMA ReuseJourney ==
  ASSUME Journey, NEW w \in Workers, WorkerReceiveError(w) \/ InterruptReceive(w)
  PROVE  Known' /\ Valid' /\ AtMostOnce' /\ NothingLost' /\ NoReturn
<1> USE DEF mainVars, kernelVars, workerVars, history
<1>1. ReuseBuffer(w) /\ UNCHANGED <<state, mpc, req, kernelVars, boots, arrived, sent, dropped>>
  BY DEF WorkerReceiveError, InterruptReceive
<1>2. /\ \A v \in Workers \ {w} : wreq'[v] = wreq[v] /\ wpc'[v] = wpc[v]
      /\ wreq'[w].r = wreq[w].r
      /\ wreq[w].body # "zero" => wreq'[w].type = wreq[w].type
      /\ wreq'[w].body = "time"
  BY <1>1, JourneyTypes DEF ReuseBuffer, Msg
<1>3. wreq[w].r \in Reqs => wreq[w].r \in repeated'
  BY <1>1 DEF ReuseBuffer
<1>4. repeated \subseteq repeated'
  BY <1>1 DEF ReuseBuffer
<1>5. Known' /\ AtMostOnce' /\ NoReturn
  BY <1>1, <1>2, <1>3, <1>4, NoNewCopy
<1>6. Valid'
  BY <1>1, <1>2 DEF Journey, Valid
<1>7. NothingLost'
  BY DEF WorkerReceiveError, InterruptReceive, NothingLost, FirstServes, Serving
<1> QED BY <1>5, <1>6, <1>7

(* sendto with an old buffer: its request counts as repeated.              *)
LEMMA SendStaleJourney ==
  ASSUME Journey, SendStale
  PROVE  Known' /\ Valid' /\ AtMostOnce' /\ NothingLost' /\ NoReturn
<1> USE DEF mainVars, kernelVars, workerVars, history
<1>1. sent' = sent \cup {req} /\ (req.r \in Reqs => req.r \in repeated')
  BY DEF SendStale
<1>2. Known' /\ AtMostOnce' /\ NoReturn
  BY <1>1, NoNewCopy DEF SendStale
<1>3. Valid' /\ NothingLost'
  BY DEF SendStale, Journey, Valid, NothingLost, FirstServes
<1> QED BY <1>2, <1>3

(* A datagram arrives: its request was nowhere before.                     *)
LEMMA ArriveJourney ==
  ASSUME Journey, NEW x \in Reqs, Arrive(x)
  PROVE  Known' /\ Valid' /\ AtMostOnce' /\ NothingLost' /\ NoReturn
         /\ Stay({}) /\ Places(x)' # {}
<1> USE DEF mainVars, kernelVars, workerVars, history
<1> DEFINE n == Len(sockbuf) + 1
<1>1. /\ UNCHANGED <<running, state, mpc, req, qok, queue, wpc, wreq, boots, sent, repeated,
                     dropped>>
      /\ arrived' = arrived \cup {x} /\ x \notin arrived /\ mpc \in {"loop", "body"}
  BY DEF Arrive
<1>2. /\ DOMAIN sockbuf = 1 .. Len(sockbuf) /\ Len(sockbuf) \in Nat
      /\ DOMAIN sockbuf' = 1 .. n /\ sockbuf'[n] = x
      /\ \A j \in 1 .. Len(sockbuf) : sockbuf'[j] = sockbuf[j]
  BY JourneyTypes, AppendElements DEF Arrive
<1>3. Known'
  BY <1>1, <1>2 DEF Journey, Known
<1>4. Valid'
  BY <1>1 DEF Journey, Valid
<1>5. ASSUME NEW r \in Reqs, NEW q \in Places(r)'
      PROVE  IF r = x THEN q = <<"socket", n>> ELSE q \in Places(r)
  <2>1. CASE \E j \in DOMAIN sockbuf' : sockbuf'[j] = r /\ q = <<"socket", j>>
    <3>1. CASE r = x
      BY <1>1, <1>2, <2>1, <3>1, UdpAssumption DEF Journey, Known
    <3>2. CASE r # x
      <4>1. \E j \in DOMAIN sockbuf : sockbuf[j] = r /\ q = <<"socket", j>>
        BY <1>2, <2>1, <3>2
      <4> QED BY <3>2, <4>1, InPlaces
    <3> QED BY <3>1, <3>2
  <2>2. CASE ~ \E j \in DOMAIN sockbuf' : sockbuf'[j] = r /\ q = <<"socket", j>>
    <3>1. \/ Handling(r) /\ q = MainPlace
          \/ \E j \in DOMAIN queue[1] : queue[1][j].r = r /\ q = <<"queue1", j>>
          \/ \E w \in Workers : wpc[w] = "send" /\ wreq[w].r = r /\ q = <<"worker", w>>
          \/ \E j \in DOMAIN queue[2] : queue[2][j].r = r /\ q = <<"queue2", j>>
          \/ \E m \in sent : m.r = r /\ q = <<"sent", m>>
      BY <1>1, <1>5, <2>2, InPlacesNext DEF Handling
    <3>2. q \in Places(r)
      BY <3>1, InPlaces
    <3>3. r \in arrived
      BY <3>1, UdpAssumption DEF Journey, Known, Handling
    <3> QED BY <1>1, <3>2, <3>3
  <2> QED BY <2>1, <2>2
<1>6. AtMostOnce' /\ NoReturn
  BY <1>1, <1>5, JourneyTypes DEF Journey, AtMostOnce, NoReturn
<1>7. Stay({})
  <2> SUFFICES ASSUME NEW r \in arrived, NEW p \in Places(r) PROVE p \in Places(r)'
    BY DEF Stay
  <2>1. CASE \E j \in DOMAIN sockbuf : sockbuf[j] = r /\ p = <<"socket", j>>
    <3>1. \E j \in DOMAIN sockbuf' : sockbuf'[j] = r /\ p = <<"socket", j>>
      BY <1>2, <2>1
    <3> QED BY <3>1, InPlacesNext
  <2>2. CASE ~ \E j \in DOMAIN sockbuf : sockbuf[j] = r /\ p = <<"socket", j>>
    <3>1. \/ Handling(r)' /\ p = MainPlace
          \/ \E j \in DOMAIN queue'[1] : queue'[1][j].r = r /\ p = <<"queue1", j>>
          \/ \E w \in Workers : wpc'[w] = "send" /\ wreq'[w].r = r /\ p = <<"worker", w>>
          \/ \E j \in DOMAIN queue'[2] : queue'[2][j].r = r /\ p = <<"queue2", j>>
          \/ \E m \in sent' : m.r = r /\ p = <<"sent", m>>
      BY <1>1, <2>2, InPlaces DEF Handling
    <3> QED BY <3>1, InPlacesNext
  <2> QED BY <2>1, <2>2
<1>8. <<"socket", n>> \in Places(x)'
  BY <1>2, InPlacesNext
<1>9. NothingLost'
  <2>1. SUFFICES ASSUME FirstServes', NEW r \in arrived' \ dropped' PROVE Places(r)' # {}
    BY DEF NothingLost
  <2>2. CASE r # x
    BY <1>1, <1>7, <2>1, <2>2 DEF Stay, FirstServes, Serving, Journey, NothingLost
  <2> QED BY <1>8, <2>2
<1> QED BY <1>3, <1>4, <1>6, <1>7, <1>8, <1>9

(* Another datagram arrives: every copy of a request stays where it is.    *)
LEMMA ArriveOtherJourney ==
  ASSUME Journey, ArriveOther
  PROVE  Known' /\ Valid' /\ AtMostOnce' /\ NothingLost' /\ NoReturn
<1> USE DEF mainVars, kernelVars, workerVars, history
<1> DEFINE n == Len(sockbuf) + 1
<1>1. /\ UNCHANGED <<running, state, mpc, req, qok, queue, wpc, wreq, boots, arrived, sent,
                     repeated, dropped>>
  BY DEF ArriveOther
<1>2. /\ DOMAIN sockbuf = 1 .. Len(sockbuf) /\ Len(sockbuf) \in Nat
      /\ DOMAIN sockbuf' = 1 .. n /\ sockbuf'[n] = NoReq
      /\ \A j \in 1 .. Len(sockbuf) : sockbuf'[j] = sockbuf[j]
  BY JourneyTypes, AppendElements DEF ArriveOther
<1>3. Known' /\ Valid'
  BY <1>1, <1>2 DEF Journey, Known, Valid
<1>4. ASSUME NEW r \in Reqs PROVE Places(r)' = Places(r)
  <2>1. \A p : (\E j \in DOMAIN sockbuf' : sockbuf'[j] = r /\ p = <<"socket", j>>)
               <=> (\E j \in DOMAIN sockbuf : sockbuf[j] = r /\ p = <<"socket", j>>)
    BY <1>2, UdpAssumption
  <2>2. Handling(r)' <=> Handling(r)
    BY <1>1 DEF Handling
  <2>3. \A p : p \in Places(r)' <=> p \in Places(r)
    BY <1>1, <2>1, <2>2, InPlaces, InPlacesNext
  <2>4. Places(r)' \subseteq Places(r) /\ Places(r) \subseteq Places(r)'
    BY <2>3
  <2> QED BY <2>4
<1>5. AtMostOnce' /\ NoReturn
  BY <1>1, <1>4, JourneyTypes DEF Journey, AtMostOnce, NoReturn
<1>6. NothingLost'
  BY <1>1, <1>4, JourneyTypes DEF Journey, NothingLost, FirstServes, Serving
<1> QED BY <1>3, <1>5, <1>6

(* recvfrom: the first datagram goes from the socket to req.               *)
LEMMA ReceiveJourney ==
  ASSUME Journey, Receive
  PROVE  Known' /\ Valid' /\ AtMostOnce' /\ NothingLost' /\ NoReturn
<1> USE DEF mainVars, kernelVars, workerVars, history
<1> DEFINE mv(p) == Removed("socket", 1, MainPlace, p)
<1>1. /\ UNCHANGED <<qok, queue, wpc, wreq, boots, arrived, sent, repeated, dropped>>
      /\ mpc = "body" /\ mpc' = "loop" /\ state = "STATE_RECV" /\ sockbuf # <<>>
      /\ running' => state' = "STATE_RESPONSE_HANDLER" /\ running
  BY DEF Receive
<1>2. /\ DOMAIN sockbuf = 1 .. Len(sockbuf) /\ Len(sockbuf) \in Nat \ {0}
      /\ DOMAIN sockbuf' = 1 .. Len(sockbuf) - 1
      /\ \A j \in 1 .. Len(sockbuf) - 1 : sockbuf'[j] = sockbuf[j + 1]
      /\ Head(sockbuf) = sockbuf[1]
  <2>1. sockbuf' = Tail(sockbuf)
    BY DEF Receive
  <2> QED BY <1>1, <2>1, JourneyTypes, HeadTailProperties, EmptySeq, LenProperties
<1>3. req'.r = sockbuf[1]
  BY <1>2, JourneyTypes DEF Receive, Msg
<1>4. Known'
  BY <1>1, <1>2, <1>3 DEF Journey, Known
<1>5. Valid'
  BY <1>1 DEF Journey, Valid
<1>6. ASSUME NEW r \in Reqs, NEW q \in Places(r)'
      PROVE  \E p \in Places(r) : q = mv(p)
  <2>1. CASE \E j \in DOMAIN sockbuf' : sockbuf'[j] = r /\ q = <<"socket", j>>
    <3>1. PICK j \in 1 .. Len(sockbuf) - 1 : sockbuf[j + 1] = r /\ q = <<"socket", j>>
      BY <1>2, <2>1
    <3>2. <<"socket", j + 1>> \in Places(r)
      BY <1>2, <3>1, InPlaces
    <3>3. mv(<<"socket", j + 1>>) = <<"socket", j>>
      <4>1. j + 1 # 1 /\ j + 1 > 1 /\ (j + 1) - 1 = j
        BY <1>2, <3>1
      <4> QED BY <4>1, <<"socket", j + 1>> # <<"socket", 1>> DEF Removed
    <3> QED BY <3>1, <3>2, <3>3
  <2>2. CASE Handling(r)' /\ q = MainPlace
    <3>1. <<"socket", 1>> \in Places(r)
      BY <1>2, <1>3, <2>2, InPlaces DEF Handling
    <3>2. mv(<<"socket", 1>>) = MainPlace
      BY DEF Removed
    <3> QED BY <2>2, <3>1, <3>2
  <2>3. CASE \/ \E j \in DOMAIN queue[1] : queue[1][j].r = r /\ q = <<"queue1", j>>
             \/ \E w \in Workers : wpc[w] = "send" /\ wreq[w].r = r /\ q = <<"worker", w>>
             \/ \E j \in DOMAIN queue[2] : queue[2][j].r = r /\ q = <<"queue2", j>>
             \/ \E m \in sent : m.r = r /\ q = <<"sent", m>>
    <3>1. q \in Places(r)
      BY <2>3, InPlaces
    <3>2. mv(q) = q
      BY <2>3 DEF Removed
    <3> QED BY <3>1, <3>2
  <2> QED BY <1>1, <1>6, <2>1, <2>2, <2>3, InPlacesNext
<1>7. AtMostOnce' /\ NoReturn
  BY <1>1, <1>6, JourneyTypes DEF Journey, AtMostOnce, NoReturn
<1>8. NothingLost'
  <2>1. SUFFICES ASSUME FirstServes', NEW r \in arrived' \ dropped' PROVE Places(r)' # {}
    BY DEF FirstServes, NothingLost
  <2>2. PICK p : p \in Places(r)
    BY <1>1, <2>1 DEF FirstServes, Serving, Journey, NothingLost
  <2>3. CASE \E j \in DOMAIN sockbuf : sockbuf[j] = r /\ p = <<"socket", j>>
    <3>1. PICK j \in 1 .. Len(sockbuf) : sockbuf[j] = r
      BY <1>2, <2>3
    <3>2. CASE j = 1
      <4>1. Handling(r)'
        BY <1>1, <1>3, <2>1, <3>1, <3>2 DEF Handling, FirstServes, Serving
      <4> QED BY <4>1, InPlacesNext
    <3>3. CASE j # 1
      <4>1. j - 1 \in DOMAIN sockbuf' /\ sockbuf'[j - 1] = r
        BY <1>2, <3>1, <3>3
      <4> QED BY <4>1, InPlacesNext
    <3> QED BY <3>2, <3>3
  <2>4. CASE ~ \E j \in DOMAIN sockbuf : sockbuf[j] = r /\ p = <<"socket", j>>
    <3>1. \/ \E j \in DOMAIN queue'[1] : queue'[1][j].r = r /\ p = <<"queue1", j>>
          \/ \E w \in Workers : wpc'[w] = "send" /\ wreq'[w].r = r /\ p = <<"worker", w>>
          \/ \E j \in DOMAIN queue'[2] : queue'[2][j].r = r /\ p = <<"queue2", j>>
          \/ \E m \in sent' : m.r = r /\ p = <<"sent", m>>
      BY <1>1, <2>2, <2>4, InPlaces DEF Handling
    <3> QED BY <3>1, InPlacesNext
  <2> QED BY <2>3, <2>4
<1> QED BY <1>4, <1>5, <1>7, <1>8

(* msgrcv and sendto in the main thread: a reply goes from qids[1] to the  *)
(* wire.                                                                   *)
LEMMA SendReplyJourney ==
  ASSUME Journey, SendReply
  PROVE  Known' /\ Valid' /\ AtMostOnce' /\ NothingLost' /\ NoReturn /\ Stay({})
<1> USE DEF mainVars, kernelVars, workerVars, history
<1>1. PICK i \in DOMAIN queue[2] :
        /\ queue' = [queue EXCEPT ![2] = RemoveAt(@, i)]
        /\ req' = queue[2][i]
        /\ sent' = sent \cup {queue[2][i]}
  BY DEF SendReply, Take
<1>2. /\ UNCHANGED <<running, sockbuf, qok, wpc, wreq, boots, arrived, repeated, dropped>>
      /\ mpc = "body" /\ mpc' = "loop" /\ state = "STATE_SEND" /\ state' = "STATE_RECV"
  BY DEF SendReply
<1> DEFINE n == Len(queue[2])  m == queue[2][i]
           mv(p) == Removed("queue2", i, <<"sent", m>>, p)
<1>3. /\ DOMAIN queue[2] = 1 .. n /\ n \in Nat /\ DOMAIN queue'[2] = 1 .. n - 1
      /\ \A j \in 1 .. n - 1 : queue'[2][j] = queue[2][IF j < i THEN j ELSE j + 1]
      /\ queue'[1] = queue[1]
  BY <1>1, JourneyTypes, RemoveAtElements
<1>4. Known'
  <2>1. \A j \in DOMAIN queue'[2] : queue'[2][j].r \in arrived \cup {NoReq}
    BY <1>3 DEF Journey, Known
  <2>2. \A j \in DOMAIN queue'[1] : queue'[1][j].r \in arrived \cup {NoReq}
    BY <1>3 DEF Journey, Known
  <2>3. m.r \in arrived \cup {NoReq}
    BY <1>1 DEF Journey, Known
  <2> QED BY <1>1, <1>2, <2>1, <2>2, <2>3 DEF Journey, Known
<1>5. Valid'
  BY <1>2 DEF Journey, Valid
<1>6. ASSUME NEW r \in Reqs, NEW q \in Places(r)'
      PROVE  \E p \in Places(r) : q = mv(p)
  <2>1. CASE \E j \in DOMAIN queue'[2] : queue'[2][j].r = r /\ q = <<"queue2", j>>
    <3>1. PICK j \in 1 .. n - 1 : queue'[2][j].r = r /\ q = <<"queue2", j>>
      BY <1>3, <2>1
    <3>2. CASE j < i
      <4>1. <<"queue2", j>> \in Places(r)
        BY <1>3, <3>1, <3>2, InPlaces
      <4>2. mv(<<"queue2", j>>) = <<"queue2", j>>
        BY <1>3, <3>1, <3>2 DEF Removed
      <4> QED BY <3>1, <4>1, <4>2
    <3>3. CASE ~ (j < i)
      <4>1. <<"queue2", j + 1>> \in Places(r)
        BY <1>3, <3>1, <3>3, InPlaces
      <4>2. mv(<<"queue2", j + 1>>) = <<"queue2", j>>
        BY <1>3, <3>1, <3>3 DEF Removed
      <4> QED BY <3>1, <4>1, <4>2
    <3> QED BY <3>2, <3>3
  <2>2. CASE \E x \in sent' : x.r = r /\ q = <<"sent", x>>
    <3>1. PICK x \in sent' : x.r = r /\ q = <<"sent", x>>
      BY <2>2
    <3>2. CASE x \in sent
      <4>1. q \in Places(r)
        BY <3>1, <3>2, InPlaces
      <4>2. mv(q) = q
        BY <3>1 DEF Removed
      <4> QED BY <4>1, <4>2
    <3>3. CASE x = m
      <4>1. <<"queue2", i>> \in Places(r)
        BY <1>1, <3>1, <3>3, InPlaces
      <4>2. mv(<<"queue2", i>>) = q
        BY <3>1, <3>3 DEF Removed
      <4> QED BY <4>1, <4>2
    <3> QED BY <1>1, <3>1, <3>2, <3>3
  <2>3. CASE \/ \E j \in DOMAIN sockbuf : sockbuf[j] = r /\ q = <<"socket", j>>
             \/ \E j \in DOMAIN queue[1] : queue[1][j].r = r /\ q = <<"queue1", j>>
             \/ \E w \in Workers : wpc[w] = "send" /\ wreq[w].r = r /\ q = <<"worker", w>>
    <3>1. q \in Places(r)
      BY <2>3, InPlaces
    <3>2. mv(q) = q
      BY <2>3 DEF Removed
    <3> QED BY <3>1, <3>2
  <2>4. ~ Handling(r)'
    BY <1>2 DEF Handling
  <2> QED BY <1>2, <1>3, <1>6, <2>1, <2>2, <2>3, <2>4, InPlacesNext
<1>7. AtMostOnce' /\ NoReturn
  BY <1>2, <1>6, JourneyTypes DEF Journey, AtMostOnce, NoReturn
<1>8. Stay({})
  <2>1. SUFFICES ASSUME NEW r \in arrived, Places(r) # {} PROVE Places(r)' # {}
    BY DEF Stay
  <2>2. PICK p : p \in Places(r)
    BY <2>1
  <2>3. CASE \E j \in DOMAIN queue[2] : queue[2][j].r = r /\ p = <<"queue2", j>>
    <3>1. PICK j \in 1 .. n : queue[2][j].r = r
      BY <1>3, <2>3
    <3>2. CASE j = i
      <4>1. m \in sent' /\ m.r = r
        BY <1>1, <3>1, <3>2
      <4> QED BY <4>1, InPlacesNext
    <3>3. CASE j < i
      <4>1. j \in DOMAIN queue'[2] /\ queue'[2][j].r = r
        BY <1>3, <3>1, <3>3
      <4> QED BY <4>1, InPlacesNext
    <3>4. CASE j > i
      <4>1. j - 1 \in 1 .. n - 1 /\ ~ (j - 1 < i) /\ (j - 1) + 1 = j
        BY <1>3, <3>1, <3>4
      <4>2. j - 1 \in DOMAIN queue'[2] /\ queue'[2][j - 1].r = r
        BY <1>3, <3>1, <4>1
      <4> QED BY <4>2, InPlacesNext
    <3> QED BY <1>3, <3>1, <3>2, <3>3, <3>4
  <2>4. CASE ~ \E j \in DOMAIN queue[2] : queue[2][j].r = r /\ p = <<"queue2", j>>
    <3>1. \/ \E j \in DOMAIN sockbuf' : sockbuf'[j] = r /\ p = <<"socket", j>>
          \/ \E j \in DOMAIN queue'[1] : queue'[1][j].r = r /\ p = <<"queue1", j>>
          \/ \E w \in Workers : wpc'[w] = "send" /\ wreq'[w].r = r /\ p = <<"worker", w>>
          \/ \E x \in sent' : x.r = r /\ p = <<"sent", x>>
      <4>1. ~ Handling(r)
        BY <1>2 DEF Handling
      <4> QED BY <1>1, <1>2, <1>3, <2>2, <2>4, <4>1, InPlaces
    <3> QED BY <3>1, InPlacesNext
  <2> QED BY <2>3, <2>4
<1>9. NothingLost'
  BY <1>2, <1>8 DEF Stay, FirstServes, Serving, Journey, NothingLost
<1> QED BY <1>4, <1>5, <1>7, <1>8, <1>9

(* A worker's msgrcv: a request goes from qids[0] to the worker's buffer.  *)
LEMMA WorkerReceiveJourney ==
  ASSUME Journey, NEW w \in Workers, WorkerReceive(w)
  PROVE  Known' /\ Valid' /\ AtMostOnce' /\ NothingLost' /\ NoReturn
<1> USE DEF mainVars, kernelVars, workerVars, history
<1>1. PICK i \in DOMAIN queue[1] :
        /\ queue[1][i].type = 1
        /\ queue' = [queue EXCEPT ![1] = RemoveAt(@, i)]
        /\ wreq' = [wreq EXCEPT ![w] = [queue[1][i] EXCEPT !.body = "time"]]
  BY DEF WorkerReceive, Take, Matches
<1>2. /\ UNCHANGED <<running, state, mpc, req, sockbuf, qok, boots, arrived, sent, repeated,
                     dropped>>
      /\ wpc[w] = "recv" /\ wpc' = [wpc EXCEPT ![w] = "send"]
  BY DEF WorkerReceive
<1> DEFINE n == Len(queue[1])
           mv(p) == Removed("queue1", i, <<"worker", w>>, p)
<1>3. /\ DOMAIN queue[1] = 1 .. n /\ n \in Nat /\ DOMAIN queue'[1] = 1 .. n - 1
      /\ \A j \in 1 .. n - 1 : queue'[1][j] = queue[1][IF j < i THEN j ELSE j + 1]
      /\ queue'[2] = queue[2]
  BY <1>1, JourneyTypes, RemoveAtElements
<1>a. /\ wpc'[w] = "send"
      /\ wreq'[w].r = queue[1][i].r /\ wreq'[w].type = 1 /\ wreq'[w].body = "time"
      /\ \A v \in Workers \ {w} : wreq'[v] = wreq[v] /\ wpc'[v] = wpc[v]
  <2>1. queue[1][i] \in Msg
    BY JourneyTypes, TakenType DEF QueuedMsg
  <2> QED BY <1>1, <1>2, <2>1, JourneyTypes DEF Msg
<1>4. Known'
  <2>1. \A j \in DOMAIN queue'[1] : queue'[1][j].r \in arrived \cup {NoReq}
    BY <1>3 DEF Journey, Known
  <2>2. \A j \in DOMAIN queue'[2] : queue'[2][j].r \in arrived \cup {NoReq}
    BY <1>3 DEF Journey, Known
  <2>3. \A v \in Workers : wreq'[v].r \in arrived \cup {NoReq}
    BY <1>1, <1>a DEF Journey, Known
  <2> QED BY <1>2, <2>1, <2>2, <2>3 DEF Journey, Known
<1>5. Valid'
  BY <1>2, <1>a DEF Journey, Valid
<1>6. ASSUME NEW r \in Reqs, NEW q \in Places(r)'
      PROVE  \E p \in Places(r) : q = mv(p)
  <2>1. CASE \E j \in DOMAIN queue'[1] : queue'[1][j].r = r /\ q = <<"queue1", j>>
    <3>1. PICK j \in 1 .. n - 1 : queue'[1][j].r = r /\ q = <<"queue1", j>>
      BY <1>3, <2>1
    <3>2. CASE j < i
      <4>1. <<"queue1", j>> \in Places(r)
        BY <1>3, <3>1, <3>2, InPlaces
      <4>2. mv(<<"queue1", j>>) = <<"queue1", j>>
        BY <1>3, <3>1, <3>2 DEF Removed
      <4> QED BY <3>1, <4>1, <4>2
    <3>3. CASE ~ (j < i)
      <4>1. <<"queue1", j + 1>> \in Places(r)
        BY <1>3, <3>1, <3>3, InPlaces
      <4>2. mv(<<"queue1", j + 1>>) = <<"queue1", j>>
        BY <1>3, <3>1, <3>3 DEF Removed
      <4> QED BY <3>1, <4>1, <4>2
    <3> QED BY <3>2, <3>3
  <2>2. CASE \E v \in Workers : wpc'[v] = "send" /\ wreq'[v].r = r /\ q = <<"worker", v>>
    <3>1. PICK v \in Workers : wpc'[v] = "send" /\ wreq'[v].r = r /\ q = <<"worker", v>>
      BY <2>2
    <3>2. CASE v # w
      <4>1. q \in Places(r)
        BY <1>a, <3>1, <3>2, InPlaces
      <4>2. mv(q) = q
        BY <3>1 DEF Removed
      <4> QED BY <4>1, <4>2
    <3>3. CASE v = w
      <4>1. <<"queue1", i>> \in Places(r)
        BY <1>1, <1>a, <3>1, <3>3, InPlaces
      <4>2. mv(<<"queue1", i>>) = q
        BY <3>1, <3>3 DEF Removed
      <4> QED BY <4>1, <4>2
    <3> QED BY <3>2, <3>3
  <2>3. CASE \/ \E j \in DOMAIN sockbuf : sockbuf[j] = r /\ q = <<"socket", j>>
             \/ Handling(r) /\ q = MainPlace
             \/ \E j \in DOMAIN queue[2] : queue[2][j].r = r /\ q = <<"queue2", j>>
             \/ \E m \in sent : m.r = r /\ q = <<"sent", m>>
    <3>1. q \in Places(r)
      BY <2>3, InPlaces
    <3>2. mv(q) = q
      BY <2>3 DEF Removed, MainPlace
    <3> QED BY <3>1, <3>2
  <2>4. Handling(r)' <=> Handling(r)
    BY <1>2 DEF Handling
  <2> QED BY <1>2, <1>3, <1>6, <2>1, <2>2, <2>3, <2>4, InPlacesNext
<1>7. AtMostOnce' /\ NoReturn
  BY <1>2, <1>6, JourneyTypes DEF Journey, AtMostOnce, NoReturn
<1>8. NothingLost'
  <2>1. SUFFICES ASSUME FirstServes', NEW r \in arrived' \ dropped' PROVE Places(r)' # {}
    BY DEF FirstServes, NothingLost
  <2>2. PICK p : p \in Places(r)
    BY <1>2, <2>1 DEF FirstServes, Serving, Journey, NothingLost
  <2>3. CASE \E j \in DOMAIN queue[1] : queue[1][j].r = r /\ p = <<"queue1", j>>
    <3>1. PICK j \in 1 .. n : queue[1][j].r = r
      BY <1>3, <2>3
    <3>2. CASE j = i
      BY <1>a, <3>1, <3>2, InPlacesNext
    <3>3. CASE j < i
      <4>1. j \in DOMAIN queue'[1] /\ queue'[1][j].r = r
        BY <1>3, <3>1, <3>3
      <4> QED BY <4>1, InPlacesNext
    <3>4. CASE j > i
      <4>1. j - 1 \in 1 .. n - 1 /\ ~ (j - 1 < i) /\ (j - 1) + 1 = j
        BY <1>3, <3>1, <3>4
      <4>2. j - 1 \in DOMAIN queue'[1] /\ queue'[1][j - 1].r = r
        BY <1>3, <3>1, <4>1
      <4> QED BY <4>2, InPlacesNext
    <3> QED BY <1>3, <3>1, <3>2, <3>3, <3>4
  <2>4. CASE \E v \in Workers : wpc[v] = "send" /\ wreq[v].r = r /\ p = <<"worker", v>>
    <3>1. \E v \in Workers : wpc'[v] = "send" /\ wreq'[v].r = r /\ p = <<"worker", v>>
      BY <1>2, <1>a, <2>4
    <3> QED BY <3>1, InPlacesNext
  <2>5. CASE \/ \E j \in DOMAIN sockbuf : sockbuf[j] = r /\ p = <<"socket", j>>
             \/ Handling(r) /\ p = MainPlace
             \/ \E j \in DOMAIN queue[2] : queue[2][j].r = r /\ p = <<"queue2", j>>
             \/ \E m \in sent : m.r = r /\ p = <<"sent", m>>
    <3>1. Handling(r)' <=> Handling(r)
      BY <1>2 DEF Handling
    <3> QED BY <1>2, <1>3, <2>5, <3>1, InPlacesNext
  <2> QED BY <2>2, <2>3, <2>4, <2>5, InPlaces
<1> QED BY <1>4, <1>5, <1>7, <1>8

(* The msgsnd of the main thread: the request goes from req to qids[0], or *)
(* is lost - counted as dropped when the queue is full.                    *)
LEMMA ResponseHandlerJourney ==
  ASSUME Journey, ResponseHandler
  PROVE  Known' /\ Valid' /\ AtMostOnce' /\ NothingLost' /\ NoReturn
<1> USE DEF mainVars, kernelVars, workerVars, history
<1>1. /\ UNCHANGED <<running, sockbuf, qok, wpc, wreq, boots, arrived, sent, repeated>>
      /\ mpc = "body" /\ mpc' = "loop" /\ dropped \subseteq dropped'
      /\ state = "STATE_RESPONSE_HANDLER" /\ state' = "STATE_RECV"
  BY DEF ResponseHandler
<1>2. req' \in QueuedMsg /\ req'.r = req.r
  BY JourneyTypes DEF ResponseHandler, Msg, QueuedMsg
<1>3. Valid'
  BY <1>1 DEF Journey, Valid
<1>4. CASE UNCHANGED queue
  <2>1. Known' /\ AtMostOnce' /\ NoReturn
    BY <1>1, <1>2, <1>4, NoNewCopy
  <2>2. NothingLost'
    <3>1. SUFFICES ASSUME FirstServes' PROVE \A r \in arrived' \ dropped' : Places(r)' # {}
      BY DEF FirstServes, NothingLost
    <3>2. FirstServes
      BY <1>1, <3>1 DEF FirstServes, Serving
    <3>3. queue'[1] # Append(queue[1], req')
      <4>1. Len(Append(queue[1], req')) = Len(queue[1]) + 1
        BY <1>2, JourneyTypes, AppendProperties
      <4> QED BY <1>4, <4>1, JourneyTypes
    <3>4. ~ Put(1, req')
      BY <3>3, JourneyTypes DEF Put
    <3>5. req.r \in Reqs => req.r \in dropped'
      BY <3>2, <3>4 DEF ResponseHandler, FirstServes
    <3> QED BY <1>1, <1>4, <3>2, <3>5, NoCopyGone
  <2> QED BY <1>3, <2>1, <2>2
<1>5. CASE Put(1, req')
  <2> DEFINE n == Len(queue[1]) + 1
             mv(p) == Moved(MainPlace, <<"queue1", n>>, p)
  <2>1. /\ DOMAIN queue[1] = 1 .. n - 1 /\ n \in Nat /\ DOMAIN queue'[1] = 1 .. n
        /\ \A j \in 1 .. n - 1 : queue'[1][j] = queue[1][j]
        /\ queue'[1][n] = req' /\ queue'[2] = queue[2]
    <3>1. queue'[1] = Append(queue[1], req') /\ queue'[2] = queue[2]
      BY <1>5, JourneyTypes DEF Put
    <3> QED BY <1>2, <3>1, JourneyTypes, AppendElements
  <2>2. Known'
    <3>1. \A k \in 1 .. 2 : \A j \in DOMAIN queue'[k] : queue'[k][j].r \in arrived \cup {NoReq}
      <4>1. \A j \in DOMAIN queue'[1] : queue'[1][j].r \in arrived \cup {NoReq}
        BY <1>2, <2>1 DEF Journey, Known
      <4>2. \A j \in DOMAIN queue'[2] : queue'[2][j].r \in arrived \cup {NoReq}
        BY <2>1 DEF Journey, Known
      <4> QED BY <4>1, <4>2
    <3> QED BY <1>1, <1>2, <3>1 DEF Journey, Known
  <2>3. ASSUME NEW r \in Reqs, NEW q \in Places(r)'
        PROVE  \E p \in Places(r) : q = mv(p)
    <3>1. CASE \E j \in DOMAIN queue'[1] : queue'[1][j].r = r /\ q = <<"queue1", j>>
      <4>1. PICK j \in 1 .. n : queue'[1][j].r = r /\ q = <<"queue1", j>>
        BY <2>1, <3>1
      <4>2. CASE j = n
        <5>1. MainPlace \in Places(r)
          BY <1>1, <1>2, <2>1, <4>1, <4>2, InPlaces DEF Handling
        <5> QED BY <4>1, <4>2, <5>1 DEF Moved
      <4>3. CASE j # n
        <5>1. q \in Places(r)
          BY <2>1, <4>1, <4>3, InPlaces
        <5> QED BY <4>1, <5>1 DEF Moved, MainPlace
      <4> QED BY <4>2, <4>3
    <3>2. CASE \/ \E j \in DOMAIN sockbuf : sockbuf[j] = r /\ q = <<"socket", j>>
               \/ \E w \in Workers : wpc[w] = "send" /\ wreq[w].r = r /\ q = <<"worker", w>>
               \/ \E j \in DOMAIN queue[2] : queue[2][j].r = r /\ q = <<"queue2", j>>
               \/ \E m \in sent : m.r = r /\ q = <<"sent", m>>
      <4>1. q \in Places(r)
        BY <3>2, InPlaces
      <4>2. mv(q) = q
        BY <3>2 DEF Moved, MainPlace
      <4> QED BY <4>1, <4>2
    <3>3. ~ Handling(r)'
      BY <1>1 DEF Handling
    <3> QED BY <1>1, <2>1, <2>3, <3>1, <3>2, <3>3, InPlacesNext
  <2>4. AtMostOnce' /\ NoReturn
    BY <1>1, <2>3, JourneyTypes DEF Journey, AtMostOnce, NoReturn
  <2>5. NothingLost'
    <3>1. SUFFICES ASSUME FirstServes', NEW r \in arrived' \ dropped' PROVE Places(r)' # {}
      BY DEF FirstServes, NothingLost
    <3>2. PICK p : p \in Places(r)
      BY <1>1, <3>1 DEF FirstServes, Serving, Journey, NothingLost
    <3>3. CASE \E j \in DOMAIN queue[1] : queue[1][j].r = r /\ p = <<"queue1", j>>
      <4>1. \E j \in DOMAIN queue'[1] : queue'[1][j].r = r /\ p = <<"queue1", j>>
        BY <2>1, <3>3
      <4> QED BY <4>1, InPlacesNext
    <3>4. CASE Handling(r)
      <4>1. n \in DOMAIN queue'[1] /\ queue'[1][n].r = r
        BY <1>2, <2>1, <3>4 DEF Handling
      <4> QED BY <4>1, InPlacesNext
    <3>5. CASE \/ \E j \in DOMAIN sockbuf : sockbuf[j] = r /\ p = <<"socket", j>>
               \/ \E w \in Workers : wpc[w] = "send" /\ wreq[w].r = r /\ p = <<"worker", w>>
               \/ \E j \in DOMAIN queue[2] : queue[2][j].r = r /\ p = <<"queue2", j>>
               \/ \E m \in sent : m.r = r /\ p = <<"sent", m>>
      BY <1>1, <2>1, <3>5, InPlacesNext
    <3> QED BY <3>2, <3>3, <3>4, <3>5, InPlaces
  <2> QED BY <1>3, <2>2, <2>4, <2>5
<1> QED BY <1>4, <1>5 DEF ResponseHandler

(* A worker's msgsnd: the reply goes from its buffer to qids[1].           *)
LEMMA WorkerSendJourney ==
  ASSUME Journey, NEW w \in Workers, WorkerSend(w)
  PROVE  Known' /\ Valid' /\ AtMostOnce' /\ NothingLost' /\ NoReturn
<1> USE DEF mainVars, kernelVars, workerVars, history
<1>1. /\ UNCHANGED <<running, state, mpc, req, sockbuf, qok, wreq, boots, arrived, sent,
                     repeated, dropped>>
      /\ wpc[w] = "send" /\ wpc'[w] = "test"
      /\ \A v \in Workers \ {w} : wpc'[v] = wpc[v]
  BY JourneyTypes DEF WorkerSend
<1>2. \A r : Handling(r)' <=> Handling(r)
  BY <1>1 DEF Handling
<1>3. Valid'
  BY <1>1 DEF Journey, Valid
<1>4. CASE (~ qok[2] \/ wreq[w].type < 1) /\ UNCHANGED queue
  <2>1. \A v \in Workers : wpc'[v] = "send"
            => wpc[v] = "send" /\ wreq'[v].r = wreq[v].r
    BY <1>1
  <2>2. Known' /\ AtMostOnce' /\ NoReturn
    BY <1>1, <1>4, <2>1, NoNewCopy
  <2>3. NothingLost'
    <3>1. SUFFICES ASSUME FirstServes' PROVE \A r \in arrived' \ dropped' : Places(r)' # {}
      BY DEF FirstServes, NothingLost
    <3>2. FirstServes /\ mpc' \in {"loop", "body"}
      BY <1>1, <3>1 DEF FirstServes, Serving
    <3>3. wreq[w].r \notin Reqs
      <4>1. wreq[w].type \in 0 .. 2
        BY JourneyTypes DEF Msg
      <4> QED BY <1>4, <3>2, <4>1 DEF FirstServes, Journey, Valid
    <3>4. \A v \in Workers : wpc[v] = "send"
            => (wpc'[v] = "send" /\ wreq'[v].r = wreq[v].r) \/ wreq[v].r \notin Reqs
      BY <1>1, <3>3
    <3> QED BY <1>1, <1>4, <3>2, <3>4, NoCopyGone
  <2> QED BY <1>3, <2>2, <2>3
<1>5. CASE wreq[w].type >= 1 /\ Put(2, wreq[w])
  <2> DEFINE n == Len(queue[2]) + 1
             mv(p) == Moved(<<"worker", w>>, <<"queue2", n>>, p)
  <2>1. /\ DOMAIN queue[2] = 1 .. n - 1 /\ n \in Nat /\ DOMAIN queue'[2] = 1 .. n
        /\ \A j \in 1 .. n - 1 : queue'[2][j] = queue[2][j]
        /\ queue'[2][n] = wreq[w] /\ queue'[1] = queue[1]
    <3>1. queue'[2] = Append(queue[2], wreq[w]) /\ queue'[1] = queue[1]
      BY <1>5, JourneyTypes DEF Put
    <3>2. wreq[w] \in QueuedMsg
      BY <1>5, JourneyTypes DEF QueuedMsg
    <3> QED BY <3>1, <3>2, JourneyTypes, AppendElements
  <2>2. Known'
    <3>1. \A k \in 1 .. 2 : \A j \in DOMAIN queue'[k] : queue'[k][j].r \in arrived \cup {NoReq}
      <4>1. \A j \in DOMAIN queue'[2] : queue'[2][j].r \in arrived \cup {NoReq}
        BY <2>1 DEF Journey, Known
      <4>2. \A j \in DOMAIN queue'[1] : queue'[1][j].r \in arrived \cup {NoReq}
        BY <2>1 DEF Journey, Known
      <4> QED BY <4>1, <4>2
    <3> QED BY <1>1, <3>1 DEF Journey, Known
  <2>3. ASSUME NEW r \in Reqs, NEW q \in Places(r)'
        PROVE  \E p \in Places(r) : q = mv(p)
    <3>1. CASE \E j \in DOMAIN queue'[2] : queue'[2][j].r = r /\ q = <<"queue2", j>>
      <4>1. PICK j \in 1 .. n : queue'[2][j].r = r /\ q = <<"queue2", j>>
        BY <2>1, <3>1
      <4>2. CASE j = n
        <5>1. <<"worker", w>> \in Places(r)
          BY <1>1, <2>1, <4>1, <4>2, InPlaces
        <5> QED BY <4>1, <4>2, <5>1 DEF Moved
      <4>3. CASE j # n
        <5>1. q \in Places(r)
          BY <2>1, <4>1, <4>3, InPlaces
        <5> QED BY <4>1, <5>1 DEF Moved
      <4> QED BY <4>2, <4>3
    <3>2. CASE \E v \in Workers : wpc'[v] = "send" /\ wreq'[v].r = r /\ q = <<"worker", v>>
      <4>1. PICK v \in Workers \ {w} : wpc[v] = "send" /\ wreq[v].r = r /\ q = <<"worker", v>>
        BY <1>1, <3>2
      <4>2. q \in Places(r)
        BY <4>1, InPlaces
      <4> QED BY <4>1, <4>2 DEF Moved
    <3>3. CASE \/ \E j \in DOMAIN sockbuf : sockbuf[j] = r /\ q = <<"socket", j>>
               \/ Handling(r) /\ q = MainPlace
               \/ \E j \in DOMAIN queue[1] : queue[1][j].r = r /\ q = <<"queue1", j>>
               \/ \E m \in sent : m.r = r /\ q = <<"sent", m>>
      <4>1. q \in Places(r)
        BY <3>3, InPlaces
      <4>2. mv(q) = q
        BY <3>3 DEF Moved, MainPlace
      <4> QED BY <4>1, <4>2
    <3> QED BY <1>1, <1>2, <2>1, <2>3, <3>1, <3>2, <3>3, InPlacesNext
  <2>4. AtMostOnce' /\ NoReturn
    BY <1>1, <2>3, JourneyTypes DEF Journey, AtMostOnce, NoReturn
  <2>5. NothingLost'
    <3>1. SUFFICES ASSUME FirstServes', NEW r \in arrived' \ dropped' PROVE Places(r)' # {}
      BY DEF FirstServes, NothingLost
    <3>2. PICK p : p \in Places(r)
      BY <1>1, <3>1 DEF FirstServes, Serving, Journey, NothingLost
    <3>3. CASE \E j \in DOMAIN queue[2] : queue[2][j].r = r /\ p = <<"queue2", j>>
      <4>1. \E j \in DOMAIN queue'[2] : queue'[2][j].r = r /\ p = <<"queue2", j>>
        BY <2>1, <3>3
      <4> QED BY <4>1, InPlacesNext
    <3>4. CASE \E v \in Workers : wpc[v] = "send" /\ wreq[v].r = r /\ p = <<"worker", v>>
      <4>1. PICK v \in Workers : wpc[v] = "send" /\ wreq[v].r = r
        BY <3>4
      <4>2. CASE v = w
        <5>1. n \in DOMAIN queue'[2] /\ queue'[2][n].r = r
          BY <2>1, <4>1, <4>2
        <5> QED BY <5>1, InPlacesNext
      <4>3. CASE v # w
        <5>1. wpc'[v] = "send" /\ wreq'[v].r = r
          BY <1>1, <4>1, <4>3
        <5>2. <<"worker", v>> \in Places(r)'
          BY <5>1, InPlacesNext
        <5> QED BY <5>2
      <4> QED BY <4>2, <4>3
    <3>5. CASE \/ \E j \in DOMAIN sockbuf : sockbuf[j] = r /\ p = <<"socket", j>>
               \/ Handling(r) /\ p = MainPlace
               \/ \E j \in DOMAIN queue[1] : queue[1][j].r = r /\ p = <<"queue1", j>>
               \/ \E m \in sent : m.r = r /\ p = <<"sent", m>>
      BY <1>1, <1>2, <2>1, <3>5, InPlacesNext
    <3> QED BY <3>2, <3>3, <3>4, <3>5, InPlaces
  <2> QED BY <1>3, <2>2, <2>4, <2>5
<1> QED BY <1>4, <1>5 DEF WorkerSend

(* Before the first start no request is anywhere.                          *)
LEMMA InitJourney == Init => Journey
<1> SUFFICES ASSUME Init PROVE Journey
  OBVIOUS
<1>1. IInv
  BY InitIInv
<1>2. Known /\ Valid
  BY ZeroedOwn, UdpAssumption DEF Init, Known, Valid
<1>3. \A r \in Reqs : \A p : p \notin Places(r)
  BY InPlaces DEF Init, Handling
<1>4. AtMostOnce /\ NothingLost
  BY <1>3 DEF AtMostOnce, NothingLost, FirstServes, Init
<1> QED BY <1>1, <1>2, <1>4 DEF Journey

(* Every step keeps it.                                                    *)
LEMMA NextJourney == Journey /\ [Next]_vars => Journey' /\ NoReturn
<1> SUFFICES ASSUME Journey, [Next]_vars PROVE Journey' /\ NoReturn
  OBVIOUS
<1>1. IInv'
  BY NextIInv DEF Journey
<1>2. Known' /\ Valid' /\ AtMostOnce' /\ NothingLost' /\ NoReturn
  <2>1. CASE UNCHANGED vars
    <3>1. Known' /\ Valid' /\ AtMostOnce' /\ NothingLost'
      BY <2>1 DEF vars, mainVars, kernelVars, workerVars, history, Journey, Known, Valid,
         AtMostOnce, NothingLost, FirstServes, Places, Serving
    <3>2. \A r : Places(r)' = Places(r)
      BY <2>1 DEF vars, mainVars, kernelVars, workerVars, history, Places
    <3> QED BY <3>1, <3>2 DEF NoReturn
  <2>2. CASE Main
    BY <2>2, QuietJourney, ReceiveJourney, SendReplyJourney, SendStaleJourney,
       ResponseHandlerJourney DEF Main
  <2>3. ASSUME NEW w \in Workers, Worker(w)
        PROVE  Known' /\ Valid' /\ AtMostOnce' /\ NothingLost' /\ NoReturn
    BY <2>3, QuietJourney, WorkerReceiveJourney, ReuseJourney, WorkerSendJourney DEF Worker
  <2>4. CASE Environment
    BY <2>4, QuietJourney, ArriveJourney, ArriveOtherJourney, ReuseJourney
       DEF Environment
  <2> QED BY <2>1, <2>2, <2>3, <2>4 DEF Next
<1> QED BY <1>1, <1>2 DEF Journey

(* The journey of every request, in every reachable state.                 *)
THEOREM JourneyInvariance == Spec => []Journey
BY InitJourney, NextJourney, PTL DEF Spec

(* No request is answered, or on its way to being answered, twice, through *)
(* any number of threads, queue slots, crashes and restarts, unless a      *)
(* failed msgrcv made a thread send its old buffer again.                  *)
THEOREM AnsweredOnce == Spec => []AtMostOnce
<1>1. Journey => AtMostOnce
  BY DEF Journey
<1> QED BY <1>1, JourneyInvariance, PTL

(* While the first process serves with both queues, a request that arrived *)
(* is somewhere on its way or answered, unless qids[0] was full for it.    *)
THEOREM LostOnlyWhenFull == Spec => []NothingLost
<1>1. Journey => NothingLost
  BY DEF Journey
<1> QED BY <1>1, JourneyInvariance, PTL

-----------------------------------------------------------------------------
(* The server implements ReplyService.                                     *)

(* A refused request is nowhere.                                           *)
Refused == dropped \subseteq arrived /\ \A r \in dropped \ repeated : Places(r) = {}

(* What the refinement needs of a state.                                   *)
Course == Journey /\ Refused

(* The histories only grow, and dropped in one step only.                  *)
LEMMA HistoriesGrow ==
  ASSUME [Next]_vars
  PROVE  /\ arrived \subseteq arrived' /\ sent \subseteq sent' /\ repeated \subseteq repeated'
         /\ dropped' = dropped \/ (ResponseHandler /\ dropped' = dropped \cup ({req.r} \cap Reqs))
<1> USE DEF mainVars, kernelVars, workerVars, history
<1>1. CASE UNCHANGED vars
  BY <1>1 DEF vars
<1>2. CASE Main
  BY <1>2 DEF Main, Spawn, Open, Loop, Receive, Timeout, SendReply, EmptyQueue, SendStale,
     ResponseHandler, Join, RemoveQueues
<1>3. CASE \E w \in Workers : Worker(w)
  BY <1>3 DEF Worker, WorkerTest, WorkerReceive, WorkerReceiveError, WorkerSend, ReuseBuffer
<1>4. CASE Environment
  BY <1>4 DEF Environment, Boot, Signal, InterruptMain, Crash, Arrive, ArriveOther,
     InterruptReceive, InterruptSend, ReuseBuffer
<1> QED BY <1>1, <1>2, <1>3, <1>4 DEF Next

(* The msgsnd that refuses a request leaves it nowhere, all others where   *)
(* they are.                                                               *)
LEMMA RefusalStep ==
  ASSUME Journey, ResponseHandler, dropped' # dropped
  PROVE  /\ UNCHANGED <<arrived, sent, repeated>> /\ dropped' = dropped \cup {req.r}
         /\ req.r \in arrived /\ Handling(req.r) /\ Stay({req.r})
         /\ \A r \in Reqs \ repeated : r = req.r => Places(r)' = {}
<1>1. /\ UNCHANGED <<arrived, sent, repeated, sockbuf, queue, wpc, wreq>>
      /\ state = "STATE_RESPONSE_HANDLER" /\ state' = "STATE_RECV" /\ mpc = "body"
      /\ dropped' = dropped \cup ({req.r} \cap Reqs)
  BY DEF ResponseHandler, workerVars
<1>2. req.r \in Reqs /\ dropped' = dropped \cup {req.r}
  BY <1>1
<1>3. req.r \in arrived /\ Handling(req.r)
  BY <1>1, <1>2, UdpAssumption DEF Journey, Known, Handling
<1>4. \A r : ~ Handling(r)' /\ (r # req.r => ~ Handling(r))
  BY <1>1 DEF Handling
<1>5. Stay({req.r})
  BY <1>1, <1>4, CopiesStay
<1>6. ASSUME NEW r \in Reqs \ repeated, r = req.r, NEW p \in Places(r)' PROVE FALSE
  <2>1. \/ \E j \in DOMAIN sockbuf : sockbuf[j] = r /\ p = <<"socket", j>>
        \/ \E j \in DOMAIN queue[1] : queue[1][j].r = r /\ p = <<"queue1", j>>
        \/ \E w \in Workers : wpc[w] = "send" /\ wreq[w].r = r /\ p = <<"worker", w>>
        \/ \E j \in DOMAIN queue[2] : queue[2][j].r = r /\ p = <<"queue2", j>>
        \/ \E m \in sent : m.r = r /\ p = <<"sent", m>>
    BY <1>1, <1>4, <1>6, InPlacesNext
  <2>2. p # MainPlace
    BY <2>1 DEF MainPlace
  <2>3. p \in Places(r) /\ MainPlace \in Places(r)
    BY <1>3, <1>6, <2>1, InPlaces
  <2> QED BY <1>6, <2>2, <2>3 DEF Journey, AtMostOnce
<1> QED BY <1>1, <1>2, <1>3, <1>5, <1>6

LEMMA InitRefused == Init => Refused
BY DEF Init, Refused

LEMMA NextRefused == ASSUME Course, [Next]_vars PROVE Refused'
<1>1. NoReturn
  BY NextJourney DEF Course
<1>2. CASE dropped' = dropped
  BY <1>1, <1>2, HistoriesGrow DEF Course, Refused, NoReturn
<1>3. CASE dropped' # dropped
  <2>1. ResponseHandler
    BY <1>3, HistoriesGrow
  <2>2. /\ UNCHANGED <<arrived, repeated>> /\ dropped' = dropped \cup {req.r}
        /\ req.r \in arrived /\ \A r \in Reqs \ repeated : r = req.r => Places(r)' = {}
    BY <1>3, <2>1, RefusalStep DEF Course
  <2> QED BY <1>1, <2>2, JourneyTypes DEF Course, Refused, NoReturn
<1> QED BY <1>2, <1>3

(* In every reachable state.                                               *)
LEMMA CourseInvariance == Spec => []Course
<1>1. Init => Course
  BY InitJourney, InitRefused DEF Course
<1>2. Course /\ [Next]_vars => Course'
  BY NextJourney, NextRefused DEF Course
<1> QED BY <1>1, <1>2, PTL DEF Spec

(* What Fate says of a request that counts as repeated, has not arrived,   *)
(* or neither: its copies are all on the wire or none is.                  *)
Told(r) ==
  IF r \in repeated THEN "repeated"
  ELSE IF r \notin arrived THEN "new"
  ELSE IF \E m \in sent : m.r = r THEN "answered"
  ELSE IF Places(r) # {} THEN "pending"
  ELSE IF r \in dropped THEN "refused" ELSE "lost"

FatesTold == \A r \in Reqs : Fate(r) = Told(r)

LEMMA FateIsTold == Journey => FatesTold
<1> SUFFICES ASSUME Journey, NEW r \in Reqs PROVE Fate(r) = Told(r)
  BY DEF FatesTold
<1> DEFINE Off == \E p \in Places(r) : p[1] # "sent"
           Out == \E m \in sent : m.r = r
<1>1. Off \/ Out <=> Places(r) # {}
  <2>1. ASSUME NEW p \in Places(r), p[1] = "sent" PROVE Out
    BY <2>1, InPlaces DEF MainPlace
  <2>2. Out => Places(r) # {}
    BY InPlaces
  <2> QED BY <2>1, <2>2
<1>2. ASSUME r \notin repeated PROVE ~ (Off /\ Out)
  <2> SUFFICES ASSUME NEW p \in Places(r), p[1] # "sent", NEW m \in sent, m.r = r
               PROVE  FALSE
    OBVIOUS
  <2>1. <<"sent", m>> \in Places(r)
    BY InPlaces
  <2>2. p = <<"sent", m>>
    BY <1>2, <2>1 DEF Journey, AtMostOnce
  <2> QED BY <2>2
<1> QED BY <1>1, <1>2 DEF Fate, Told

(* A request whose histories a step leaves alone keeps its fate, or is on  *)
(* its way and lost.                                                       *)
LEMMA SameFate ==
  ASSUME Course, Course', NoReturn, NEW r \in Reqs,
         r \in arrived' <=> r \in arrived, r \in repeated' <=> r \in repeated,
         r \in dropped' <=> r \in dropped,
         (\E m \in sent' : m.r = r) <=> (\E m \in sent : m.r = r)
  PROVE  /\ Fate(r)' = Fate(r) \/ (Fate(r) = "pending" /\ Fate(r)' = "lost")
         /\ (r \in arrived /\ Places(r) # {} => Places(r)' # {}) => Fate(r)' = Fate(r)
<1>1. Fate(r) = Told(r)
  BY FateIsTold DEF Course, FatesTold
<1>2. Fate(r)' = Told(r)'
  <2>1. FatesTold'
    BY FateIsTold, PTL DEF Course
  <2> QED BY <2>1 DEF FatesTold
<1>3. r \in arrived \ repeated /\ r \in dropped => Places(r) = {}
  BY DEF Course, Refused
<1> QED BY <1>1, <1>2, <1>3 DEF Told, NoReturn

LEMMA FatesAre ==
  /\ Fates = [r \in Reqs |-> Fate(r)] /\ \A r \in Reqs : Fates[r] = Fate(r)
  /\ Fates' = [r \in Reqs |-> Fate(r)']
BY DEF Fates

LEMMA OneFateMoves ==
  ASSUME NEW x \in Reqs, \A r \in Reqs \ {x} : Fate(r)' = Fate(r)
  PROVE  Fates' = [Fates EXCEPT ![x] = Fate(x)']
BY FatesAre

LEMMA NoFateMoves ==
  ASSUME \A r \in Reqs : Fate(r)' = Fate(r)
  PROVE  Fates' = Fates
BY FatesAre

(* Mode never goes back.                                                   *)
LEMMA ModeStep ==
  ASSUME Course, [Next]_vars
  PROVE  Mode' = Mode \/ Mode = "starting" \/ Mode' = "failing"
<1> USE DEF mainVars, kernelVars, workerVars, history
<1>1. CASE Boot
  <2>1. boots \in Nat
    BY UdpAssumption DEF Course, Journey, IInv, TypeOK
  <2> QED BY <1>1, <2>1 DEF Boot, Mode, FirstServes
<1>2. ASSUME UNCHANGED <<boots, qok>>,
             mpc' \in {"spawn", "open"} => mpc \in {"spawn", "open"},
             mpc \notin {"spawn", "open"} /\ Serving' => Serving
      PROVE  Mode' = Mode \/ Mode = "starting" \/ Mode' = "failing"
  BY <1>2 DEF Mode, FirstServes
<1>3. CASE UNCHANGED vars
  BY <1>2, <1>3 DEF vars, Serving
<1>4. CASE Main
  BY <1>2, <1>4 DEF Main, Spawn, Open, Loop, Receive, Timeout, SendReply, EmptyQueue, SendStale,
     ResponseHandler, Join, RemoveQueues, Serving
<1>5. CASE \E w \in Workers : Worker(w)
  BY <1>2, <1>5 DEF Worker, WorkerTest, WorkerReceive, WorkerReceiveError, WorkerSend, Serving
<1>6. CASE Environment
  BY <1>1, <1>2, <1>6 DEF Environment, Signal, InterruptMain, Crash, Arrive, ArriveOther,
     InterruptReceive, InterruptSend, Serving
<1> QED BY <1>3, <1>4, <1>5, <1>6 DEF Next

(* A server that some request has reached and that does not serve fails.   *)
LEMMA Fails ==
  ASSUME Course', NEW r \in arrived', ~ FirstServes'
  PROVE  Mode' = "failing"
BY DEF Course, Journey, Valid, Mode

LEMMA LossFails ==
  ASSUME Course', NEW r \in Reqs, Fate(r)' = "lost"
  PROVE  Mode' = "failing"
<1>1. FatesTold'
  BY FateIsTold, PTL DEF Course
<1>2. Told(r)' = "lost"
  BY <1>1 DEF FatesTold
<1>3. r \in arrived' /\ r \notin dropped' /\ Places(r)' = {}
  BY <1>2 DEF Told
<1>4. ~ FirstServes'
  BY <1>3 DEF Course, Journey, NothingLost
<1> QED BY <1>3, <1>4, Fails

(* Most steps move copies about, or lose them.                             *)
LEMMA LoseOrNothing ==
  ASSUME Course, Course', [Next]_vars, UNCHANGED <<arrived, repeated, dropped, sent>>
  PROVE  Service!Next
<1>1. NoReturn
  BY NextJourney DEF Course
<1>2. \A r \in Reqs : Fate(r)' = Fate(r) \/ (Fate(r) = "pending" /\ Fate(r)' = "lost")
  BY <1>1, SameFate
<1>3. Answers' = Answers
  BY DEF Answers
<1> DEFINE S == {r \in Reqs : Fate(r)' # Fate(r)}
<1>4. CASE S = {}
  <2>1. Fates' = Fates
    BY <1>4, NoFateMoves
  <2> QED BY <1>3, <2>1, ModeStep DEF Service!Next
<1>5. CASE S # {}
  <2>1. Mode' = "failing"
    BY <1>2, <1>5, LossFails
  <2>2. Fates' = [r \in Reqs |-> IF r \in S THEN "lost" ELSE Fates[r]]
    BY <1>2, FatesAre
  <2>3. \A r \in S : Fates[r] = "pending"
    BY <1>2, FatesAre
  <2>4. Service!Lose(S) /\ S \in SUBSET Reqs
    BY <1>3, <2>1, <2>2, <2>3 DEF Service!Lose
  <2> QED BY <2>1, <2>4 DEF Service!Next
<1> QED BY <1>4, <1>5

LEMMA ArriveService ==
  ASSUME Course, Course', [Next]_vars, NEW x \in Reqs, Arrive(x)
  PROVE  Service!Next
<1>1. NoReturn
  BY NextJourney DEF Course
<1>2. /\ UNCHANGED <<boots, sent, repeated, dropped>> /\ mpc \in {"loop", "body"}
      /\ x \notin arrived /\ arrived' = arrived \cup {x}
  BY DEF Arrive
<1>3. Stay({}) /\ Places(x)' # {}
  BY ArriveJourney DEF Course
<1>4. \A r \in Reqs \ {x} : Fate(r)' = Fate(r)
  BY <1>1, <1>2, <1>3, SameFate DEF Stay
<1>5. Fates' = [Fates EXCEPT ![x] = Fate(x)'] /\ Answers' = Answers
  <2>1. Answers' = Answers
    BY <1>2 DEF Answers
  <2> QED BY <1>4, <2>1, OneFateMoves
<1>6. FatesTold /\ FatesTold'
  BY FateIsTold, PTL DEF Course
<1>7. CASE x \in repeated
  <2>1. Fate(x)' = "repeated" /\ Fate(x) = "repeated"
    BY <1>2, <1>7 DEF Fate
  <2>2. Fates' = Fates
    BY <1>4, <2>1, NoFateMoves
  <2> QED BY <1>5, <2>2, ModeStep DEF Service!Next
<1>8. CASE x \notin repeated
  <2>1. ~ \E m \in sent : m.r = x
    BY <1>2, UdpAssumption DEF Course, Journey, Known
  <2>2. Fate(x) = "new" /\ Fate(x)' = "pending"
    BY <1>2, <1>3, <1>6, <1>8, <2>1 DEF FatesTold, Told
  <2>3. Mode # "starting"
    BY <1>2 DEF Mode, Course, Journey, Valid
  <2>4. Service!Arrive(x)
    BY <1>5, <2>2, <2>3, FatesAre DEF Service!Arrive, Service!Settle
  <2> QED BY <2>4, ModeStep DEF Service!Next
<1> QED BY <1>7, <1>8

LEMMA SendReplyService ==
  ASSUME Course, Course', [Next]_vars, SendReply
  PROVE  Service!Next
<1>1. NoReturn
  BY NextJourney DEF Course
<1>2. PICK i \in DOMAIN queue[2] : sent' = sent \cup {queue[2][i]}
  BY DEF SendReply
<1>3. UNCHANGED <<arrived, repeated, dropped>>
  BY DEF SendReply
<1>4. Stay({})
  BY SendReplyJourney DEF Course
<1> DEFINE m == queue[2][i]
<1>5. m \in Own
  <2>1. queue[2] \in Seq(OwnTime)
    BY DEF Course, Journey, IInv
  <2> QED BY <2>1, TakenType, Buffers
<1>6. \A r \in Reqs : r # m.r => Fate(r)' = Fate(r)
  BY <1>1, <1>2, <1>3, <1>4, SameFate DEF Stay
<1>7. CASE m.r \notin Reqs
  <2>1. Answers' = Answers
    BY <1>2, <1>7 DEF Answers
  <2>2. Fates' = Fates
    BY <1>6, <1>7, NoFateMoves
  <2> QED BY <2>1, <2>2, ModeStep DEF Service!Next
<1>8. CASE m.r \in Reqs
  <2>1. PICK x \in Reqs : x = m.r
    BY <1>8
  <2>2. x \in arrived
    BY <1>2, <2>1, UdpAssumption DEF Course, Journey, Known
  <2>3. Fates' = [Fates EXCEPT ![x] = Fate(x)']
    BY <1>6, <2>1, OneFateMoves
  <2>4. Answers' = Answers \cup {<<x, m.addr>>} /\ m.addr \in {Source[x], NoAddr}
    BY <1>2, <1>5, <2>1 DEF Answers, Own
  <2>5. CASE x \in repeated
    <3>1. Fate(x) = "repeated" /\ Fate(x)' = "repeated"
      BY <1>3, <2>5 DEF Fate
    <3>2. Answers' = Answers \cup {<<x, m.addr>>}
          /\ {<<x, m.addr>>} \in SUBSET Service!Replies(x)
      BY <2>4 DEF Service!Replies
    <3>3. Service!Repeat(x)
      BY <2>3, <3>1, <3>2, FatesAre DEF Service!Repeat
    <3> QED BY <3>3, ModeStep DEF Service!Next
  <2>6. CASE x \notin repeated
    <3>1. FatesTold /\ FatesTold'
      BY FateIsTold, PTL DEF Course
    <3>2. <<"queue2", i>> \in Places(x)
      BY <2>1, InPlaces
    <3>3. ~ \E n \in sent : n.r = x
      <4>1. SUFFICES ASSUME NEW n \in sent, n.r = x PROVE FALSE
        OBVIOUS
      <4>2. <<"sent", n>> \in Places(x)
        BY <4>1, InPlaces
      <4> QED BY <2>6, <3>2, <4>2 DEF Course, Journey, AtMostOnce
    <3>4. \E n \in sent' : n.r = x
      BY <1>2, <2>1
    <3>5. Fate(x) = "pending" /\ Fate(x)' = "answered"
      BY <1>3, <2>2, <2>6, <3>1, <3>2, <3>3, <3>4 DEF FatesTold, Told
    <3>6. Service!Answer(x)
      BY <2>3, <2>4, <3>5, FatesAre DEF Service!Answer, Service!Settle, Service!Replies
    <3> QED BY <3>6, ModeStep DEF Service!Next
  <2> QED BY <2>5, <2>6
<1> QED BY <1>7, <1>8

(* A failed msgrcv makes a thread use its old buffer again.                *)
LEMMA RepeatService ==
  ASSUME Course, Course', [Next]_vars, NEW x \in arrived \cup {NoReq},
         UNCHANGED <<arrived, dropped>>, repeated' = repeated \cup ({x} \cap Reqs),
         sent' = sent \/ (sent' = sent \cup {req} /\ req.r = x),
         Stay({}), ~ FirstServes'
  PROVE  Service!Next
<1>1. NoReturn
  BY NextJourney DEF Course
<1>2. \A r \in Reqs \ {x} : Fate(r)' = Fate(r)
  BY <1>1, SameFate DEF Stay
<1>3. CASE x \notin Reqs
  <2>1. Answers' = Answers
    BY <1>3 DEF Answers
  <2>2. Fates' = Fates
    BY <1>2, <1>3, NoFateMoves
  <2> QED BY <2>1, <2>2, ModeStep DEF Service!Next
<1>4. CASE x \in Reqs
  <2>1. Fates' = [Fates EXCEPT ![x] = "repeated"]
    <3>1. Fate(x)' = "repeated"
      BY <1>4 DEF Fate
    <3> QED BY <1>2, <1>4, <3>1, OneFateMoves
  <2>2. Fates[x] # "new"
    <3>1. x \in arrived
      BY <1>4, UdpAssumption
    <3> QED BY <1>4, <3>1, FatesAre DEF Fate
  <2>3. Mode' = "failing"
    BY <1>4, UdpAssumption, Fails
  <2>4. \E S \in SUBSET Service!Replies(x) : Answers' = Answers \cup S
    <3>1. CASE sent' = sent
      <4>1. Answers' = Answers \cup {}
        BY <3>1 DEF Answers
      <4> QED BY <4>1
    <3>2. CASE sent' = sent \cup {req} /\ req.r = x
      <4>1. Answers' = Answers \cup {<<x, req.addr>>}
        BY <1>4, <3>2 DEF Answers
      <4>2. {<<x, req.addr>>} \in SUBSET Service!Replies(x)
        BY <1>4, <3>2 DEF Service!Replies, Course, Journey, IInv, Own
      <4> QED BY <4>1, <4>2
    <3> QED BY <3>1, <3>2
  <2>5. Service!Repeat(x)
    BY <2>1, <2>2, <2>3, <2>4 DEF Service!Repeat
  <2> QED BY <1>4, <2>5, ModeStep DEF Service!Next
<1> QED BY <1>3, <1>4

LEMMA RefuseService ==
  ASSUME Course, Course', [Next]_vars, ResponseHandler, dropped' # dropped
  PROVE  Service!Next
<1>1. NoReturn
  BY NextJourney DEF Course
<1>2. PICK x \in Reqs : x = req.r
  BY RefusalStep, JourneyTypes DEF Course
<1>3. /\ UNCHANGED <<arrived, sent, repeated>> /\ dropped' = dropped \cup {x}
      /\ x \in arrived /\ Handling(x) /\ Stay({x})
      /\ x \notin repeated => Places(x)' = {}
  BY <1>2, RefusalStep DEF Course
<1>4. \A r \in Reqs \ {x} : Fate(r)' = Fate(r)
  BY <1>1, <1>3, SameFate DEF Stay
<1>5. Answers' = Answers
  BY <1>3 DEF Answers
<1>6. CASE x \in repeated
  <2>1. Fate(x)' = "repeated" /\ Fate(x) = "repeated"
    BY <1>3, <1>6 DEF Fate
  <2>2. Fates' = Fates
    BY <1>4, <2>1, NoFateMoves
  <2> QED BY <1>5, <2>2, ModeStep DEF Service!Next
<1>7. CASE x \notin repeated
  <2>1. FatesTold /\ FatesTold'
    BY FateIsTold, PTL DEF Course
  <2>2. MainPlace \in Places(x)
    BY <1>3, InPlaces
  <2>3. ~ \E m \in sent : m.r = x
    <3>1. SUFFICES ASSUME NEW m \in sent, m.r = x PROVE FALSE
      OBVIOUS
    <3>2. <<"sent", m>> \in Places(x)
      BY <3>1, InPlaces
    <3> QED BY <1>7, <2>2, <3>2 DEF MainPlace, Course, Journey, AtMostOnce
  <2>4. Fate(x) = "pending" /\ Fate(x)' = "refused"
    BY <1>3, <1>7, <2>1, <2>2, <2>3 DEF FatesTold, Told
  <2>5. Service!Refuse(x)
    BY <1>4, <1>5, <2>4, OneFateMoves, FatesAre DEF Service!Refuse, Service!Settle
  <2> QED BY <2>5, ModeStep DEF Service!Next
<1> QED BY <1>6, <1>7

LEMMA InitService == Init => Service!Init
<1> SUFFICES ASSUME Init PROVE Service!Init
  OBVIOUS
<1>1. Answers = {} /\ Mode = "starting"
  BY DEF Init, Answers, Mode
<1>2. Fates = [r \in Reqs |-> "new"]
  BY DEF Init, Fates, Fate
<1> QED BY <1>1, <1>2 DEF Service!Init

(* Each step of the server is a step of ReplyService, or changes nothing a *)
(* client sees.                                                            *)
LEMMA NextService ==
  ASSUME Course, Course', [Next]_vars
  PROVE  [Service!Next]_(Service!vars)
<1> USE DEF mainVars, kernelVars, workerVars, history
<1>1. ASSUME UNCHANGED <<arrived, repeated, dropped, sent>> PROVE Service!Next
  BY <1>1, LoseOrNothing
<1>2. CASE Main
  <2>1. CASE SendStale
    <3>1. /\ UNCHANGED <<arrived, dropped, sockbuf, queue, wpc, wreq, qok>> /\ ~ qok[2]
          /\ sent' = sent \cup {req} /\ repeated' = repeated \cup ({req.r} \cap Reqs)
          /\ state = "STATE_SEND"
      BY <2>1 DEF SendStale
    <3>2. Stay({})
      BY <3>1, CopiesStay DEF Handling, Course
    <3>3. req.r \in arrived \cup {NoReq} /\ ~ FirstServes'
      BY <3>1 DEF Course, Journey, Known, FirstServes
    <3> QED BY <3>1, <3>2, <3>3, RepeatService
  <2>2. CASE ResponseHandler
    <3>1. UNCHANGED <<arrived, repeated, sent>>
      BY <2>2 DEF ResponseHandler
    <3> QED BY <1>1, <2>2, <3>1, RefuseService
  <2>3. CASE SendReply
    BY <2>3, SendReplyService
  <2>4. CASE \/ \E w \in Workers : Spawn(w)
             \/ Open \/ Loop \/ Receive \/ Timeout \/ EmptyQueue \/ Join \/ RemoveQueues
    BY <1>1, <2>4 DEF Spawn, Open, Loop, Receive, Timeout, EmptyQueue, Join, RemoveQueues
  <2> QED BY <1>2, <2>1, <2>2, <2>3, <2>4 DEF Main
<1>3. ASSUME NEW w \in Workers, WorkerReceiveError(w) \/ InterruptReceive(w)
      PROVE  Service!Next
  <2>1. /\ UNCHANGED <<arrived, dropped, sockbuf, queue, sent, state, mpc, req>>
        /\ repeated' = repeated \cup ({wreq[w].r} \cap Reqs) /\ wpc[w] = "recv"
        /\ ~ FirstServes'
    BY <1>3 DEF WorkerReceiveError, InterruptReceive, ReuseBuffer, FirstServes, Serving
  <2>2. \A v \in Workers : wpc[v] = "send" => wpc'[v] = "send" /\ wreq'[v].r = wreq[v].r
    BY <1>3, <2>1, JourneyTypes DEF Course, WorkerReceiveError, InterruptReceive, ReuseBuffer
  <2>3. Stay({})
    BY <2>1, <2>2, CopiesStay DEF Handling, Course
  <2>4. wreq[w].r \in arrived \cup {NoReq}
    BY DEF Course, Journey, Known
  <2> QED BY <2>1, <2>3, <2>4, RepeatService
<1>4. ASSUME NEW w \in Workers, Worker(w) PROVE Service!Next
  BY <1>1, <1>3, <1>4 DEF Worker, WorkerTest, WorkerReceive, WorkerSend
<1>5. CASE Environment
  BY <1>1, <1>3, <1>5, ArriveService
     DEF Environment, Boot, Signal, InterruptMain, Crash, ArriveOther, InterruptSend
<1>6. CASE UNCHANGED vars
  BY <1>1, <1>6 DEF vars
<1> QED BY <1>2, <1>4, <1>5, <1>6 DEF Next

(* For every number of requests, clients, workers, queue slots and         *)
(* restarts: what clients see of the server is what ReplyService allows.   *)
THEOREM Refinement == Spec => ImplementsReplies
<1>1. Course /\ Course' /\ [Next]_vars => [Service!Next]_(Service!vars)
  BY NextService
<1> QED BY <1>1, InitService, CourseInvariance, PTL DEF Spec, ImplementsReplies, Service!Spec
=============================================================================
