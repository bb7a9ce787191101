--------------------------- MODULE UdpTimeServer ---------------------------
(***************************************************************************)
(* The UDP time server of udp_client_server/main.c: a main thread that     *)
(* runs a three-state machine over one socket, a pool of worker threads,   *)
(* and two System V message queues between them.                           *)
(*                                                                         *)
(*   socket --recvfrom--> main --qids[0]--> worker --qids[1]--> main       *)
(*                                                        --sendto--> net  *)
(*                                                                         *)
(* The queues belong to the kernel: they outlive a process that is killed  *)
(* and the next process finds them again under the same ftok() keys.       *)
(* SIGINT and SIGTERM may run signal_handler in any thread, and may also   *)
(* make the system call that thread sleeps in return -1 with EINTR.        *)
(***************************************************************************)
EXTENDS Naturals, Sequences, FiniteSets, SequencesExt

CONSTANTS
  Reqs,      \* the requests that are followed, each a datagram sent at most once
  Clients,   \* client socket addresses
  Source,    \* the client each request comes from
  Workers,   \* the MAX_THREADS worker threads
  Stranger,  \* the client all other datagrams come from
  QCap,      \* messages one queue holds (msg_qbytes / message size)
  MaxBoots,  \* bound: how often the server process is started
  MaxOthers, \* bound: other datagrams waiting in the socket at a time
  NoReq,     \* another datagram, or a buffer that descends from none
  NoAddr     \* an address that is no client's

ASSUME UdpAssumption ==
  /\ Source \in [Reqs -> Clients]
  /\ Stranger \in Clients
  /\ NoReq \notin Reqs
  /\ NoAddr \notin Clients
  /\ QCap \in Nat \ {0}
  /\ MaxBoots \in Nat
  /\ MaxOthers \in Nat

VARIABLES
  running,   \* the global flag; FALSE until server() sets it
  state,     \* the state machine of the main thread
  mpc,       \* where the main thread is
  req,       \* the main thread's msgbuf, shared by receiving and sending
  socklen,   \* "unset" until recvfrom or STATE_SEND writes it
  sockbuf,   \* datagrams waiting in the server socket
  qok,       \* qok[k]: msgget gave a valid qids[k - 1]
  queue,     \* queue[1] is qids[0] (requests), queue[2] is qids[1] (replies)
  wpc,       \* where each worker is
  wreq,      \* each worker's msgbuf, uninitialised at first
  boots,     \* processes started so far
  arrived,   \* history: requests that reached the socket
  sent,      \* history: datagrams given to sendto
  repeated,  \* history: requests re-sent from a buffer no msgrcv refilled
  dropped    \* history: requests msgsnd refused because qids[0] was full

mainVars   == <<running, state, mpc, req, socklen>>
kernelVars == <<sockbuf, qok, queue>>
workerVars == <<wpc, wreq>>
history    == <<arrived, sent, repeated, dropped>>
vars       == <<mainVars, kernelVars, workerVars, boots, history>>

(* A message buffer. r is a ghost: the request whose datagram was last     *)
(* written into the buffer. body tells a client's datagram from the text   *)
(* the worker prints over it.                                              *)
Msg == [r : Reqs \cup {NoReq}, addr : Clients \cup {NoAddr},
        type : 0 .. 2, body : {"zero", "query", "time"}]

(* What msgsnd accepts into a queue.                                       *)
QueuedMsg == {m \in Msg : m.type >= 1}

Zeroed == [r |-> NoReq, addr |-> NoAddr, type |-> 0, body |-> "zero"]

TypeOK ==
  /\ running \in BOOLEAN
  /\ state \in {"STATE_RECV", "STATE_SEND", "STATE_RESPONSE_HANDLER"}
  /\ mpc \in {"down", "spawn", "open", "loop", "body", "join", "rmid", "done"}
  /\ req \in Msg
  /\ socklen \in {"unset", "full"}
  /\ sockbuf \in Seq(Reqs \cup {NoReq})
  /\ qok \in [1 .. 2 -> BOOLEAN]
  /\ queue \in [1 .. 2 -> Seq(QueuedMsg)]
  /\ wpc \in [Workers -> {"new", "test", "recv", "send", "exit"}]
  /\ wreq \in [Workers -> Msg]
  /\ boots \in 0 .. MaxBoots
  /\ arrived \subseteq Reqs
  /\ sent \subseteq Msg
  /\ repeated \subseteq Reqs
  /\ dropped \subseteq Reqs

Init ==
  /\ running = FALSE
  /\ state = "STATE_RECV"
  /\ mpc = "down"
  /\ req = Zeroed
  /\ socklen = "full"
  /\ sockbuf = <<>>
  /\ qok = [k \in 1 .. 2 |-> FALSE]
  /\ queue = [k \in 1 .. 2 |-> <<>>]
  /\ wpc = [w \in Workers |-> "new"]
  /\ wreq = [w \in Workers |-> Zeroed]
  /\ boots = 0
  /\ arrived = {}
  /\ sent = {}
  /\ repeated = {}
  /\ dropped = {}

-----------------------------------------------------------------------------
(* System V queues as this code uses them (external).                      *)

(* msgrcv(..., 1L, ...) takes the oldest message of type 1.                *)
Matches(k, i) ==
  /\ i \in DOMAIN queue[k]
  /\ queue[k][i].type = 1
  /\ \A j \in 1 .. (i - 1) : queue[k][j].type # 1

NoMessage(k) == \A i \in DOMAIN queue[k] : queue[k][i].type # 1

Full(k) == Len(queue[k]) >= QCap

Put(k, m) == queue' = [queue EXCEPT ![k] = Append(@, m)]
Take(k, i) == queue' = [queue EXCEPT ![k] = RemoveAt(@, i)]

-----------------------------------------------------------------------------
(* server(): start-up.                                                     *)

(* msgget for both queues. IPC_CREAT without IPC_EXCL finds the queues an  *)
(* earlier process left behind; a failure is not looked at. req is zeroed, *)
(* socklen and the workers' buffers are automatic variables nobody sets.   *)
Boot ==
  /\ mpc \in {"down", "done"}
  /\ boots < MaxBoots
  /\ boots' = boots + 1
  /\ mpc' = "spawn"
  /\ running' = FALSE
  /\ state' = "STATE_RECV"
  /\ req' = Zeroed
  /\ socklen' = "unset"
  /\ qok' \in [1 .. 2 -> BOOLEAN]
  /\ sockbuf' = <<>>
  /\ wpc' = [w \in Workers |-> "new"]
  /\ wreq' = [w \in Workers |-> Zeroed]
  /\ UNCHANGED <<queue, history>>

(* One pthread_create; the thread may run at once, running is still FALSE. *)
Spawn(w) ==
  /\ mpc = "spawn"
  /\ wpc[w] = "new"
  /\ wpc' = [wpc EXCEPT ![w] = "test"]
  /\ mpc' = IF \A v \in Workers \ {w} : wpc[v] # "new" THEN "open" ELSE mpc
  /\ UNCHANGED <<running, state, req, socklen, kernelVars, wreq, boots, history>>

(* socket, SO_RCVTIMEO, bind, then running = true and state = STATE_RECV.  *)
Open ==
  /\ mpc = "open"
  /\ running' = TRUE
  /\ state' = "STATE_RECV"
  /\ mpc' = "loop"
  /\ UNCHANGED <<req, socklen, kernelVars, workerVars, boots, history>>

-----------------------------------------------------------------------------
(* server(): the state machine.                                            *)

(* The loop condition; what it read of running may be stale in the body.   *)
Loop ==
  /\ mpc = "loop"
  /\ mpc' = IF running THEN "body" ELSE "join"
  /\ UNCHANGED <<running, state, req, socklen, kernelVars, workerVars, boots,
                 history>>

Sender(d) == IF d \in Reqs THEN Source[d] ELSE Stranger

(* Mutant: the request is received but state is left alone.                *)
ReceiveKeepsState ==
  /\ mpc = "body" /\ state = "STATE_RECV"
  /\ sockbuf # <<>>
  /\ sockbuf' = Tail(sockbuf)
  /\ req' = [req EXCEPT !.r = Head(sockbuf), !.body = "query",
                          !.addr = Sender(Head(sockbuf))]
  /\ socklen' = "full"
  /\ mpc' = "loop"
  /\ UNCHANGED <<running, state, qok, queue, workerVars, boots, history>>

(* STATE_RECV, a datagram is there. The kernel copies as much of the       *)
(* sender's address as socklen allows and stores the true length. While    *)
(* socklen is unset it may hold any int: long enough, or too short for the *)
(* address to be written, or negative, and then recvfrom fails after it    *)
(* has consumed the datagram and the server stops.                         *)
Receive ==
  /\ mpc = "body" /\ state = "STATE_RECV"
  /\ sockbuf # <<>>
  /\ sockbuf' = Tail(sockbuf)
  /\ \/ /\ req' = [req EXCEPT !.r = Head(sockbuf), !.body = "query",
                               !.addr = Sender(Head(sockbuf))]
        /\ socklen' = "full"
        /\ state' = "STATE_RESPONSE_HANDLER"
        /\ UNCHANGED running
     \/ /\ socklen = "unset"
        /\ req' = [req EXCEPT !.r = Head(sockbuf), !.body = "query"]
        /\ \/ /\ socklen' = "full"
              /\ state' = "STATE_RESPONSE_HANDLER"
              /\ UNCHANGED running
           \/ /\ running' = FALSE
              /\ UNCHANGED <<state, socklen>>
  /\ mpc' = "loop"
  /\ UNCHANGED <<qok, queue, workerVars, boots, history>>

(* Mutant: a timeout does not lead to STATE_SEND.                          *)
TimeoutReceivesAgain ==
  /\ mpc = "body" /\ state = "STATE_RECV"
  /\ sockbuf = <<>>
  /\ mpc' = "loop"
  /\ UNCHANGED <<running, state, req, socklen, kernelVars, workerVars, boots,
                 history>>

(* STATE_RECV, SO_RCVTIMEO expires with an empty socket: EWOULDBLOCK.      *)
Timeout ==
  /\ mpc = "body" /\ state = "STATE_RECV"
  /\ sockbuf = <<>>
  /\ state' = "STATE_SEND"
  /\ mpc' = "loop"
  /\ UNCHANGED <<running, req, socklen, kernelVars, workerVars, boots, history>>

(* Mutant: the destination is taken from req before msgrcv fills it.       *)
SendToLastSender ==
  /\ mpc = "body" /\ state = "STATE_SEND"
  /\ qok[2]
  /\ \E i \in DOMAIN queue[2] :
       /\ Matches(2, i)
       /\ Take(2, i)
       /\ req' = queue[2][i]
       /\ sent' = sent \cup {[queue[2][i] EXCEPT !.addr = req.addr]}
  /\ socklen' = "full"
  /\ state' = "STATE_RECV"
  /\ mpc' = "loop"
  /\ UNCHANGED <<running, sockbuf, qok, workerVars, boots, arrived, repeated,
                 dropped>>

(* STATE_SEND, a reply is queued: msgrcv fills req, sendto sends it.       *)
SendReply ==
  /\ mpc = "body" /\ state = "STATE_SEND"
  /\ qok[2]
  /\ \E i \in DOMAIN queue[2] :
       /\ Matches(2, i)
       /\ Take(2, i)
       /\ req' = queue[2][i]
       /\ sent' = sent \cup {queue[2][i]}
  /\ socklen' = "full"
  /\ state' = "STATE_RECV"
  /\ mpc' = "loop"
  /\ UNCHANGED <<running, sockbuf, qok, workerVars, boots, arrived, repeated,
                 dropped>>

(* Mutant: no break after "empty queue", so sendto sends req as it is.     *)
EmptyQueueSends ==
  /\ mpc = "body" /\ state = "STATE_SEND"
  /\ qok[2] /\ NoMessage(2)
  /\ sent' = sent \cup {req}
  /\ socklen' = "full"
  /\ state' = "STATE_RECV"
  /\ mpc' = "loop"
  /\ UNCHANGED <<running, req, kernelVars, workerVars, boots, arrived, repeated,
                 dropped>>

(* STATE_SEND, ENOMSG: nothing to send.                                    *)
EmptyQueue ==
  /\ mpc = "body" /\ state = "STATE_SEND"
  /\ qok[2] /\ NoMessage(2)
  /\ state' = "STATE_RECV"
  /\ mpc' = "loop"
  /\ UNCHANGED <<running, req, socklen, kernelVars, workerVars, boots, history>>

(* STATE_SEND, any other error of msgrcv: the code falls through to sendto *)
(* with what req held before.                                              *)
SendStale ==
  /\ mpc = "body" /\ state = "STATE_SEND"
  /\ ~ qok[2]
  /\ sent' = sent \cup {req}
  /\ repeated' = repeated \cup ({req.r} \cap Reqs)
  /\ socklen' = "full"
  /\ state' = "STATE_RECV"
  /\ mpc' = "loop"
  /\ UNCHANGED <<running, req, kernelVars, workerVars, boots, arrived, dropped>>

(* Mutant: state stays STATE_RESPONSE_HANDLER after the msgsnd.            *)
ResponseHandlerStays ==
  /\ mpc = "body" /\ state = "STATE_RESPONSE_HANDLER"
  /\ req' = [req EXCEPT !.type = 1]
  /\ qok[1] /\ ~ Full(1) /\ Put(1, req')
  /\ mpc' = "loop"
  /\ UNCHANGED <<running, state, socklen, sockbuf, qok, workerVars, boots, history>>

(* STATE_RESPONSE_HANDLER: msgsnd with IPC_NOWAIT. A full or missing queue *)
(* loses the request, nobody looks at the result.                          *)
ResponseHandler ==
  /\ mpc = "body" /\ state = "STATE_RESPONSE_HANDLER"
  /\ req' = [req EXCEPT !.type = 1]
  /\ \/ qok[1] /\ ~ Full(1) /\ Put(1, req') /\ UNCHANGED dropped
     \/ ~ qok[1] /\ UNCHANGED <<queue, dropped>>
     \/ /\ qok[1] /\ Full(1)
        /\ dropped' = dropped \cup ({req.r} \cap Reqs)
        /\ UNCHANGED queue
  /\ state' = "STATE_RECV"
  /\ mpc' = "loop"
  /\ UNCHANGED <<running, socklen, sockbuf, qok, workerVars, boots, arrived, sent,
                 repeated>>

-----------------------------------------------------------------------------
(* server(): shutdown.                                                     *)

(* pthread_join of every worker.                                           *)
Join ==
  /\ mpc = "join"
  /\ \A w \in Workers : wpc[w] = "exit"
  /\ mpc' = "rmid"
  /\ UNCHANGED <<running, state, req, socklen, kernelVars, workerVars, boots,
                 history>>

(* msgctl(IPC_RMID) on both queues, close the socket, return.              *)
RemoveQueues ==
  /\ mpc = "rmid"
  /\ queue' = [k \in 1 .. 2 |-> IF qok[k] THEN <<>> ELSE queue[k]]
  /\ sockbuf' = <<>>
  /\ mpc' = "done"
  /\ UNCHANGED <<running, state, req, socklen, qok, workerVars, boots, history>>

-----------------------------------------------------------------------------
(* worker().                                                               *)

(* Mutant: while (1).                                                      *)
WorkerNeverStops(w) ==
  /\ wpc[w] = "test"
  /\ wpc' = [wpc EXCEPT ![w] = "recv"]
  /\ UNCHANGED <<mainVars, kernelVars, wreq, boots, history>>

(* while (running).                                                        *)
WorkerTest(w) ==
  /\ wpc[w] = "test"
  /\ wpc' = [wpc EXCEPT ![w] = IF running THEN "recv" ELSE "exit"]
  /\ UNCHANGED <<mainVars, kernelVars, wreq, boots, history>>

(* A blocking msgrcv that finds a message; time() is printed into buf.     *)
WorkerReceive(w) ==
  /\ wpc[w] = "recv"
  /\ qok[1]
  /\ \E i \in DOMAIN queue[1] :
       /\ Matches(1, i)
       /\ Take(1, i)
       /\ wreq' = [wreq EXCEPT ![w] = [queue[1][i] EXCEPT !.body = "time"]]
  /\ wpc' = [wpc EXCEPT ![w] = "send"]
  /\ UNCHANGED <<mainVars, sockbuf, qok, boots, history>>

(* msgrcv fails - EINTR, or a queue that never existed - and the worker    *)
(* goes on with the buffer of its previous round. A buffer no msgrcv ever  *)
(* filled may hold any type word.                                          *)
ReuseBuffer(w) ==
  /\ \E t \in IF wreq[w].body = "zero" THEN 0 .. 2 ELSE {wreq[w].type} :
       wreq' = [wreq EXCEPT ![w].type = t, ![w].body = "time"]
  /\ repeated' = repeated \cup ({wreq[w].r} \cap Reqs)
  /\ wpc' = [wpc EXCEPT ![w] = "send"]

WorkerReceiveError(w) ==
  /\ wpc[w] = "recv"
  /\ ~ qok[1]
  /\ ReuseBuffer(w)
  /\ UNCHANGED <<mainVars, kernelVars, boots, arrived, sent, dropped>>

(* A blocking msgsnd with room; a type below 1 or a bad queue is an error  *)
(* that is ignored.                                                        *)
WorkerSend(w) ==
  /\ wpc[w] = "send"
  /\ \/ qok[2] /\ wreq[w].type >= 1 /\ ~ Full(2) /\ Put(2, wreq[w])
     \/ (~ qok[2] \/ wreq[w].type < 1) /\ UNCHANGED queue
  /\ wpc' = [wpc EXCEPT ![w] = "test"]
  /\ UNCHANGED <<mainVars, sockbuf, qok, wreq, boots, history>>

-----------------------------------------------------------------------------
(* The environment.                                                        *)

(* A client's datagram reaches the socket of the running process. A lost   *)
(* datagram is one that never arrives; one that arrives after the loop has *)
(* ended is never read and counts as lost.                                 *)
Arrive(r) ==
  /\ mpc \in {"loop", "body"}
  /\ r \notin arrived
  /\ arrived' = arrived \cup {r}
  /\ sockbuf' = Append(sockbuf, r)
  /\ UNCHANGED <<mainVars, qok, queue, workerVars, boots, sent, repeated, dropped>>

(* Other datagrams keep coming: there is no end to them, and only those    *)
(* that wait in the socket are limited. The server treats them alike.      *)
ArriveOther ==
  /\ mpc \in {"loop", "body"}
  /\ Cardinality({i \in DOMAIN sockbuf : sockbuf[i] = NoReq}) < MaxOthers
  /\ sockbuf' = Append(sockbuf, NoReq)
  /\ UNCHANGED <<mainVars, qok, queue, workerVars, boots, history>>

(* SIGINT or SIGTERM: signal_handler runs between two system calls.        *)
Signal ==
  /\ mpc \notin {"down", "done"}
  /\ running' = FALSE
  /\ UNCHANGED <<state, mpc, req, socklen, kernelVars, workerVars, boots,
                 history>>

(* The signal interrupts recvfrom (a socket with SO_RCVTIMEO is never      *)
(* restarted): EINTR is not EWOULDBLOCK, so running = false.               *)
InterruptMain ==
  /\ mpc = "body" /\ state = "STATE_RECV" /\ sockbuf = <<>>
  /\ running' = FALSE
  /\ mpc' = "loop"
  /\ UNCHANGED <<state, req, socklen, kernelVars, workerVars, boots, history>>

(* Mutant: the handler of the signal does not clear running.               *)
InterruptReceiveRuns(w) ==
  /\ wpc[w] = "recv" /\ qok[1] /\ NoMessage(1)
  /\ mpc \notin {"down", "done"}
  /\ ReuseBuffer(w)
  /\ UNCHANGED <<mainVars, kernelVars, boots, arrived, sent, dropped>>

(* The signal interrupts a worker asleep in msgrcv.                        *)
InterruptReceive(w) ==
  /\ wpc[w] = "recv" /\ qok[1] /\ NoMessage(1)
  /\ mpc \notin {"down", "done"}
  /\ running' = FALSE
  /\ ReuseBuffer(w)
  /\ UNCHANGED <<state, mpc, req, socklen, kernelVars, boots, arrived, sent, dropped>>

(* The signal interrupts a worker asleep in msgsnd: the reply is lost.     *)
InterruptSend(w) ==
  /\ wpc[w] = "send" /\ qok[2] /\ wreq[w].type >= 1 /\ Full(2)
  /\ mpc \notin {"down", "done"}
  /\ running' = FALSE
  /\ wpc' = [wpc EXCEPT ![w] = "test"]
  /\ UNCHANGED <<state, mpc, req, socklen, kernelVars, wreq, boots, history>>

(* The process is killed: its threads and socket vanish, the queues stay.  *)
Crash ==
  /\ mpc \notin {"down", "done"}
  /\ mpc' = "down"
  /\ running' = FALSE
  /\ wpc' = [w \in Workers |-> "new"]
  /\ sockbuf' = <<>>
  /\ UNCHANGED <<state, req, socklen, qok, queue, wreq, boots, history>>

-----------------------------------------------------------------------------
Main == \/ \E w \in Workers : Spawn(w)
        \/ Open \/ Loop \/ Receive \/ Timeout \/ SendReply \/ EmptyQueue
        \/ SendStale \/ ResponseHandler \/ Join \/ RemoveQueues

Worker(w) == \/ WorkerTest(w) \/ WorkerReceive(w) \/ WorkerReceiveError(w)
             \/ WorkerSend(w)

Environment == \/ Boot \/ Signal \/ InterruptMain \/ Crash \/ ArriveOther
               \/ \E r \in Reqs : Arrive(r)
               \/ \E w \in Workers : InterruptReceive(w) \/ InterruptSend(w)

Next == Main \/ (\E w \in Workers : Worker(w)) \/ Environment

Spec == Init /\ [][Next]_vars

(* Every thread that can take a step is eventually scheduled; a timeout    *)
(* is a step of the main thread. Nothing is assumed of the environment.    *)
FairSpec == Spec /\ WF_vars(Main) /\ \A w \in Workers : WF_vars(Worker(w))

-----------------------------------------------------------------------------
(* Properties.                                                             *)

Serving == mpc \in {"loop", "body"} /\ running

(* Where a live copy of request r is: in the socket, in the main thread's  *)
(* buffer between recvfrom and msgsnd, in a queue, in the hands of a       *)
(* worker, or on the wire as a reply.                                      *)
Places(r) ==
  {<<"socket", i>> : i \in {j \in DOMAIN sockbuf : sockbuf[j] = r}}
    \cup {<<"main", s>> : s \in {"STATE_RESPONSE_HANDLER"} \cap
              {t \in {state} : mpc \in {"loop", "body"} /\ req.r = r}}
    \cup {<<"queue1", i>> : i \in {j \in DOMAIN queue[1] : queue[1][j].r = r}}
    \cup {<<"worker", w>> : w \in {v \in Workers : wpc[v] = "send" /\ wreq[v].r = r}}
    \cup {<<"queue2", i>> : i \in {j \in DOMAIN queue[2] : queue[2][j].r = r}}
    \cup {<<"sent", m>> : m \in {n \in sent : n.r = r}}

(* No request is answered twice, or is on its way to being answered twice, *)
(* across threads, queues and restarts of the process - unless a failed    *)
(* msgrcv made a thread send its old buffer again (lines 54-57, 118-125).  *)
AtMostOnce ==
  \A r \in Reqs \ repeated : \A p, s \in Places(r) : p = s

(* A reply never reaches a client other than the one that asked, although  *)
(* the main thread receives requests into, and takes replies out of, the   *)
(* same msgbuf, and the first recvfrom may leave the address unwritten.    *)
AddressedToSender ==
  \A m \in sent : m.r \in Reqs => m.addr \in {Source[m.r], NoAddr}

(* With a working reply queue only text printed by a worker is sent: a     *)
(* client never gets its own datagram, or a zeroed buffer, back.           *)
RepliesAreTimes ==
  [][\A m \in sent' \ sent : qok[2] => m.body = "time"]_vars

(* An old buffer is sent again only while the process shuts down or when   *)
(* the reply queue could not be created.                                   *)
RepeatsOnlyOnFailure ==
  [][repeated' # repeated => ~ running' \/ ~ qok[2]]_vars

(* The first process serves, with both queues.                             *)
FirstServes == Serving /\ boots = 1 /\ qok[1] /\ qok[2]

(* As long as the first process serves with both queues, a datagram that   *)
(* reached the socket disappears in one place only: the msgsnd of line 131 *)
(* when qids[0] is full.                                                   *)
NothingLost == FirstServes => \A r \in arrived \ dropped : Places(r) # {}

(* The requests as a client sees them, and the server as a whole.          *)
Fate(r) ==
  IF r \in repeated THEN "repeated"
  ELSE IF r \notin arrived THEN "new"
  ELSE IF \E p \in Places(r) : p[1] # "sent" THEN "pending"
  ELSE IF Places(r) # {} THEN "answered"
  ELSE IF r \in dropped THEN "refused" ELSE "lost"

Fates == [r \in Reqs |-> Fate(r)]

Answers == {<<m.r, m.addr>> : m \in {n \in sent : n.r \in Reqs}}

Mode ==
  IF boots = 0 \/ (boots = 1 /\ mpc \in {"spawn", "open"}) THEN "starting"
  ELSE IF FirstServes THEN "serving" ELSE "failing"

Service == INSTANCE ReplyService WITH
  fate <- Fates, replies <- Answers, mode <- Mode

(* Threads, queues, crashes and restarts give what ReplyService promises:  *)
(* each request has one outcome, which it keeps; a reply goes home; losses *)
(* and repeats need a failure.                                             *)
ImplementsReplies == Service!Spec

Live == {w \in Workers : wpc[w] \notin {"new", "exit"}}

(* Workers can do their job: one of them got past "while (running)" before *)
(* or after running was set, and no foreign message clogs the reply queue. *)
Staffed ==
  /\ Serving /\ qok[1] /\ qok[2]
  /\ Live # {}
  /\ \A i \in DOMAIN queue[2] : queue[2][i].type = 1

(* Replies leave only after a receive timeout, one per timeout (lines      *)
(* 107-109), and a datagram within every second keeps recvfrom from ever   *)
(* timing out. If the traffic pauses again and again, each queued request  *)
(* is answered, whatever arrives between the pauses and waits in front of  *)
(* it - as long as the server stays staffed.                               *)
QueuedIsAnswered ==
  []<><<Timeout>>_vars =>
    \A r \in Reqs :
      (Staffed /\ \E i \in DOMAIN queue[1] : queue[1][i].r = r)
        ~> ((\E m \in sent : m.r = r) \/ ~ Staffed)

At(l) == {w \in Workers : wpc[w] = l}

(* Shutdown ends - the joins return and the queues are removed - whenever  *)
(* every worker asleep in msgrcv finds a message to wake it and every one  *)
(* that still has to msgsnd finds room; nothing else wakes the workers.    *)
ShutdownEnds ==
  (/\ mpc = "join"
   /\ Len(queue[1]) >= Cardinality(At("recv"))
   /\ Len(queue[2]) + Cardinality(At("recv") \cup At("send")) <= QCap)
    ~> mpc \in {"done", "down"}
=============================================================================
