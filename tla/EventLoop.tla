----------------------------- MODULE EventLoop -----------------------------
(***************************************************************************)
(* The TCP and UDP event loop of select_poll_epoll/main.c in the builds    *)
(* its preprocessor offers: select or pselect (the one line 12 chooses),   *)
(* poll or ppoll, and epoll. One thread, blocking sockets; a call that     *)
(* waits, and a scan of what it found ready. Peers connect, send, close    *)
(* and reset at any moment, also between the wait and the recv its answer  *)
(* leads to. accept takes the lowest free descriptor.                      *)
(***************************************************************************)
EXTENDS Integers, Sequences, FiniteSets, SequencesExt

CONSTANTS
  Builds,     \* the builds that are considered
  Conns,      \* TCP connections clients may open, each once
  MaxFd,      \* the largest descriptor the process may have
  Inherited,  \* the sets of descriptors that may be open before main() runs,
              \* in the epoll build the one of epoll_create among them
  StrayBit,   \* the bit that FD_SET(-1, &rset) sets: 63 where a long has 64
  POLL_MAX,   \* slots of pfds
  MaxEvents,  \* MAX_EVENTS: what one epoll_wait reports at most
  Backlog,    \* connections the listening socket holds
  MaxSends,   \* bound: segments a client sends
  MaxUdp      \* datagrams the UDP socket buffers

Fds == 0 .. MaxFd
NoFd == -1

(* An fd_set has room for each descriptor, and poll accepts as many slots  *)
(* as pfds has: both are 1024, as is the usual limit on descriptors.       *)
ASSUME LoopAssumption ==
  /\ Builds \subseteq {"select", "poll", "epoll"}
  /\ MaxFd \in Nat /\ MaxFd <= 1023 /\ StrayBit \in Nat
  /\ \A inh \in Inherited :
       inh \subseteq Fds /\ Cardinality(Fds \ inh) >= 2 /\ StrayBit \notin inh
  /\ POLL_MAX \in Nat /\ POLL_MAX >= 2 /\ POLL_MAX <= MaxFd + 1
  /\ MaxEvents \in Nat \ {0}
  /\ Backlog \in Nat \ {0} /\ MaxSends \in Nat /\ MaxUdp \in Nat \ {0}

VARIABLES
  build, inherited,  \* chosen before main() runs
  pc,       \* "wait", "scan", "blind": a scan after a pselect that failed,
            \* or "smashed" once pfds is overrun
  rset,     \* what is watched: the fd_set, or the epoll set
  max,      \* select: the largest watched descriptor
  todo,     \* select, epoll: the descriptors found ready, not yet visited
  pfds,     \* poll: slots with a descriptor, the POLLIN bit of revents, and
            \* ghost: poll has not written that bit yet
  i,        \* poll: the slot the scan is at
  fd,       \* each connection's descriptor in the server, or NoFd
  peer,     \* each client: "new", "up", "fin" or "rst" sent, "over"
  backlog,  \* connections waiting for accept
  inbuf,    \* segments waiting in each connection
  left,     \* segments each client may still send
  udpq      \* datagrams waiting

host == <<build, inherited>>
loopVars == <<pc, rset, max, todo, pfds, i>>
netVars == <<peer, backlog, inbuf, left, udpq>>
vars == <<host, loopVars, fd, netVars>>

LowestFree(used) == CHOOSE f \in Fds \ used : \A g \in Fds \ used : f <= g

udpsock == LowestFree(inherited)
tcpsock == LowestFree(inherited \cup {udpsock})

OpenFds == inherited \cup {udpsock, tcpsock} \cup ({fd[c] : c \in Conns} \ {NoFd})
TableFull == OpenFds = Fds

Slot == [fd : Fds \cup {NoFd}, in : BOOLEAN, fresh : BOOLEAN]

TypeOK ==
  /\ build \in Builds /\ inherited \in Inherited
  /\ pc \in {"wait", "scan", "blind", "smashed"}
  /\ rset \subseteq Fds \cup {StrayBit} /\ todo \subseteq Fds /\ max \in Fds
  /\ pfds \in Seq(Slot) /\ Len(pfds) <= POLL_MAX /\ i \in 1 .. POLL_MAX + 1
  /\ fd \in [Conns -> Fds \cup {NoFd}]
  /\ peer \in [Conns -> {"new", "up", "fin", "rst", "over"}]
  /\ backlog \in Seq(Conns) /\ Len(backlog) <= Backlog
  /\ inbuf \in [Conns -> 0 .. MaxSends] /\ left \in [Conns -> 0 .. MaxSends]
  /\ udpq \in 0 .. MaxUdp

(* main() up to the loop: both sockets are watched.                        *)
Init ==
  /\ build \in Builds /\ inherited \in Inherited
  /\ pc = "wait" /\ todo = {} /\ i = 1
  /\ rset = IF build = "poll" THEN {} ELSE {tcpsock, udpsock}
  /\ max = IF tcpsock > udpsock THEN tcpsock ELSE udpsock
  /\ pfds = IF build = "poll"
            THEN <<[fd |-> tcpsock, in |-> FALSE, fresh |-> TRUE],
                   [fd |-> udpsock, in |-> FALSE, fresh |-> TRUE]>>
            ELSE <<>>
  /\ fd = [c \in Conns |-> NoFd]
  /\ peer = [c \in Conns |-> "new"]
  /\ backlog = <<>>
  /\ inbuf = [c \in Conns |-> 0]
  /\ left = [c \in Conns |-> MaxSends]
  /\ udpq = 0

-----------------------------------------------------------------------------
(* Waiting.                                                                *)

(* A descriptor is ready when the call the server makes on it returns; -1  *)
(* is none, and data of a connection nobody has accepted marks nothing.    *)
Ready(f) ==
  \/ f = tcpsock /\ backlog # <<>>
  \/ f = udpsock /\ udpq > 0
  \/ \E c \in Conns : /\ fd[c] = f /\ f # NoFd
                      /\ inbuf[c] > 0 \/ peer[c] \in {"fin", "rst"}

(* select looks at the descriptors up to max only.                         *)
Looked == {f \in rset : build = "select" => f <= max}
Found == {f \in Looked : Ready(f)}

(* epoll_wait reports no more than MAX_EVENTS of what it finds.            *)
Batches ==
  IF build = "epoll" /\ Cardinality(Found) > MaxEvents
  THEN {batch \in SUBSET Found : Cardinality(batch) = MaxEvents}
  ELSE {Found}

(* select fails with EBADF if rset names a closed descriptor.              *)
BadFd == build = "select" /\ ~ Looked \subseteq OpenFds

(* Mutant: the scan visits what is watched, not what was found ready.      *)
WaitIgnored ==
  /\ pc = "wait" /\ pc' = "scan"
  /\ build # "poll" /\ ~ BadFd
  /\ Found # {}
  /\ todo' = Looked
  /\ UNCHANGED <<host, rset, max, pfds, i, fd, netVars>>

(* Mutant: pselect is given max instead of max + 1.                        *)
WaitBelowMax ==
  /\ pc = "wait" /\ pc' = "scan"
  /\ build # "poll" /\ ~ BadFd
  /\ todo' = {f \in Found : build = "select" => f < max}
  /\ todo' # {}
  /\ UNCHANGED <<host, rset, max, pfds, i, fd, netVars>>

(* tset = rset; pselect(max + 1, &tset), or epoll_wait.                    *)
Wait ==
  /\ pc = "wait" /\ pc' = "scan"
  /\ build # "poll" /\ ~ BadFd
  /\ Found # {} /\ todo' \in Batches
  /\ UNCHANGED <<host, rset, max, pfds, i, fd, netVars>>

(* pselect returns -1 and leaves tset what rset is, and -1 is not 0: the   *)
(* scan visits every watched descriptor.                                   *)
WaitFails ==
  /\ pc = "wait" /\ pc' = "blind"
  /\ BadFd
  /\ todo' = Looked
  /\ UNCHANGED <<host, rset, max, pfds, i, fd, netVars>>

(* poll, ppoll: revents of every slot is written; -1 is passed over.       *)
Poll ==
  /\ pc = "wait" /\ pc' = "scan"
  /\ build = "poll"
  /\ \E s \in DOMAIN pfds : Ready(pfds[s].fd)
  /\ pfds' = [s \in DOMAIN pfds |->
               [fd |-> pfds[s].fd, in |-> Ready(pfds[s].fd), fresh |-> FALSE]]
  /\ i' = 1
  /\ UNCHANGED <<host, rset, max, todo, fd, netVars>>

-----------------------------------------------------------------------------
(* Scanning. select goes up through the descriptors, epoll has the order   *)
(* of the kernel's list, poll goes up through the slots.                   *)

Scanning == pc \in {"scan", "blind"}

At(f) ==
  /\ Scanning
  /\ \/ build = "select" /\ f \in todo /\ \A g \in todo : f <= g
     \/ build = "epoll" /\ f \in todo
     \/ build = "poll" /\ i <= Len(pfds) /\ pfds[i].in /\ pfds[i].fd = f

(* The loop's step to the next descriptor.                                 *)
Visited(f) ==
  /\ todo' = todo \ {f}
  /\ i' = IF build = "poll" THEN i + 1 ELSE i

SkipSlot ==
  /\ Scanning /\ build = "poll"
  /\ i <= Len(pfds) /\ ~ pfds[i].in
  /\ i' = i + 1
  /\ UNCHANGED <<host, pc, rset, max, todo, pfds, fd, netVars>>

EndScan ==
  /\ Scanning /\ todo = {} /\ i > Len(pfds)
  /\ pc' = "wait"
  /\ UNCHANGED <<host, rset, max, todo, pfds, i, fd, netVars>>

set_max(val) == max' = IF val > max THEN val ELSE max

(* Mutant: set_max is not called, and no slot or event is added.           *)
WatchForgets(f) ==
  /\ rset' = IF build = "select" THEN rset \cup {f} ELSE rset
  /\ UNCHANGED <<pc, max, pfds>>

(* The result of accept is watched, -1 too: FD_SET sets some bit for it    *)
(* and set_max does nothing, epoll_ctl refuses it, poll stores it. The new *)
(* slot of pfds has a revents that nobody has written; a slot past the end *)
(* is an overrun.                                                          *)
Watch(f) ==
  \/ /\ build = "select"
     /\ rset' = rset \cup {IF f = NoFd THEN StrayBit ELSE f}
     /\ set_max(f)
     /\ UNCHANGED <<pc, pfds>>
  \/ /\ build = "epoll"
     /\ rset' = rset \cup ({f} \ {NoFd})
     /\ UNCHANGED <<pc, max, pfds>>
  \/ /\ build = "poll" /\ Len(pfds) < POLL_MAX
     /\ \E garbage \in BOOLEAN :
          pfds' = Append(pfds, [fd |-> f, in |-> garbage, fresh |-> TRUE])
     /\ UNCHANGED <<pc, rset, max>>
  \/ /\ build = "poll" /\ Len(pfds) = POLL_MAX
     /\ pc' = "smashed"
     /\ UNCHANGED <<rset, max, pfds>>

Accept ==
  /\ At(tcpsock) /\ backlog # <<>>
  /\ ~ TableFull
  /\ fd' = [fd EXCEPT ![Head(backlog)] = LowestFree(OpenFds)]
  /\ Watch(LowestFree(OpenFds))
  /\ backlog' = Tail(backlog)
  /\ Visited(tcpsock)
  /\ UNCHANGED <<host, peer, inbuf, left, udpq>>

(* accept fails and nobody looks: the connection stays queued and the      *)
(* listening socket stays ready. A full table (EMFILE) is one reason; the  *)
(* others, ENFILE or memory, may come at any time.                         *)
AcceptFails ==
  /\ At(tcpsock) /\ backlog # <<>>
  /\ Watch(NoFd)
  /\ Visited(tcpsock)
  /\ UNCHANGED <<host, fd, netVars>>

RecvFrom ==
  /\ At(udpsock) /\ udpq > 0
  /\ udpq' = udpq - 1
  /\ Visited(udpsock)
  /\ UNCHANGED <<host, pc, rset, max, pfds, fd, peer, backlog, inbuf, left>>

(* recv returns data; or -1 after a reset, which is treated as data and    *)
(* leaves the connection at its end.                                       *)
Recv(c) ==
  /\ fd[c] # NoFd /\ At(fd[c])
  /\ \/ /\ inbuf[c] > 0
        /\ inbuf' = [inbuf EXCEPT ![c] = @ - 1]
        /\ UNCHANGED peer
     \/ /\ inbuf[c] = 0 /\ peer[c] = "rst"
        /\ peer' = [peer EXCEPT ![c] = "fin"]
        /\ UNCHANGED inbuf
  /\ Visited(fd[c])
  /\ UNCHANGED <<host, pc, rset, max, pfds, fd, backlog, left, udpq>>

(* recv of the -1, or of the bit, that a failed accept has left: an error, *)
(* taken for data.                                                         *)
RecvClosed(f) ==
  /\ At(f) /\ f \notin OpenFds
  /\ Visited(f)
  /\ UNCHANGED <<host, pc, rset, max, pfds, fd, netVars>>

(* FD_CLR or EPOLL_CTL_DEL; or the slots of pfds behind i move down by one *)
(* and the loop still goes on to i + 1, past the slot that moved in.       *)
Unwatch(f) ==
  /\ rset' = rset \ {f}
  /\ pfds' = IF build = "poll" THEN RemoveAt(pfds, i) ELSE pfds
  /\ Visited(f)

(* Mutant: end of file is taken for an empty read.                         *)
DisconnectMissed(c) ==
  /\ fd[c] # NoFd /\ At(fd[c])
  /\ inbuf[c] = 0 /\ peer[c] = "fin"
  /\ Visited(fd[c])
  /\ UNCHANGED <<host, pc, rset, max, pfds, fd, netVars>>

(* Mutant: whatever recv returns, the connection is closed.                *)
DisconnectEarly(c) ==
  /\ fd[c] # NoFd /\ At(fd[c]) /\ peer[c] = "fin"
  /\ Unwatch(fd[c])
  /\ fd' = [fd EXCEPT ![c] = NoFd]
  /\ peer' = [peer EXCEPT ![c] = "over"]
  /\ UNCHANGED <<host, pc, max, backlog, inbuf, left, udpq>>

(* recv returns 0: the descriptor is closed and no longer watched.         *)
Disconnect(c) ==
  /\ fd[c] # NoFd /\ At(fd[c])
  /\ inbuf[c] = 0 /\ peer[c] = "fin"
  /\ Unwatch(fd[c])
  /\ fd' = [fd EXCEPT ![c] = NoFd]
  /\ peer' = [peer EXCEPT ![c] = "over"]
  /\ UNCHANGED <<host, pc, max, backlog, inbuf, left, udpq>>

-----------------------------------------------------------------------------
(* Peers (external).                                                       *)

Connect(c) ==
  /\ peer[c] = "new" /\ Len(backlog) < Backlog
  /\ peer' = [peer EXCEPT ![c] = "up"]
  /\ backlog' = Append(backlog, c)
  /\ UNCHANGED <<host, loopVars, fd, inbuf, left, udpq>>

Send(c) ==
  /\ peer[c] = "up" /\ left[c] > 0
  /\ inbuf' = [inbuf EXCEPT ![c] = @ + 1]
  /\ left' = [left EXCEPT ![c] = @ - 1]
  /\ UNCHANGED <<host, loopVars, fd, peer, backlog, udpq>>

Hangup(c) ==
  /\ peer[c] = "up"
  /\ \E how \in {"fin", "rst"} : peer' = [peer EXCEPT ![c] = how]
  /\ UNCHANGED <<host, loopVars, fd, backlog, inbuf, left, udpq>>

Datagram ==
  /\ udpq < MaxUdp
  /\ udpq' = udpq + 1
  /\ UNCHANGED <<host, loopVars, fd, peer, backlog, inbuf, left>>

-----------------------------------------------------------------------------
Server == \/ Wait \/ WaitFails \/ Poll \/ SkipSlot \/ EndScan \/ Accept \/ AcceptFails
          \/ RecvFrom \/ \E f \in {NoFd, StrayBit} : RecvClosed(f)
          \/ \E c \in Conns : Recv(c) \/ Disconnect(c)

Peers == Datagram \/ \E c \in Conns : Connect(c) \/ Send(c) \/ Hangup(c)

Next == Server \/ Peers

Spec == Init /\ [][Next]_vars

(* The process is scheduled, and the kernel reports a descriptor that is   *)
(* ready again and again in some batch: what epoll_wait has reported goes  *)
(* to the end of its list. Peers owe nothing.                              *)
FairSpec == /\ Spec /\ WF_vars(Server)
            /\ \A f \in Fds : SF_vars(Wait /\ f \in todo')

-----------------------------------------------------------------------------
(* Properties.                                                             *)

Failed == {s \in DOMAIN pfds : pfds[s].fd = NoFd}

(* Whatever is closed, accepted, reused or moved during a scan, the loop   *)
(* watches exactly the descriptors it has open, none above max - and the   *)
(* one bit that FD_SET(-1) sets; each has one slot of pfds, and any other  *)
(* slot was wasted by a failed accept, so only those can make it overrun   *)
(* pfds with POLL_MAX - 2 or fewer clients.                                *)
InterestExact ==
  LET ours == OpenFds \ inherited IN
  /\ build = "select" => /\ ours \subseteq Looked
                         /\ rset \subseteq ours \cup {StrayBit}
  /\ build = "epoll" => rset = ours
  /\ build = "poll" =>
       /\ {pfds[s].fd : s \in DOMAIN pfds \ Failed} = ours \/ pc = "smashed"
       /\ Len(pfds) = Cardinality(Failed)
                        + Cardinality({pfds[s].fd : s \in DOMAIN pfds \ Failed})

(* The thread sleeps in accept, recvfrom or recv.                          *)
Blocked == \E f \in OpenFds : At(f) /\ ~ Ready(f)

(* The one thread never sleeps outside the wait: a descriptor still marked *)
(* can be read when the scan gets to it. Two ways break this, and both use *)
(* a mark no wait has made: the slot of a connection that poll's scan has  *)
(* accepted itself, whose revents is whatever the stack held (line 215),   *)
(* and a select that failed over the bit of a failed accept (lines 183-189)*)
BlocksOnlyUntold ==
  Blocked => pc = "blind" \/ (build = "poll" /\ pfds[i].fresh)

(* What a client sends is read, and what it closes or resets is closed,    *)
(* however many datagrams, other clients and failing accepts keep the loop *)
(* busy and whatever slots are skipped - unless the thread gets stuck in a *)
(* fresh slot or a blind scan, or overruns pfds.                           *)
ReadyIsServed ==
  \A c \in Conns :
    (fd[c] # NoFd /\ Ready(fd[c]))
      ~> (fd[c] = NoFd \/ ~ Ready(fd[c]) \/ Blocked \/ pc = "smashed")

(* A queued connection is accepted unless the process is out of            *)
(* descriptors or the thread is stuck - if accept does not go on failing   *)
(* for reasons of the rest of the system.                                  *)
QueuedIsAccepted ==
  <>[][AcceptFails => TableFull]_vars =>
    \A c \in Conns :
      (\E k \in DOMAIN backlog : backlog[k] = c)
        ~> (fd[c] # NoFd \/ TableFull \/ Blocked \/ pc = "smashed")

Phase(c) == CASE peer[c] = "new" -> "none"
              [] peer[c] = "over" -> "released"
              [] fd[c] # NoFd -> "served"
              [] OTHER -> "queued"

Service == INSTANCE ConnService WITH
  phase <- [c \in Conns |-> Phase(c)],
  unread <- inbuf,
  ended <- [c \in Conns |-> peer[c] \in {"fin", "rst", "over"}]

(* All builds give clients the same service: nothing is read of a          *)
(* connection that is not accepted, and none is closed before its client   *)
(* has ended it and everything it sent has been read.                      *)
ImplementsService == Service!Spec
=============================================================================
