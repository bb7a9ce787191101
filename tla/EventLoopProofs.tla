-------------------------- MODULE EventLoopProofs --------------------------
(***************************************************************************)
(* What the event loop guarantees for every build, any number of clients   *)
(* and descriptors and any size of pfds and of epoll's batches: it watches *)
(* what it has open, it blocks nowhere but on a fresh slot of pfds and in  *)
(* the scan after a failed select, and whatever way it waits it gives      *)
(* clients the service of ConnService.                                     *)
(***************************************************************************)
EXTENDS EventLoop, FiniteSetTheorems, SequenceTheorems, WellFoundedInduction, TLAPS

Pcs == {"wait", "scan", "blind", "smashed"}
PeerStates == {"new", "up", "fin", "rst", "over"}

HostTypes == build \in Builds /\ inherited \in Inherited

LoopTypes ==
  /\ pc \in Pcs
  /\ rset \in SUBSET (Fds \cup {StrayBit}) /\ todo \in SUBSET Fds /\ max \in Fds
  /\ pfds \in Seq(Slot) /\ Len(pfds) <= POLL_MAX /\ i \in 1 .. POLL_MAX + 1

NetTypes ==
  /\ fd \in [Conns -> Fds \cup {NoFd}]
  /\ peer \in [Conns -> PeerStates]
  /\ backlog \in Seq(Conns) /\ Len(backlog) <= Backlog
  /\ inbuf \in [Conns -> Nat] /\ left \in [Conns -> Nat]
  /\ \A c \in Conns : inbuf[c] + left[c] <= MaxSends
  /\ udpq \in 0 .. MaxUdp

(* A connection is new, queued once, accepted, or over.                    *)
Placed ==
  /\ \A c \in Conns : peer[c] \in {"new", "over"} => fd[c] = NoFd
  /\ \A k \in DOMAIN backlog : /\ peer[backlog[k]] \in {"up", "fin", "rst"}
                               /\ fd[backlog[k]] = NoFd
  /\ \A j, k \in DOMAIN backlog : backlog[j] = backlog[k] => j = k

(* The descriptors of the process: its two sockets and its clients'.       *)
Mine == {udpsock, tcpsock} \cup ({fd[c] : c \in Conns} \ {NoFd})

FdsApart ==
  /\ \A c \in Conns : fd[c] # NoFd => fd[c] \notin inherited \cup {udpsock, tcpsock}
  /\ \A c, d \in Conns : fd[c] = fd[d] /\ fd[c] # NoFd => c = d

(* Each build uses its own variables; select looks no higher than max, and *)
(* has one bit that need not be a descriptor's.                            *)
OneBuild ==
  /\ build = "poll" => rset = {} /\ todo = {}
  /\ build # "poll" => pfds = <<>> /\ pc # "smashed"
  /\ build # "select" => pc # "blind"
  /\ build = "epoll" => rset = Mine
  /\ build = "select" => /\ Mine \subseteq rset /\ rset \subseteq Mine \cup {StrayBit}
                         /\ \A f \in Mine : f <= max

(* A descriptor has one slot of pfds, which has no others than ours.       *)
Slots ==
  /\ \A s, t \in DOMAIN pfds : pfds[s].fd = pfds[t].fd /\ pfds[s].fd # NoFd => s = t
  /\ build = "poll" /\ pc # "smashed" =>
       /\ \A s \in DOMAIN pfds : pfds[s].fd # NoFd => pfds[s].fd \in Mine
       /\ \A f \in Mine : \E s \in DOMAIN pfds : pfds[s].fd = f

(* What is still to be visited can be read, unless its mark is garbage or  *)
(* the wait failed.                                                        *)
Marks ==
  pc = "scan" =>
    /\ \A f \in todo : f \in Mine /\ Ready(f)
    /\ \A s \in DOMAIN pfds :
         s >= i /\ pfds[s].in /\ ~ pfds[s].fresh => pfds[s].fd # NoFd /\ Ready(pfds[s].fd)

IInv == /\ HostTypes /\ LoopTypes /\ NetTypes
        /\ Placed /\ FdsApart /\ OneBuild /\ Slots /\ Marks

-----------------------------------------------------------------------------
(* Descriptors.                                                            *)

(* A nonempty set of numbers has a least one.                              *)
LEMMA HasLeast ==
  ASSUME NEW T, T \subseteq Nat, T # {}
  PROVE  \E x \in T : \A y \in T : x <= y
<1>1. PICK x \in T : \A y \in T : ~ (<<y, x>> \in OpToRel(<, Nat))
  BY NatLessThanWellFounded, WFMin
<1>2. \A y \in T : ~ (y < x)
  BY <1>1 DEF OpToRel
<1> QED BY <1>2

(* Descriptors are numbers, -1 is none.                                    *)
LEMMA FdsNumbers == Fds \subseteq Nat /\ NoFd \notin Fds
BY LoopAssumption DEF Fds, NoFd

(* The kernel gives a descriptor that was free, if there is one.           *)
LEMMA LowestIsFree ==
  ASSUME NEW used, Fds \ used # {}
  PROVE  LowestFree(used) \in Fds \ used
<1>1. \E f \in Fds \ used : \A g \in Fds \ used : f <= g
  BY HasLeast, FdsNumbers
<1> QED BY <1>1 DEF LowestFree

(* The two sockets of main() are new descriptors, and different.           *)
LEMMA Sockets ==
  ASSUME HostTypes
  PROVE  /\ udpsock \in Fds /\ tcpsock \in Fds /\ udpsock # tcpsock
         /\ udpsock \notin inherited /\ tcpsock \notin inherited
<1>1. Cardinality(Fds \ inherited) >= 2
  BY LoopAssumption DEF HostTypes
<1>2. Fds \ inherited # {}
  BY <1>1, FS_EmptySet
<1>3. udpsock \in Fds \ inherited
  BY <1>2, LowestIsFree DEF udpsock
<1>4. Fds \ inherited # {udpsock}
  BY <1>1, FS_Singleton
<1>5. Fds \ (inherited \cup {udpsock}) # {}
  BY <1>3, <1>4
<1>6. tcpsock \in Fds \ (inherited \cup {udpsock})
  BY <1>5, LowestIsFree DEF tcpsock
<1> QED BY <1>3, <1>6

(* What the process has open is its own and what it inherited.             *)
LEMMA OpenIsMine ==
  ASSUME HostTypes, NetTypes, FdsApart
  PROVE  /\ OpenFds = inherited \cup Mine /\ OpenFds \ inherited = Mine
         /\ Mine \subseteq Fds /\ OpenFds \subseteq Fds
<1>1. inherited \subseteq Fds
  BY LoopAssumption DEF HostTypes
<1>2. Mine \subseteq Fds
  BY Sockets DEF Mine, NetTypes
<1>3. Mine \cap inherited = {}
  BY Sockets DEF Mine, FdsApart
<1> QED BY <1>1, <1>2, <1>3 DEF OpenFds, Mine

(* The sockets stay what they are.                                         *)
LEMMA SocketsStay ==
  ASSUME UNCHANGED host
  PROVE  udpsock' = udpsock /\ tcpsock' = tcpsock
BY DEF host, udpsock, tcpsock, LowestFree

-----------------------------------------------------------------------------
(* Sequences.                                                              *)

(* Taking out slot k moves the slots behind it down by one.                *)
LEMMA Removed ==
  ASSUME NEW S, NEW s \in Seq(S), NEW k \in 1 .. Len(s)
  PROVE  /\ RemoveAt(s, k) \in Seq(S) /\ Len(RemoveAt(s, k)) = Len(s) - 1
         /\ \A j \in 1 .. Len(s) - 1 : RemoveAt(s, k)[j] = IF j < k THEN s[j] ELSE s[j + 1]
<1> DEFINE low == SubSeq(s, 1, k - 1)
           high == SubSeq(s, k + 1, Len(s))
<1>1. /\ low \in Seq(S) /\ Len(low) = k - 1
      /\ \A j \in 1 .. k - 1 : low[j] = s[j]
  OBVIOUS
<1>2. /\ high \in Seq(S) /\ Len(high) = Len(s) - k
      /\ \A j \in 1 .. Len(s) - k : high[j] = s[k + j]
  <2>1. k + 1 \in Int /\ Len(s) \in Int /\ \A j \in k + 1 .. Len(s) : s[j] \in S
    OBVIOUS
  <2>2. /\ high \in Seq(S)
        /\ Len(high) = IF k + 1 <= Len(s) THEN Len(s) - (k + 1) + 1 ELSE 0
        /\ \A j \in 1 .. Len(s) - (k + 1) + 1 : high[j] = s[(k + 1) + j - 1]
    BY <2>1, SubSeqProperties
  <2> HIDE DEF high
  <2>3. Len(high) = Len(s) - k
    BY <2>2
  <2>4. ASSUME NEW j \in 1 .. Len(s) - k PROVE high[j] = s[k + j]
    <3>1. j \in 1 .. Len(s) - (k + 1) + 1 /\ (k + 1) + j - 1 = k + j
      OBVIOUS
    <3> QED BY <2>2, <3>1
  <2> QED BY <2>2, <2>3, <2>4
<1>3. RemoveAt(s, k) = low \o high
  BY DEF RemoveAt
<1> HIDE DEF low, high
<1>4. /\ low \o high \in Seq(S) /\ Len(low \o high) = Len(s) - 1
      /\ \A j \in 1 .. Len(s) - 1 :
           (low \o high)[j] = IF j <= k - 1 THEN low[j] ELSE high[j - (k - 1)]
  <2>1. /\ low \o high \in Seq(S) /\ Len(low \o high) = Len(low) + Len(high)
        /\ \A j \in 1 .. Len(low) + Len(high) :
             (low \o high)[j] = IF j <= Len(low) THEN low[j] ELSE high[j - Len(low)]
    BY <1>1, <1>2, ConcatProperties
  <2>2. Len(low) + Len(high) = Len(s) - 1
    BY <1>1, <1>2
  <2> QED BY <1>1, <2>1, <2>2
<1>5. ASSUME NEW j \in 1 .. Len(s) - 1
      PROVE  (low \o high)[j] = IF j < k THEN s[j] ELSE s[j + 1]
  <2>1. CASE j < k
    BY <1>1, <1>4, <2>1
  <2>2. CASE ~ (j < k)
    <3>1. j - (k - 1) \in 1 .. Len(s) - k /\ k + (j - (k - 1)) = j + 1
      BY <2>2
    <3> QED BY <1>2, <1>4, <2>2, <3>1
  <2> QED BY <2>1, <2>2
<1> QED BY <1>3, <1>4, <1>5

(* A queue that grows keeps what it has and where.                         *)
LEMMA QueueAppend ==
  ASSUME NEW S, NEW s \in Seq(S), NEW e \in S
  PROVE  /\ Append(s, e) \in Seq(S) /\ Len(Append(s, e)) = Len(s) + 1
         /\ DOMAIN s = 1 .. Len(s) /\ DOMAIN Append(s, e) = 1 .. Len(s) + 1
         /\ \A k \in 1 .. Len(s) : Append(s, e)[k] = s[k]
         /\ Append(s, e)[Len(s) + 1] = e
OBVIOUS

(* The rest of a queue is the queue one place further on.                  *)
LEMMA QueueTail ==
  ASSUME NEW S, NEW s \in Seq(S), s # <<>>
  PROVE  /\ 1 \in DOMAIN s /\ Head(s) = s[1] /\ Head(s) \in S /\ Tail(s) \in Seq(S)
         /\ Len(Tail(s)) < Len(s)
         /\ \A k \in DOMAIN Tail(s) : /\ k \in Nat \ {0} /\ k + 1 \in DOMAIN s
                                      /\ Tail(s)[k] = s[k + 1]
OBVIOUS

-----------------------------------------------------------------------------
(* main() up to the loop.                                                  *)
LEMMA InitIInv == Init => IInv
<1> SUFFICES ASSUME Init PROVE IInv
  OBVIOUS
<1>1. HostTypes
  BY DEF Init, HostTypes
<1>2. /\ udpsock \in Fds /\ tcpsock \in Fds /\ udpsock # tcpsock
      /\ Fds \subseteq Nat /\ NoFd \notin Fds
  BY <1>1, Sockets, FdsNumbers
<1>3. Mine = {udpsock, tcpsock} /\ \A c \in Conns : fd[c] = NoFd
  BY DEF Init, Mine
<1>4. /\ build = "poll" => /\ Len(pfds) = 2 /\ pfds \in Seq(Slot) /\ DOMAIN pfds = {1, 2}
                           /\ pfds[1].fd = tcpsock /\ pfds[2].fd = udpsock
      /\ build # "poll" => pfds = <<>> /\ pfds \in Seq(Slot) /\ Len(pfds) = 0
                           /\ DOMAIN pfds = {}
  <2>1. CASE build = "poll"
    <3> DEFINE a == [fd |-> tcpsock, in |-> FALSE, fresh |-> TRUE]
               b == [fd |-> udpsock, in |-> FALSE, fresh |-> TRUE]
    <3>1. pfds = <<a, b>> /\ a \in Slot /\ b \in Slot
      BY <1>2, <2>1 DEF Init, Slot
    <3>2. a.fd = tcpsock /\ b.fd = udpsock
      OBVIOUS
    <3> HIDE DEF a, b
    <3> QED BY <2>1, <3>1, <3>2
  <2>2. CASE build # "poll"
    BY <2>2 DEF Init
  <2> QED BY <2>1, <2>2
<1>5. LoopTypes
  BY <1>2, <1>4, LoopAssumption DEF Init, LoopTypes, Pcs
<1>6. NetTypes
  BY LoopAssumption DEF Init, NetTypes, PeerStates
<1>7. Placed /\ FdsApart
  BY <1>3 DEF Init, Placed, FdsApart
<1>8. OneBuild
  BY <1>2, <1>3, <1>4 DEF Init, OneBuild
<1>9. Slots
  BY <1>2, <1>3, <1>4 DEF Slots
<1>10. Marks
  BY DEF Init, Marks
<1> QED BY <1>1, <1>5, <1>6, <1>7, <1>8, <1>9, <1>10 DEF IInv

-----------------------------------------------------------------------------
(* The variables of the loop.                                              *)

(* The host is as it was.                                                  *)
LEMMA HostStep == ASSUME HostTypes, Next PROVE HostTypes' /\ UNCHANGED host
<1>1. UNCHANGED host
  BY DEF Next, Server, Peers, Wait, WaitFails, Poll, SkipSlot, EndScan, Accept, AcceptFails,
         RecvFrom, RecvClosed, Recv, Disconnect, Datagram, Connect, Send, Hangup, host
<1> QED BY <1>1 DEF HostTypes, host

(* The scan goes on to a place within its bounds.                          *)
LEMMA VisitedTyped ==
  ASSUME LoopTypes, NEW f, At(f), Visited(f)
  PROVE  todo' \in SUBSET Fds /\ i' \in 1 .. POLL_MAX + 1
BY LoopAssumption DEF LoopTypes, At, Visited

(* What accept returned is watched, -1 too.                                *)
LEMMA WatchTyped ==
  ASSUME LoopTypes, NEW f \in Fds \cup {NoFd}, Watch(f)
  PROVE  /\ pc' \in Pcs /\ rset' \in SUBSET (Fds \cup {StrayBit}) /\ max' \in Fds
         /\ pfds' \in Seq(Slot) /\ Len(pfds') <= POLL_MAX
<1>1. CASE build \in {"select", "epoll"}
  <2>1. max' \in Fds
    BY <1>1, FdsNumbers DEF Watch, set_max, LoopTypes, NoFd
  <2>2. rset' \in SUBSET (Fds \cup {StrayBit})
    BY <1>1 DEF Watch, LoopTypes
  <2>3. UNCHANGED <<pc, pfds>>
    BY <1>1 DEF Watch
  <2> QED BY <2>1, <2>2, <2>3 DEF LoopTypes
<1>2. CASE build = "poll" /\ Len(pfds) < POLL_MAX
  <2>1. Len(pfds) # POLL_MAX
    BY <1>2, LoopAssumption DEF LoopTypes
  <2>2. PICK garbage \in BOOLEAN :
          pfds' = Append(pfds, [fd |-> f, in |-> garbage, fresh |-> TRUE])
    BY <1>2, <2>1, Zenon DEF Watch
  <2>3. [fd |-> f, in |-> garbage, fresh |-> TRUE] \in Slot
    BY DEF Slot
  <2>4. pfds' \in Seq(Slot) /\ Len(pfds') <= POLL_MAX
    BY <1>2, <2>2, <2>3, LoopAssumption, QueueAppend DEF LoopTypes
  <2>5. UNCHANGED <<pc, rset, max>>
    BY <1>2, <2>1 DEF Watch
  <2> QED BY <2>4, <2>5 DEF LoopTypes
<1>3. CASE build = "poll" /\ Len(pfds) = POLL_MAX
  BY <1>3, LoopAssumption DEF Watch, LoopTypes, Pcs
<1> QED BY <1>1, <1>2, <1>3 DEF Watch

(* poll writes every slot and moves none.                                  *)
LEMMA Polled ==
  ASSUME LoopTypes, Poll
  PROVE  /\ pfds' \in Seq(Slot) /\ Len(pfds') = Len(pfds) /\ DOMAIN pfds' = DOMAIN pfds
         /\ \A s \in DOMAIN pfds : /\ pfds'[s].fd = pfds[s].fd
                                   /\ pfds'[s].in <=> Ready(pfds[s].fd)
                                   /\ ~ pfds'[s].fresh
<1> DEFINE new(s) == [fd |-> pfds[s].fd, in |-> Ready(pfds[s].fd), fresh |-> FALSE]
<1>1. DOMAIN pfds = 1 .. Len(pfds) /\ Len(pfds) \in Nat
      /\ \A s \in 1 .. Len(pfds) : pfds[s].fd \in Fds \cup {NoFd}
  <2>1. DOMAIN pfds = 1 .. Len(pfds) /\ Len(pfds) \in Nat
        /\ \A s \in 1 .. Len(pfds) : pfds[s] \in Slot
    BY DEF LoopTypes
  <2> QED BY <2>1 DEF Slot
<1>2. \A s \in 1 .. Len(pfds) : new(s) \in Slot
  <2>1. \A f : Ready(f) \in BOOLEAN
    BY Zenon DEF Ready
  <2> QED BY <1>1, <2>1, Zenon DEF Slot
<1>3. pfds' = [s \in 1 .. Len(pfds) |-> new(s)]
  BY <1>1 DEF Poll
<1>4. \A s : new(s).fd = pfds[s].fd /\ (new(s).in <=> Ready(pfds[s].fd)) /\ ~ new(s).fresh
  OBVIOUS
<1> HIDE DEF new
<1>5. \A s \in 1 .. Len(pfds) : pfds'[s] = new(s)
  BY <1>3
<1>6. pfds' \in Seq(Slot) /\ Len(pfds') = Len(pfds) /\ DOMAIN pfds' = 1 .. Len(pfds)
  BY <1>1, <1>2, <1>3
<1> QED BY <1>1, <1>4, <1>5, <1>6

(* The slot that is taken out is one of pfds.                              *)
LEMMA Unwatched ==
  ASSUME LoopTypes, NEW f, At(f), Unwatch(f)
  PROVE  /\ rset' \in SUBSET (Fds \cup {StrayBit}) /\ pfds' \in Seq(Slot) /\ Len(pfds') <= POLL_MAX
         /\ todo' \in SUBSET Fds /\ i' \in 1 .. POLL_MAX + 1
<1>1. todo' \in SUBSET Fds /\ i' \in 1 .. POLL_MAX + 1
      /\ rset' \in SUBSET (Fds \cup {StrayBit})
  BY VisitedTyped DEF Unwatch, LoopTypes
<1>2. CASE build = "poll"
  <2>1. pfds' = RemoveAt(pfds, i) /\ i \in 1 .. Len(pfds)
    BY <1>2 DEF Unwatch, At, LoopTypes
  <2>2. pfds' \in Seq(Slot) /\ Len(pfds') = Len(pfds) - 1
    BY <2>1, Removed DEF LoopTypes
  <2> QED BY <1>1, <2>2, LoopAssumption DEF LoopTypes
<1>3. CASE build # "poll"
  BY <1>1, <1>3 DEF Unwatch, LoopTypes
<1> QED BY <1>2, <1>3

(* The descriptor of an accepted connection is new.                        *)
LEMMA NewFd ==
  ASSUME IInv, ~ TableFull
  PROVE  LowestFree(OpenFds) \in Fds \ (inherited \cup Mine)
<1>1. OpenFds = inherited \cup Mine /\ OpenFds \subseteq Fds
  BY OpenIsMine DEF IInv
<1>2. Fds \ OpenFds # {}
  BY <1>1 DEF TableFull
<1> QED BY <1>1, <1>2, LowestIsFree

(* A descriptor that is ready is one of the loop's own.                    *)
LEMMA ReadyIsMine == ASSUME NEW f, Ready(f) PROVE f \in Mine
BY Zenon DEF Ready, Mine

(* What a wait finds is ready, and a failed select leaves descriptors.     *)
LEMMA WaitFinds ==
  ASSUME IInv, Wait
  PROVE  \A f \in todo' : f \in Mine /\ Ready(f)
<1>1. todo' \subseteq Found
  BY DEF Wait, Batches
<1> QED BY <1>1, ReadyIsMine DEF Found

(* The variables of the loop keep their types.                             *)
LEMMA LoopStep == ASSUME IInv, Next PROVE LoopTypes'
<1> USE DEF IInv
<1>1. CASE Wait
  <2>1. todo' \subseteq Fds
    BY <1>1, WaitFinds, OpenIsMine
  <2> QED BY <1>1, <2>1 DEF Wait, LoopTypes, Pcs
<1>10. CASE WaitFails
  <2>1. ASSUME NEW f \in Looked PROVE f \in Fds
    <3>1. f \in Fds \cup {StrayBit} /\ f <= max /\ max \in Fds
      BY <1>10 DEF Looked, LoopTypes, WaitFails, BadFd
    <3> QED BY <3>1, LoopAssumption DEF Fds
  <2> QED BY <1>10, <2>1 DEF WaitFails, LoopTypes, Pcs
<1>2. CASE Poll
  <2>1. i' \in 1 .. POLL_MAX + 1 /\ pc' \in Pcs /\ UNCHANGED <<rset, max, todo>>
    BY <1>2, LoopAssumption DEF Poll, Pcs
  <2> QED BY <1>2, <2>1, Polled DEF LoopTypes
<1>3. CASE SkipSlot \/ EndScan
  BY <1>3, LoopAssumption DEF SkipSlot, EndScan, LoopTypes, Pcs
<1>4. CASE Accept \/ AcceptFails
  <2>1. PICK f \in Fds \cup {NoFd} : Watch(f)
    BY <1>4, NewFd DEF Accept, AcceptFails
  <2>2. At(tcpsock) /\ Visited(tcpsock)
    BY <1>4 DEF Accept, AcceptFails
  <2> QED BY <2>1, <2>2, WatchTyped, VisitedTyped DEF LoopTypes
<1>5. ASSUME NEW f, At(f), Visited(f), UNCHANGED <<pc, rset, max, pfds>> PROVE LoopTypes'
  BY <1>5, VisitedTyped DEF LoopTypes
<1>6. ASSUME NEW f, At(f), Unwatch(f), UNCHANGED <<pc, max>> PROVE LoopTypes'
  BY <1>6, Unwatched DEF LoopTypes
<1>7. CASE RecvFrom \/ (\E f \in {NoFd, StrayBit} : RecvClosed(f)) \/ \E c \in Conns : Recv(c)
  BY <1>5, <1>7 DEF RecvFrom, RecvClosed, Recv
<1>8. CASE \E c \in Conns : Disconnect(c)
  BY <1>6, <1>8 DEF Disconnect
<1>9. CASE Peers
  BY <1>9 DEF Peers, Datagram, Connect, Send, Hangup, loopVars, LoopTypes
<1> QED BY <1>1, <1>2, <1>3, <1>4, <1>7, <1>8, <1>9, <1>10 DEF Next, Server

-----------------------------------------------------------------------------
(* The connections and their descriptors.                                  *)

(* Accept gives the head of the queue the descriptor g.                    *)
AcceptedAs(g) ==
  /\ backlog # <<>> /\ g \in Fds \ (inherited \cup Mine)
  /\ fd' = [fd EXCEPT ![Head(backlog)] = g] /\ backlog' = Tail(backlog)
  /\ UNCHANGED <<host, peer, inbuf, left, udpq>>

(* This is what accept does to the connections.                            *)
LEMMA AcceptEffect ==
  ASSUME IInv, Accept
  PROVE  AcceptedAs(LowestFree(OpenFds)) /\ Watch(LowestFree(OpenFds))
BY NewFd DEF Accept, AcceptedAs

(* The connection that is accepted waits for it and has no descriptor.     *)
LEMMA HeadWaits ==
  ASSUME IInv, backlog # <<>>
  PROVE  /\ Head(backlog) \in Conns /\ fd[Head(backlog)] = NoFd
         /\ peer[Head(backlog)] \in {"up", "fin", "rst"}
         /\ \A k \in DOMAIN Tail(backlog) : Tail(backlog)[k] # Head(backlog)
<1> USE DEF IInv
<1>1. /\ 1 \in DOMAIN backlog /\ Head(backlog) = backlog[1] /\ Head(backlog) \in Conns
      /\ \A k \in DOMAIN Tail(backlog) : /\ k \in Nat \ {0} /\ k + 1 \in DOMAIN backlog
                                         /\ Tail(backlog)[k] = backlog[k + 1]
  BY QueueTail DEF NetTypes
<1>2. ASSUME NEW k \in DOMAIN Tail(backlog) PROVE Tail(backlog)[k] # Head(backlog)
  <2>1. k + 1 # 1
    BY <1>1
  <2> QED BY <1>1, <2>1 DEF Placed
<1> QED BY <1>1, <1>2 DEF Placed

(* The variables of the connections keep their types.                      *)
LEMMA NetStep == ASSUME IInv, Next PROVE NetTypes'
<1> USE DEF IInv
<1>1. CASE UNCHANGED <<fd, netVars>>
  BY <1>1 DEF netVars, NetTypes
<1>2. CASE Accept
  <2>1. AcceptedAs(LowestFree(OpenFds))
    BY <1>2, AcceptEffect
  <2>2. fd' \in [Conns -> Fds \cup {NoFd}]
    BY <2>1 DEF AcceptedAs, NetTypes
  <2>3. backlog' \in Seq(Conns) /\ Len(backlog') <= Backlog
    BY <2>1, QueueTail, LoopAssumption DEF AcceptedAs, NetTypes
  <2> QED BY <2>1, <2>2, <2>3 DEF AcceptedAs, NetTypes
<1>3. CASE RecvFrom
  BY <1>3, LoopAssumption DEF RecvFrom, NetTypes
<1>4. ASSUME NEW c \in Conns, Recv(c) PROVE NetTypes'
  <2>1. CASE inbuf[c] > 0 /\ inbuf' = [inbuf EXCEPT ![c] = @ - 1] /\ UNCHANGED peer
    <3>1. inbuf[c] \in Nat /\ inbuf'[c] = inbuf[c] - 1 /\ left[c] \in Nat
          /\ \A d \in Conns : d # c => inbuf'[d] = inbuf[d]
      BY <2>1 DEF NetTypes
    <3>2. inbuf' \in [Conns -> Nat]
      BY <2>1 DEF NetTypes
    <3>3. \A d \in Conns : inbuf'[d] + left[d] <= MaxSends
      BY <2>1, <3>1, LoopAssumption DEF NetTypes
    <3>4. UNCHANGED <<fd, backlog, left, udpq, peer>>
      BY <1>4, <2>1 DEF Recv
    <3> QED BY <3>2, <3>3, <3>4 DEF NetTypes
  <2>2. CASE peer' = [peer EXCEPT ![c] = "fin"] /\ UNCHANGED inbuf
    BY <1>4, <2>2 DEF Recv, NetTypes, PeerStates
  <2> QED BY <1>4, <2>1, <2>2 DEF Recv
<1>5. ASSUME NEW c \in Conns, Disconnect(c) PROVE NetTypes'
  <2>1. fd' \in [Conns -> Fds \cup {NoFd}] /\ peer' \in [Conns -> PeerStates]
    BY <1>5 DEF Disconnect, NetTypes, PeerStates
  <2> QED BY <1>5, <2>1 DEF Disconnect, NetTypes
<1>6. CASE Datagram
  BY <1>6, LoopAssumption DEF Datagram, NetTypes
<1>7. ASSUME NEW c \in Conns, Connect(c) PROVE NetTypes'
  <2>1. peer' \in [Conns -> PeerStates]
    BY <1>7 DEF Connect, NetTypes, PeerStates
  <2>2. backlog' \in Seq(Conns) /\ Len(backlog') <= Backlog
    BY <1>7, QueueAppend, LoopAssumption DEF Connect, NetTypes
  <2> QED BY <1>7, <2>1, <2>2 DEF Connect, NetTypes
<1>8. ASSUME NEW c \in Conns, Send(c) PROVE NetTypes'
  <2>1. /\ inbuf[c] \in Nat /\ left[c] \in Nat /\ left[c] > 0
        /\ inbuf'[c] = inbuf[c] + 1 /\ left'[c] = left[c] - 1
        /\ \A d \in Conns : d # c => inbuf'[d] = inbuf[d] /\ left'[d] = left[d]
    BY <1>8 DEF Send, NetTypes
  <2>2. inbuf' \in [Conns -> Nat] /\ left' \in [Conns -> Nat]
    BY <1>8, <2>1 DEF Send, NetTypes
  <2>3. ASSUME NEW d \in Conns PROVE inbuf'[d] + left'[d] <= MaxSends
    <3>1. inbuf[d] + left[d] <= MaxSends
      BY DEF NetTypes
    <3>2. CASE d = c
      <4>1. (inbuf[c] + 1) + (left[c] - 1) = inbuf[c] + left[c]
        BY <2>1
      <4> QED BY <2>1, <3>1, <3>2, <4>1
    <3> QED BY <2>1, <3>1, <3>2
  <2> QED BY <1>8, <2>2, <2>3 DEF Send, NetTypes
<1>9. ASSUME NEW c \in Conns, Hangup(c) PROVE NetTypes'
  BY <1>9 DEF Hangup, NetTypes, PeerStates
<1>10. CASE \/ Wait \/ WaitFails \/ Poll \/ SkipSlot \/ EndScan \/ AcceptFails
            \/ \E f \in {NoFd, StrayBit} : RecvClosed(f)
  BY <1>1, <1>10 DEF Wait, WaitFails, Poll, SkipSlot, EndScan, AcceptFails, RecvClosed
<1> QED BY <1>2, <1>3, <1>4, <1>5, <1>6, <1>7, <1>8, <1>9, <1>10 DEF Next, Server, Peers

(* No connection is queued twice, or queued and accepted, and no two have  *)
(* the same descriptor.                                                    *)
LEMMA PlacedStep == ASSUME IInv, Next PROVE Placed' /\ FdsApart'
<1> USE DEF IInv
<1>1. udpsock' = udpsock /\ tcpsock' = tcpsock /\ inherited' = inherited
  BY HostStep, SocketsStay DEF host
<1>2. CASE UNCHANGED <<fd, peer, backlog>>
  BY <1>1, <1>2 DEF Placed, FdsApart
<1>3. CASE Accept
  <2> DEFINE g == LowestFree(OpenFds)
             h == Head(backlog)
  <2>1. AcceptedAs(g)
    BY <1>3, AcceptEffect
  <2>2. /\ h \in Conns /\ fd[h] = NoFd /\ peer[h] \in {"up", "fin", "rst"}
        /\ \A k \in DOMAIN Tail(backlog) : Tail(backlog)[k] # h
    BY <2>1, HeadWaits DEF AcceptedAs
  <2>3. /\ g \in Fds \ (inherited \cup Mine) /\ fd' = [fd EXCEPT ![h] = g]
        /\ backlog' = Tail(backlog) /\ peer' = peer /\ backlog # <<>>
    BY <2>1 DEF AcceptedAs
  <2> HIDE DEF g, h
  <2>4. fd'[h] = g /\ \A c \in Conns : c # h => fd'[c] = fd[c]
    BY <2>2, <2>3 DEF NetTypes
  <2>5. \A k \in DOMAIN backlog' : /\ k \in Nat \ {0} /\ k + 1 \in DOMAIN backlog
                                   /\ backlog'[k] = backlog[k + 1] /\ backlog'[k] \in Conns
    <3>1. backlog \in Seq(Conns)
      BY DEF NetTypes
    <3>2. Tail(backlog) \in Seq(Conns)
      BY <2>3, <3>1, QueueTail
    <3> QED BY <2>3, <3>1, <3>2, QueueTail
  <2>6. Placed'
    <3>1. \A c \in Conns : peer'[c] \in {"new", "over"} => fd'[c] = NoFd
      BY <2>2, <2>3, <2>4 DEF Placed
    <3>2. \A k \in DOMAIN backlog' : /\ peer'[backlog'[k]] \in {"up", "fin", "rst"}
                                     /\ fd'[backlog'[k]] = NoFd
      BY <2>2, <2>3, <2>4, <2>5 DEF Placed
    <3>3. ASSUME NEW j \in DOMAIN backlog', NEW k \in DOMAIN backlog',
                 backlog'[j] = backlog'[k]
          PROVE  j = k
      <4>1. j + 1 = k + 1
        BY <2>5, <3>3 DEF Placed
      <4> QED BY <2>5, <4>1
    <3> QED BY <3>1, <3>2, <3>3 DEF Placed
  <2>7. FdsApart'
    <3>1. \A c \in Conns : fd[c] # g /\ g # udpsock /\ g # tcpsock /\ g \notin inherited
      BY <2>3, FdsNumbers DEF Mine
    <3> QED BY <1>1, <2>2, <2>4, <3>1 DEF FdsApart
  <2> QED BY <2>6, <2>7
<1>4. ASSUME NEW c \in Conns, Recv(c) PROVE Placed' /\ FdsApart'
  <2>1. UNCHANGED <<fd, backlog>>
    BY <1>4 DEF Recv
  <2>2. peer' = peer \/ (peer[c] = "rst" /\ peer' = [peer EXCEPT ![c] = "fin"])
    BY <1>4 DEF Recv
  <2>3. /\ \A d \in Conns : peer'[d] = peer[d] \/ (peer[d] = "rst" /\ peer'[d] = "fin")
        /\ \A k \in DOMAIN backlog : backlog[k] \in Conns
    BY <2>2 DEF NetTypes
  <2> QED BY <1>1, <2>1, <2>3 DEF Placed, FdsApart
<1>5. ASSUME NEW c \in Conns, Disconnect(c) PROVE Placed' /\ FdsApart'
  <2>1. /\ fd[c] # NoFd /\ fd'[c] = NoFd /\ peer'[c] = "over" /\ backlog' = backlog
        /\ \A d \in Conns : d # c => fd'[d] = fd[d] /\ peer'[d] = peer[d]
    BY <1>5 DEF Disconnect, NetTypes
  <2>2. \A k \in DOMAIN backlog : backlog[k] # c /\ backlog[k] \in Conns
    BY <2>1 DEF Placed, NetTypes
  <2> QED BY <1>1, <2>1, <2>2 DEF Placed, FdsApart
<1>6. ASSUME NEW c \in Conns, Connect(c) PROVE Placed' /\ FdsApart'
  <2>1. /\ peer[c] = "new" /\ peer'[c] = "up" /\ fd' = fd /\ fd[c] = NoFd
        /\ backlog' = Append(backlog, c)
        /\ \A d \in Conns : d # c => peer'[d] = peer[d]
    BY <1>6 DEF Connect, NetTypes, Placed
  <2>2. \A k \in DOMAIN backlog : backlog[k] # c /\ backlog[k] \in Conns
    <3>1. \A k \in DOMAIN backlog : backlog[k] \in Conns
      BY DEF NetTypes
    <3>2. \A k \in DOMAIN backlog : peer[backlog[k]] # "new"
      BY DEF Placed
    <3> QED BY <2>1, <3>1, <3>2
  <2>3. \A k \in DOMAIN backlog' :
          \/ k \in DOMAIN backlog /\ backlog'[k] = backlog[k]
          \/ k = Len(backlog) + 1 /\ backlog'[k] = c
    BY <2>1, QueueAppend DEF NetTypes
  <2> QED BY <1>1, <2>1, <2>2, <2>3 DEF Placed, FdsApart
<1>7. ASSUME NEW c \in Conns, Hangup(c) PROVE Placed' /\ FdsApart'
  <2>1. /\ fd' = fd /\ backlog' = backlog /\ peer[c] = "up" /\ peer'[c] \in {"fin", "rst"}
        /\ \A d \in Conns : d # c => peer'[d] = peer[d]
    BY <1>7 DEF Hangup, NetTypes
  <2>2. \A k \in DOMAIN backlog : backlog[k] \in Conns
    BY DEF NetTypes
  <2> QED BY <1>1, <2>1, <2>2 DEF Placed, FdsApart
<1>8. CASE \/ Wait \/ WaitFails \/ Poll \/ SkipSlot \/ EndScan \/ AcceptFails \/ RecvFrom
           \/ Datagram \/ (\E f \in {NoFd, StrayBit} : RecvClosed(f)) \/ \E c \in Conns : Send(c)
  BY <1>2, <1>8 DEF Wait, WaitFails, Poll, SkipSlot, EndScan, AcceptFails, RecvFrom, RecvClosed,
                    Datagram, Send, netVars
<1> QED BY <1>3, <1>4, <1>5, <1>6, <1>7, <1>8 DEF Next, Server, Peers

-----------------------------------------------------------------------------
(* What is watched.                                                        *)

(* The loop's descriptors change only with the descriptors of connections. *)
LEMMA MineStays == ASSUME UNCHANGED <<host, fd>> PROVE Mine' = Mine
BY SocketsStay DEF Mine

(* accept adds one.                                                        *)
LEMMA MineGrows ==
  ASSUME IInv, NEW g, AcceptedAs(g)
  PROVE  /\ Mine' = Mine \cup {g} /\ g \notin Mine /\ g # NoFd /\ g \in Fds
         /\ \A c \in Conns : fd[c] # NoFd => fd'[c] = fd[c]
<1> USE DEF IInv
<1>1. udpsock' = udpsock /\ tcpsock' = tcpsock
  BY SocketsStay DEF AcceptedAs
<1>2. /\ fd[Head(backlog)] = NoFd /\ Head(backlog) \in Conns
      /\ g \in Fds \ (inherited \cup Mine) /\ fd' = [fd EXCEPT ![Head(backlog)] = g]
  BY HeadWaits DEF AcceptedAs
<1>3. fd'[Head(backlog)] = g /\ \A c \in Conns : c # Head(backlog) => fd'[c] = fd[c]
  BY <1>2 DEF NetTypes
<1>4. g # NoFd /\ g \in Fds
  BY <1>2, FdsNumbers
<1> QED BY <1>1, <1>2, <1>3, <1>4 DEF Mine

(* The end of a connection takes its descriptor away.                      *)
LEMMA MineShrinks ==
  ASSUME IInv, NEW c \in Conns, Disconnect(c)
  PROVE  /\ Mine' = Mine \ {fd[c]} /\ fd[c] \in Mine
         /\ \A d \in Conns : d # c => fd'[d] = fd[d]
         /\ \A d \in Conns : d # c => fd[d] # fd[c]
<1> USE DEF IInv
<1>1. udpsock' = udpsock /\ tcpsock' = tcpsock
  BY SocketsStay DEF Disconnect
<1>2. /\ fd[c] # NoFd /\ fd'[c] = NoFd
      /\ \A d \in Conns : d # c => fd'[d] = fd[d]
  BY DEF Disconnect, NetTypes
<1>3. /\ fd[c] # udpsock /\ fd[c] # tcpsock
      /\ \A d \in Conns : d # c => fd[d] # fd[c]
  BY <1>2 DEF FdsApart
<1> QED BY <1>1, <1>2, <1>3 DEF Mine

(* Steps that watch what was watched before.                               *)
Quiet == \/ Wait \/ WaitFails \/ SkipSlot \/ EndScan \/ RecvFrom \/ Peers
         \/ \E f \in {NoFd, StrayBit} : RecvClosed(f)
         \/ \E c \in Conns : Recv(c)

(* They leave the descriptors and the slots alone.                         *)
LEMMA QuietEffect ==
  ASSUME IInv, Quiet
  PROVE  /\ UNCHANGED <<build, fd, rset, max, pfds>> /\ Mine' = Mine
         /\ pc' = pc \/ (pc # "smashed" /\ pc' # "smashed")
         /\ build # "select" => pc' = pc \/ pc' # "blind"
         /\ todo' \subseteq todo \/ build # "poll"
<1>1. UNCHANGED <<host, fd, rset, max, pfds>>
  BY DEF Quiet, Wait, WaitFails, SkipSlot, EndScan, RecvFrom, RecvClosed, Peers, Datagram,
         Connect, Send, Hangup, Recv, loopVars
<1>2. pc' = pc \/ (pc # "smashed" /\ pc' # "smashed")
  BY DEF Quiet, Wait, WaitFails, Scanning, SkipSlot, EndScan, RecvFrom, RecvClosed, Peers, Datagram,
         Connect, Send, Hangup, Recv, loopVars
<1>3. build # "select" => pc' = pc \/ pc' # "blind"
  BY DEF Quiet, Wait, WaitFails, BadFd, SkipSlot, EndScan, RecvFrom, RecvClosed, Peers,
         Datagram, Connect, Send, Hangup, Recv, loopVars
<1>4. todo' \subseteq todo \/ build # "poll"
  BY DEF Quiet, Wait, WaitFails, BadFd, SkipSlot, EndScan, RecvFrom, RecvClosed, Peers,
         Datagram, Connect, Send, Hangup, Recv, loopVars, Visited
<1> QED BY <1>1, <1>2, <1>3, <1>4, MineStays DEF host

(* Each build keeps to its own variables and watches what is open.         *)
LEMMA BuildStep == ASSUME IInv, Next PROVE OneBuild'
<1> USE DEF IInv
<1>1. build' = build /\ UNCHANGED host
  BY HostStep DEF host
<1>2. CASE Quiet
  <2>1. /\ UNCHANGED <<build, rset, max, pfds>> /\ Mine' = Mine
        /\ pc' = pc \/ pc' # "smashed"
        /\ build # "select" => pc' = pc \/ pc' # "blind"
        /\ todo' \subseteq todo \/ build # "poll"
    BY <1>2, QuietEffect
  <2> QED BY <2>1 DEF OneBuild
<1>3. CASE Poll
  <2>1. UNCHANGED <<rset, max, todo, fd>> /\ build = "poll" /\ pc' # "blind"
    BY <1>3 DEF Poll
  <2> QED BY <1>1, <2>1 DEF OneBuild
<1>4. ASSUME NEW f \in Fds \cup {NoFd}, Watch(f), Visited(tcpsock),
             Mine' = Mine \cup ({f} \ {NoFd})
      PROVE  OneBuild'
  <2>1. CASE build = "poll"
    BY <1>1, <1>4, <2>1 DEF Watch, Visited, OneBuild
  <2>2. CASE build # "poll"
    <3>1. CASE build = "epoll"
      BY <1>1, <1>4, <3>1 DEF Watch, OneBuild
    <3>2. CASE build = "select"
      <4>1. /\ rset' = rset \cup {IF f = NoFd THEN StrayBit ELSE f} /\ UNCHANGED <<pc, pfds>>
            /\ max' = IF f > max THEN f ELSE max
        BY <1>4, <3>2 DEF Watch, set_max
      <4>2. Mine' \subseteq rset' /\ rset' \subseteq Mine' \cup {StrayBit}
        BY <1>4, <3>2, <4>1 DEF OneBuild
      <4>3. ASSUME NEW g \in Mine' PROVE g <= max'
        <5>1. Mine \subseteq Nat /\ \A e \in Mine : e <= max
          BY <3>2, FdsNumbers, OpenIsMine DEF OneBuild
        <5>2. max \in Nat /\ f \in Int
          BY <1>4, FdsNumbers DEF LoopTypes, NoFd
        <5> QED BY <1>4, <4>1, <4>3, <5>1, <5>2
      <4>4. pfds' = <<>> /\ pc' # "smashed" /\ build' = "select"
        BY <1>1, <3>2, <4>1 DEF OneBuild
      <4> QED BY <4>2, <4>3, <4>4 DEF OneBuild
    <3> QED BY <2>2, <3>1, <3>2, LoopAssumption DEF HostTypes
  <2> QED BY <2>1, <2>2
<1>5. CASE Accept
  <2>1. /\ AcceptedAs(LowestFree(OpenFds)) /\ Watch(LowestFree(OpenFds))
        /\ Visited(tcpsock)
    BY <1>5, AcceptEffect DEF Accept
  <2>2. /\ Mine' = Mine \cup {LowestFree(OpenFds)} /\ LowestFree(OpenFds) # NoFd
        /\ LowestFree(OpenFds) \in Fds
    BY <2>1, MineGrows
  <2> QED BY <1>4, <2>1, <2>2
<1>6. CASE AcceptFails
  <2>1. Watch(NoFd) /\ Visited(tcpsock) /\ Mine' = Mine
    BY <1>6, MineStays DEF AcceptFails
  <2> QED BY <1>4, <2>1
<1>7. ASSUME NEW c \in Conns, Disconnect(c) PROVE OneBuild'
  <2>1. Mine' = Mine \ {fd[c]}
    BY <1>7, MineShrinks
  <2>2. /\ rset' = rset \ {fd[c]} /\ todo' = todo \ {fd[c]} /\ UNCHANGED <<pc, max>>
        /\ build # "poll" => pfds' = pfds
    BY <1>7 DEF Disconnect, Unwatch, Visited
  <2> QED BY <1>1, <2>1, <2>2 DEF OneBuild
<1> QED BY <1>2, <1>3, <1>5, <1>6, <1>7 DEF Next, Server, Quiet

(* A descriptor that is accepted gets a slot of its own, the one that is   *)
(* closed loses its slot, and no slot is lost when the others move.        *)
LEMMA SlotsStep == ASSUME IInv, Next PROVE Slots'
<1> USE DEF IInv
<1>1. build' = build /\ UNCHANGED host
  BY HostStep DEF host
<1>2. CASE Quiet
  <2>1. /\ UNCHANGED <<build, pfds>> /\ Mine' = Mine
        /\ pc' = pc \/ (pc # "smashed" /\ pc' # "smashed")
    BY <1>2, QuietEffect
  <2> QED BY <2>1 DEF Slots
<1>3. CASE Poll
  <2>1. Mine' = Mine /\ pc # "smashed"
    BY <1>1, <1>3, MineStays DEF Poll
  <2>2. DOMAIN pfds' = DOMAIN pfds /\ \A s \in DOMAIN pfds : pfds'[s].fd = pfds[s].fd
    BY <1>3, Polled
  <2> QED BY <1>1, <2>1, <2>2 DEF Slots
<1>4. ASSUME NEW f \in Fds \cup {NoFd}, Watch(f), pc # "smashed", f \notin Mine,
             Mine' = Mine \cup ({f} \ {NoFd})
      PROVE  Slots'
  <2>1. CASE build # "poll"
    BY <1>1, <1>4, <2>1 DEF Watch, Slots, OneBuild
  <2>2. CASE build = "poll" /\ pc' = "smashed"
    <3>1. pfds' = pfds
      BY <1>4, <2>2 DEF Watch
    <3> QED BY <2>2, <3>1 DEF Slots
  <2>3. CASE build = "poll" /\ pc' # "smashed"
    <3>1. PICK garbage \in BOOLEAN :
            pfds' = Append(pfds, [fd |-> f, in |-> garbage, fresh |-> TRUE])
      BY <1>4, <2>3 DEF Watch
    <3> DEFINE new == [fd |-> f, in |-> garbage, fresh |-> TRUE]
    <3>2. new \in Slot /\ new.fd = f
      BY DEF Slot
    <3>3. pfds' = Append(pfds, new) /\ pfds \in Seq(Slot)
      BY <3>1 DEF LoopTypes
    <3> HIDE DEF new
    <3>4. /\ \A s \in DOMAIN pfds' : \/ s \in DOMAIN pfds /\ pfds'[s] = pfds[s]
                                     \/ s = Len(pfds) + 1 /\ pfds'[s].fd = f
          /\ Len(pfds) + 1 \in DOMAIN pfds' /\ pfds'[Len(pfds) + 1].fd = f
          /\ \A s \in DOMAIN pfds : s \in DOMAIN pfds' /\ pfds'[s] = pfds[s]
      BY <3>2, <3>3, QueueAppend
    <3>5. \A s \in DOMAIN pfds : pfds[s].fd # NoFd => pfds[s].fd \in Mine
      BY <1>4, <2>3 DEF Slots
    <3>6. \A s, t \in DOMAIN pfds' :
            pfds'[s].fd = pfds'[t].fd /\ pfds'[s].fd # NoFd => s = t
      BY <1>4, <3>4, <3>5 DEF Slots
    <3>7. \A s \in DOMAIN pfds' : pfds'[s].fd # NoFd => pfds'[s].fd \in Mine'
      BY <1>4, <3>4, <3>5
    <3>8. \A g \in Mine' : \E s \in DOMAIN pfds' : pfds'[s].fd = g
      BY <1>4, <2>3, <3>4 DEF Slots
    <3> QED BY <3>6, <3>7, <3>8 DEF Slots
  <2> QED BY <2>1, <2>2, <2>3
<1>5. CASE Accept
  <2>1. /\ AcceptedAs(LowestFree(OpenFds)) /\ Watch(LowestFree(OpenFds))
        /\ pc # "smashed"
    BY <1>5, AcceptEffect DEF Accept, At, Scanning
  <2>2. /\ Mine' = Mine \cup {LowestFree(OpenFds)} /\ LowestFree(OpenFds) # NoFd
        /\ LowestFree(OpenFds) \in Fds /\ LowestFree(OpenFds) \notin Mine
    BY <2>1, MineGrows
  <2> QED BY <1>4, <2>1, <2>2
<1>6. CASE AcceptFails
  <2>1. Watch(NoFd) /\ pc # "smashed" /\ Mine' = Mine /\ NoFd \notin Mine
    BY <1>6, MineStays, Sockets, FdsNumbers DEF AcceptFails, At, Scanning, Mine
  <2> QED BY <1>4, <2>1
<1>7. ASSUME NEW c \in Conns, Disconnect(c) PROVE Slots'
  <2>1. Mine' = Mine \ {fd[c]} /\ pc' = pc /\ fd[c] # NoFd
    BY <1>7, MineShrinks DEF Disconnect
  <2>2. CASE build # "poll"
    <3>1. pfds' = pfds
      BY <1>7, <2>2 DEF Disconnect, Unwatch
    <3> QED BY <1>1, <2>2, <3>1 DEF Slots
  <2>3. CASE build = "poll"
    <3>1. /\ pfds' = RemoveAt(pfds, i) /\ i \in 1 .. Len(pfds) /\ pfds[i].fd = fd[c]
          /\ pc # "smashed" /\ pfds \in Seq(Slot)
      BY <1>7, <2>3 DEF Disconnect, Unwatch, At, Scanning, LoopTypes
    <3>2. /\ DOMAIN pfds = 1 .. Len(pfds) /\ DOMAIN pfds' = 1 .. Len(pfds) - 1
          /\ Len(pfds) \in Nat
          /\ \A j \in 1 .. Len(pfds) - 1 :
               pfds'[j] = IF j < i THEN pfds[j] ELSE pfds[j + 1]
      <4>1. /\ pfds' \in Seq(Slot) /\ Len(pfds') = Len(pfds) - 1
            /\ \A j \in 1 .. Len(pfds) - 1 :
                 pfds'[j] = IF j < i THEN pfds[j] ELSE pfds[j + 1]
        BY <3>1, Removed
      <4>2. DOMAIN pfds' = 1 .. Len(pfds') /\ DOMAIN pfds = 1 .. Len(pfds) /\ Len(pfds) \in Nat
        BY <3>1, <4>1
      <4> QED BY <4>1, <4>2
    <3> DEFINE from(j) == IF j < i THEN j ELSE j + 1
    <3>3. \A j \in DOMAIN pfds' : /\ pfds'[j] = pfds[from(j)] /\ from(j) \in DOMAIN pfds
                                  /\ from(j) # i
      BY <3>1, <3>2
    <3>4. \A j, k \in DOMAIN pfds' : from(j) = from(k) => j = k
      BY <3>1, <3>2
    <3>5. \A t \in DOMAIN pfds : t # i => \E j \in DOMAIN pfds' : from(j) = t
      <4> SUFFICES ASSUME NEW t \in 1 .. Len(pfds), t # i
                   PROVE  \E j \in DOMAIN pfds' : from(j) = t
        BY <3>2
      <4>1. CASE t < i
        BY <3>1, <3>2, <4>1
      <4>2. CASE t > i
        <5>1. t - 1 \in DOMAIN pfds' /\ from(t - 1) = t
          BY <3>1, <3>2, <4>2
        <5> QED BY <5>1
      <4> QED BY <3>1, <4>1, <4>2
    <3> HIDE DEF from
    <3>6. i \in DOMAIN pfds /\ \A t \in DOMAIN pfds : pfds[t].fd = fd[c] => t = i
      BY <2>1, <3>1, <3>2 DEF Slots
    <3>7. /\ \A t \in DOMAIN pfds : pfds[t].fd # NoFd => pfds[t].fd \in Mine
          /\ \A f \in Mine : \E t \in DOMAIN pfds : pfds[t].fd = f
          /\ \A t, u \in DOMAIN pfds : pfds[t].fd = pfds[u].fd /\ pfds[t].fd # NoFd => t = u
      BY <2>3, <3>1 DEF Slots
    <3>8. \A j, k \in DOMAIN pfds' :
            pfds'[j].fd = pfds'[k].fd /\ pfds'[j].fd # NoFd => j = k
      BY <3>3, <3>4, <3>7
    <3>9. \A j \in DOMAIN pfds' : pfds'[j].fd # NoFd => pfds'[j].fd \in Mine'
      BY <2>1, <3>3, <3>6, <3>7
    <3>10. ASSUME NEW f \in Mine' PROVE \E j \in DOMAIN pfds' : pfds'[j].fd = f
      <4>1. PICK t \in DOMAIN pfds : pfds[t].fd = f /\ t # i
        BY <2>1, <3>1, <3>7
      <4>2. PICK j \in DOMAIN pfds' : from(j) = t
        BY <3>5, <4>1
      <4> QED BY <3>3, <4>1, <4>2
    <3> QED BY <3>8, <3>9, <3>10 DEF Slots
  <2> QED BY <2>2, <2>3
<1> QED BY <1>2, <1>3, <1>5, <1>6, <1>7 DEF Next, Server, Quiet

-----------------------------------------------------------------------------
(* What is still to be visited.                                            *)

(* A failed accept's slot is never found ready.                            *)
LEMMA NoFdNotReady == ASSUME HostTypes PROVE ~ Ready(NoFd)
BY Sockets, FdsNumbers DEF Ready

(* A descriptor stays ready until it is the one that is visited.           *)
StaysReady(g) == \A f \in Mine : f # g /\ Ready(f) => f \in Mine' /\ Ready(f)'

(* It does when what made it ready is still there.                         *)
LEMMA ReadyStays ==
  ASSUME UNCHANGED host, NEW f, Ready(f),
         f = tcpsock => backlog' # <<>>, f = udpsock => udpq' > 0,
         \A c \in Conns : fd[c] = f /\ f # NoFd =>
           /\ fd'[c] = f
           /\ inbuf[c] > 0 => inbuf'[c] > 0
           /\ peer[c] \in {"fin", "rst"} => peer'[c] \in {"fin", "rst"}
  PROVE  Ready(f)'
<1>1. udpsock' = udpsock /\ tcpsock' = tcpsock
  BY SocketsStay
<1>2. CASE f = tcpsock \/ (f = udpsock /\ udpq > 0)
  BY <1>1, <1>2 DEF Ready
<1>3. CASE \E c \in Conns : /\ fd[c] = f /\ f # NoFd
                            /\ inbuf[c] > 0 \/ peer[c] \in {"fin", "rst"}
  <2>1. PICK c \in Conns : /\ fd[c] = f /\ f # NoFd
                           /\ inbuf[c] > 0 \/ peer[c] \in {"fin", "rst"}
    BY <1>3
  <2>2. fd'[c] = f /\ (inbuf'[c] > 0 \/ peer'[c] \in {"fin", "rst"})
    BY <2>1
  <2> QED BY <2>1, <2>2 DEF Ready
<1> QED BY <1>2, <1>3 DEF Ready

(* The slots that are left are the ones behind i, or fresh.                *)
SlotsLeft ==
  \A s \in DOMAIN pfds' : s >= i' /\ ~ pfds'[s].fresh =>
    \E t \in DOMAIN pfds : /\ t > i /\ pfds'[s].fd = pfds[t].fd
                           /\ pfds'[s].in = pfds[t].in /\ ~ pfds[t].fresh

(* A visit leaves good marks behind if it disturbs nobody else.            *)
LEMMA VisitMarks ==
  ASSUME IInv, NEW g, At(g), Visited(g), StaysReady(g), SlotsLeft,
         pc' \in {pc, "smashed"}
  PROVE  Marks'
<1> USE DEF IInv
<1> SUFFICES ASSUME pc' = "scan", pc = "scan" PROVE Marks'
  BY DEF Marks
<1>1. \A f \in todo' : f \in Mine' /\ Ready(f)'
  BY DEF Visited, Marks, StaysReady
<1>2. ASSUME NEW s \in DOMAIN pfds', s >= i', pfds'[s].in, ~ pfds'[s].fresh,
             NEW f, f = pfds'[s].fd
      PROVE  f # NoFd /\ Ready(f)'
  <2>1. PICK t \in DOMAIN pfds : /\ t > i /\ pfds'[s].fd = pfds[t].fd
                                 /\ pfds'[s].in = pfds[t].in /\ ~ pfds[t].fresh
    BY <1>2 DEF SlotsLeft
  <2>2. build = "poll" /\ pc = "scan" /\ i \in DOMAIN pfds /\ pfds[i].fd = g /\ t >= i /\ t # i
    <3>1. build = "poll"
      BY DEF OneBuild
    <3>2. i <= Len(pfds) /\ pfds[i].fd = g
      BY <3>1 DEF At, OneBuild
    <3>3. DOMAIN pfds = 1 .. Len(pfds) /\ i \in Nat \ {0} /\ t \in Nat /\ Len(pfds) \in Nat
      BY <2>1, LoopAssumption DEF LoopTypes
    <3> QED BY <2>1, <3>1, <3>2, <3>3
  <2>3. pfds[t].fd # NoFd /\ Ready(pfds[t].fd)
    BY <1>2, <2>1, <2>2 DEF Marks
  <2>4. pfds[t].fd \in Mine /\ pfds[t].fd # g
    BY <2>2, <2>3 DEF Slots
  <2> QED BY <1>2, <2>1, <2>3, <2>4 DEF StaysReady
<1> QED BY <1>1, <1>2 DEF Marks

(* With pfds as it was, or with a fresh slot more, the ones behind i are   *)
(* left.                                                                   *)
LEMMA LeftSame ==
  ASSUME IInv, NEW g, At(g), Visited(g), UNCHANGED pfds
  PROVE  SlotsLeft
<1> USE DEF IInv
<1>1. CASE build = "poll"
  <2>1. i' = i + 1 /\ i \in Nat /\ \A s \in DOMAIN pfds : s \in Nat
    BY <1>1, LoopAssumption DEF Visited, LoopTypes
  <2>2. \A s \in DOMAIN pfds : s >= i + 1 => s > i
    BY <2>1
  <2> QED BY <2>1, <2>2 DEF SlotsLeft
<1>2. CASE build # "poll"
  <2>1. DOMAIN pfds' = {}
    BY <1>2 DEF OneBuild
  <2> QED BY <2>1 DEF SlotsLeft
<1> QED BY <1>1, <1>2

(* The same for the slot of an accepted connection.                        *)
LEMMA LeftWatched ==
  ASSUME IInv, NEW g, At(g), Visited(g), NEW f \in Fds \cup {NoFd}, Watch(f)
  PROVE  SlotsLeft
<1> USE DEF IInv
<1>1. CASE pfds' = pfds
  BY <1>1, LeftSame
<1>2. CASE pfds' # pfds
  <2>1. build = "poll" /\ \E garbage \in BOOLEAN :
          pfds' = Append(pfds, [fd |-> f, in |-> garbage, fresh |-> TRUE])
    BY <1>2 DEF Watch
  <2>2. PICK garbage \in BOOLEAN :
          pfds' = Append(pfds, [fd |-> f, in |-> garbage, fresh |-> TRUE])
    BY <2>1
  <2> DEFINE new == [fd |-> f, in |-> garbage, fresh |-> TRUE]
  <2>3. new \in Slot /\ new.fresh
    BY DEF Slot
  <2>4. pfds' = Append(pfds, new) /\ pfds \in Seq(Slot)
    BY <2>2 DEF LoopTypes
  <2> HIDE DEF new
  <2>5. \A s \in DOMAIN pfds' : \/ s \in DOMAIN pfds /\ pfds'[s] = pfds[s]
                                \/ pfds'[s].fresh
    BY <2>3, <2>4, QueueAppend
  <2>6. i' = i + 1 /\ i \in Nat /\ \A s \in DOMAIN pfds : s \in Nat
    BY <2>1, LoopAssumption DEF Visited, LoopTypes
  <2>7. \A s \in DOMAIN pfds : s >= i + 1 => s > i
    BY <2>6
  <2> QED BY <2>5, <2>6, <2>7 DEF SlotsLeft
<1> QED BY <1>1, <1>2

(* The same when the slot at i is taken out: the one that moves in there   *)
(* is passed over, the others are ahead.                                   *)
LEMMA LeftRemoved ==
  ASSUME IInv, NEW g, At(g), Unwatch(g)
  PROVE  SlotsLeft
<1> USE DEF IInv
<1>1. Visited(g)
  BY DEF Unwatch
<1>2. CASE build # "poll"
  BY <1>1, <1>2, LeftSame DEF Unwatch
<1>3. CASE build = "poll"
  <2>1. /\ pfds' = RemoveAt(pfds, i) /\ i \in 1 .. Len(pfds) /\ i' = i + 1
        /\ pfds \in Seq(Slot)
    BY <1>3 DEF Unwatch, Visited, At, LoopTypes
  <2>2. /\ DOMAIN pfds = 1 .. Len(pfds) /\ DOMAIN pfds' = 1 .. Len(pfds) - 1
        /\ Len(pfds) \in Nat
        /\ \A j \in 1 .. Len(pfds) - 1 :
             pfds'[j] = IF j < i THEN pfds[j] ELSE pfds[j + 1]
    <3>1. /\ pfds' \in Seq(Slot) /\ Len(pfds') = Len(pfds) - 1
          /\ \A j \in 1 .. Len(pfds) - 1 :
               pfds'[j] = IF j < i THEN pfds[j] ELSE pfds[j + 1]
      BY <2>1, Removed
    <3>2. DOMAIN pfds' = 1 .. Len(pfds') /\ DOMAIN pfds = 1 .. Len(pfds) /\ Len(pfds) \in Nat
      BY <2>1, <3>1
    <3> QED BY <3>1, <3>2
  <2>3. ASSUME NEW s \in DOMAIN pfds', s >= i'
        PROVE  s + 1 \in DOMAIN pfds /\ s + 1 > i /\ pfds'[s] = pfds[s + 1]
    BY <2>1, <2>2, <2>3
  <2> QED BY <2>3 DEF SlotsLeft
<1> QED BY <1>2, <1>3

(* Whatever is marked for the scan, and not fresh, can be read when the    *)
(* scan gets there.                                                        *)
LEMMA MarksStep == ASSUME IInv, Next PROVE Marks'
<1> USE DEF IInv
<1>1. UNCHANGED host /\ udpsock \in Fds /\ tcpsock \in Fds /\ udpsock # tcpsock
      /\ udpsock # NoFd /\ tcpsock # NoFd
  BY HostStep, Sockets, FdsNumbers
<1>2. ASSUME UNCHANGED <<fd, netVars>>, NEW f, Ready(f) PROVE Ready(f)'
  BY <1>1, <1>2, ReadyStays DEF netVars, Ready
<1>3. ASSUME UNCHANGED <<fd, netVars>>, NEW g PROVE StaysReady(g)
  <2>1. Mine' = Mine
    BY <1>1, <1>3, MineStays
  <2> QED BY <1>2, <1>3, <2>1 DEF StaysReady
<1>4. CASE Wait
  <2>1. (\A f \in todo' : f \in Mine /\ Ready(f)) /\ UNCHANGED <<fd, netVars>>
        /\ pfds' = <<>> /\ Mine' = Mine
    BY <1>1, <1>4, WaitFinds, MineStays DEF Wait, OneBuild
  <2> QED BY <1>2, <2>1 DEF Marks
<1>14. CASE WaitFails
  BY <1>14 DEF WaitFails, Marks
<1>5. CASE Poll
  <2>1. UNCHANGED <<fd, netVars>> /\ todo' = {} /\ build = "poll"
    BY <1>5 DEF Poll, OneBuild
  <2>2. \A s \in DOMAIN pfds' : pfds'[s].in => pfds'[s].fd # NoFd /\ Ready(pfds[s].fd)
                                 /\ pfds'[s].fd = pfds[s].fd
    BY <1>5, Polled, NoFdNotReady
  <2> QED BY <1>2, <2>1, <2>2 DEF Marks
<1>6. CASE SkipSlot \/ EndScan
  <2>1. /\ UNCHANGED <<fd, netVars, pfds, todo>> /\ Mine' = Mine
        /\ pc' = "scan" => pc = "scan" /\ i' = i + 1
    BY <1>1, <1>6, MineStays DEF SkipSlot, EndScan
  <2>2. i \in Nat /\ \A s \in DOMAIN pfds : s \in Nat
    BY LoopAssumption DEF LoopTypes
  <2>3. \A s \in DOMAIN pfds : s >= i + 1 => s >= i
    BY <2>2
  <2> QED BY <1>2, <2>1, <2>3 DEF Marks
<1>7. CASE Accept
  <2>1. /\ AcceptedAs(LowestFree(OpenFds)) /\ Watch(LowestFree(OpenFds))
        /\ At(tcpsock) /\ Visited(tcpsock)
    BY <1>7, AcceptEffect DEF Accept
  <2>2. /\ Mine \subseteq Mine' /\ LowestFree(OpenFds) \in Fds
        /\ \A c \in Conns : fd[c] # NoFd => fd'[c] = fd[c]
    BY <2>1, MineGrows
  <2>3. StaysReady(tcpsock)
    <3>1. UNCHANGED <<peer, inbuf, udpq>>
      BY <2>1 DEF AcceptedAs
    <3>2. ASSUME NEW f \in Mine, f # tcpsock, Ready(f) PROVE Ready(f)'
      <4>1. f = udpsock => udpq > 0
        BY <1>1, <3>2 DEF Ready, FdsApart
      <4> QED BY <1>1, <2>2, <3>1, <3>2, <4>1, ReadyStays
    <3> QED BY <2>2, <3>2 DEF StaysReady
  <2> QED BY <2>1, <2>2, <2>3, LeftWatched, VisitMarks DEF Watch
<1>8. CASE AcceptFails
  <2>1. At(tcpsock) /\ Visited(tcpsock) /\ Watch(NoFd) /\ UNCHANGED <<fd, netVars>>
    BY <1>8 DEF AcceptFails
  <2> QED BY <1>3, <2>1, LeftWatched, VisitMarks DEF Watch
<1>9. CASE RecvFrom
  <2>1. /\ At(udpsock) /\ Visited(udpsock) /\ pfds' = pfds /\ pc' = pc
        /\ UNCHANGED <<fd, peer, backlog, inbuf>>
    BY <1>9 DEF RecvFrom
  <2>2. StaysReady(udpsock)
    <3>1. Mine' = Mine
      BY <1>1, <2>1, MineStays
    <3>2. ASSUME NEW f \in Mine, f # udpsock, Ready(f) PROVE Ready(f)'
      <4>1. f = tcpsock => backlog # <<>>
        BY <1>1, <3>2 DEF Ready, FdsApart
      <4> QED BY <1>1, <2>1, <3>2, <4>1, ReadyStays
    <3> QED BY <3>1, <3>2 DEF StaysReady
  <2> QED BY <2>1, <2>2, LeftSame, VisitMarks
<1>10. ASSUME NEW f, RecvClosed(f) PROVE Marks'
  <2>1. At(f) /\ Visited(f) /\ pfds' = pfds /\ pc' = pc /\ UNCHANGED <<fd, netVars>>
    BY <1>10 DEF RecvClosed
  <2> QED BY <1>3, <2>1, LeftSame, VisitMarks
<1>11. ASSUME NEW c \in Conns, Recv(c) PROVE Marks'
  <2>1. /\ At(fd[c]) /\ Visited(fd[c]) /\ pfds' = pfds /\ pc' = pc /\ fd[c] # NoFd
        /\ UNCHANGED <<fd, backlog, udpq>>
    BY <1>11 DEF Recv
  <2>2. \A d \in Conns : d # c => inbuf'[d] = inbuf[d] /\ peer'[d] = peer[d]
    BY <1>11 DEF Recv, NetTypes
  <2>3. StaysReady(fd[c])
    <3>1. Mine' = Mine
      BY <1>1, <2>1, MineStays
    <3>2. ASSUME NEW f \in Mine, f # fd[c], Ready(f) PROVE Ready(f)'
      <4>1. (f = tcpsock => backlog # <<>>) /\ (f = udpsock => udpq > 0)
        BY <1>1, <3>2 DEF Ready, FdsApart
      <4>2. \A d \in Conns : fd[d] = f => d # c
        BY <3>2
      <4> QED BY <1>1, <2>1, <2>2, <3>2, <4>1, <4>2, ReadyStays
    <3> QED BY <3>1, <3>2 DEF StaysReady
  <2> QED BY <2>1, <2>3, LeftSame, VisitMarks
<1>12. ASSUME NEW c \in Conns, Disconnect(c) PROVE Marks'
  <2>1. /\ At(fd[c]) /\ Unwatch(fd[c]) /\ Visited(fd[c]) /\ pc' = pc
        /\ UNCHANGED <<backlog, inbuf, udpq>>
    BY <1>12 DEF Disconnect, Unwatch
  <2>2. /\ Mine' = Mine \ {fd[c]} /\ \A d \in Conns : d # c => fd'[d] = fd[d]
        /\ \A d \in Conns : d # c => peer'[d] = peer[d]
    BY <1>12, MineShrinks DEF Disconnect, NetTypes
  <2>3. StaysReady(fd[c])
    <3>1. ASSUME NEW f \in Mine, f # fd[c], Ready(f) PROVE Ready(f)'
      <4>1. (f = tcpsock => backlog # <<>>) /\ (f = udpsock => udpq > 0)
        BY <1>1, <3>1 DEF Ready, FdsApart
      <4>2. \A d \in Conns : fd[d] = f => d # c
        BY <3>1
      <4> QED BY <1>1, <2>1, <2>2, <3>1, <4>1, <4>2, ReadyStays
    <3> QED BY <2>2, <3>1 DEF StaysReady
  <2> QED BY <2>1, <2>3, LeftRemoved, VisitMarks
<1>13. CASE Peers
  <2>1. UNCHANGED <<loopVars, fd>> /\ Mine' = Mine
    BY <1>1, <1>13, MineStays DEF Peers, Datagram, Connect, Send, Hangup
  <2>2. /\ backlog # <<>> => backlog' # <<>>
        /\ udpq > 0 => udpq' > 0
        /\ \A c \in Conns : /\ inbuf[c] > 0 => inbuf'[c] > 0
                            /\ peer[c] \in {"fin", "rst"} => peer'[c] \in {"fin", "rst"}
    <3>1. CASE Datagram
      BY <3>1, LoopAssumption DEF Datagram, NetTypes
    <3>2. ASSUME NEW c \in Conns, Connect(c)
          PROVE  /\ backlog' # <<>> /\ UNCHANGED <<udpq, inbuf>>
                 /\ \A d \in Conns : peer[d] \in {"fin", "rst"} => peer'[d] \in {"fin", "rst"}
      <4>1. backlog' # <<>>
        <5>1. Len(backlog') = Len(backlog) + 1 /\ Len(backlog) \in Nat /\ Len(<<>>) = 0
          BY <3>2, QueueAppend DEF Connect, NetTypes
        <5> QED BY <5>1
      <4> QED BY <3>2, <4>1 DEF Connect, NetTypes
    <3>3. ASSUME NEW c \in Conns, Send(c)
          PROVE  /\ UNCHANGED <<udpq, backlog, peer>>
                 /\ \A d \in Conns : inbuf[d] > 0 => inbuf'[d] > 0
      BY <3>3 DEF Send, NetTypes
    <3>4. ASSUME NEW c \in Conns, Hangup(c)
          PROVE  /\ UNCHANGED <<udpq, backlog, inbuf>>
                 /\ \A d \in Conns : peer[d] \in {"fin", "rst"} => peer'[d] \in {"fin", "rst"}
      BY <3>4 DEF Hangup, NetTypes
    <3> QED BY <1>13, <3>1, <3>2, <3>3, <3>4 DEF Peers, Datagram
  <2>3. ASSUME NEW f, Ready(f) PROVE Ready(f)'
    <3>1. (f = tcpsock => backlog # <<>>) /\ (f = udpsock => udpq > 0)
      BY <1>1, <2>3 DEF Ready, FdsApart
    <3> QED BY <1>1, <2>1, <2>2, <2>3, <3>1, ReadyStays
  <2> QED BY <2>1, <2>3 DEF Marks, loopVars
<1> QED BY <1>4, <1>5, <1>6, <1>7, <1>8, <1>9, <1>10, <1>11, <1>12, <1>13, <1>14
      DEF Next, Server

-----------------------------------------------------------------------------
(* The inductive step.                                                     *)
LEMMA NextIInv == ASSUME IInv, [Next]_vars PROVE IInv'
<1>1. CASE Next
  BY <1>1, HostStep, LoopStep, NetStep, PlacedStep, BuildStep, SlotsStep, MarksStep DEF IInv
<1>2. CASE UNCHANGED vars
  <2>1. UNCHANGED <<host, build, inherited, pc, rset, max, todo, pfds, i, fd, peer, backlog,
                    inbuf, left, udpq>>
    BY <1>2 DEF vars, host, loopVars, netVars
  <2>2. HostTypes' /\ LoopTypes' /\ NetTypes'
    BY <2>1 DEF IInv, HostTypes, LoopTypes, NetTypes
  <2>3. udpsock' = udpsock /\ tcpsock' = tcpsock /\ Mine' = Mine
    BY <2>1, SocketsStay, MineStays
  <2>4. Placed' /\ FdsApart' /\ OneBuild' /\ Slots'
    BY <2>1, <2>3 DEF IInv, Placed, FdsApart, OneBuild, Slots
  <2>5. Marks'
    BY <2>1, <2>3 DEF IInv, Marks, Ready
  <2> QED BY <2>2, <2>4, <2>5 DEF IInv
<1> QED BY <1>1, <1>2

(* The inductive invariant holds in every reachable state.                 *)
THEOREM Invariance == Spec => []IInv
BY InitIInv, NextIInv, PTL DEF Spec

(* The variables keep their types: max and the descriptors stay within the *)
(* table, pfds within POLL_MAX slots, i within one past them.              *)
THEOREM TypeCorrect == Spec => []TypeOK
<1>1. ASSUME IInv PROVE TypeOK
  <2>1. inbuf \in [Conns -> 0 .. MaxSends] /\ left \in [Conns -> 0 .. MaxSends]
    <3>1. \A c \in Conns : inbuf[c] \in 0 .. MaxSends /\ left[c] \in 0 .. MaxSends
      BY <1>1, LoopAssumption DEF IInv, NetTypes
    <3> QED BY <1>1, <3>1 DEF IInv, NetTypes
  <2> QED BY <1>1, <2>1 DEF IInv, HostTypes, LoopTypes, NetTypes, TypeOK, Pcs, PeerStates
<1> QED BY <1>1, Invariance, PTL

(* The number of slots, from the descriptors in them.                      *)
LEMMA SlotsCounted ==
  ASSUME LoopTypes, Slots
  PROVE  Len(pfds) = Cardinality(Failed)
                       + Cardinality({pfds[s].fd : s \in DOMAIN pfds \ Failed})
<1> DEFINE good == DOMAIN pfds \ Failed
           used == {pfds[s].fd : s \in good}
           slotOf == [s \in good |-> pfds[s].fd]
<1>1. DOMAIN pfds = 1 .. Len(pfds) /\ Len(pfds) \in Nat
  BY DEF LoopTypes
<1>2. IsFiniteSet(DOMAIN pfds) /\ Cardinality(DOMAIN pfds) = Len(pfds)
  <2>1. 1 \in Int /\ Len(pfds) \in Int /\ Len(pfds) - 1 + 1 = Len(pfds)
        /\ (1 > Len(pfds) => Len(pfds) = 0)
    BY <1>1
  <2>2. IsFiniteSet(1 .. Len(pfds))
        /\ Cardinality(1 .. Len(pfds)) = IF 1 > Len(pfds) THEN 0 ELSE Len(pfds) - 1 + 1
    BY <2>1, FS_Interval
  <2> QED BY <1>1, <2>1, <2>2
<1>3. Failed \subseteq DOMAIN pfds /\ DOMAIN pfds \cap Failed = Failed
  BY DEF Failed
<1>4. IsFiniteSet(good) /\ Cardinality(good) = Len(pfds) - Cardinality(Failed)
  BY <1>2, <1>3, FS_Difference
<1>5. Cardinality(Failed) \in Nat
  BY <1>2, <1>3, FS_Subset, FS_CardinalityType
<1>6. slotOf \in Bijection(good, used)
  <2>1. \A s, t \in good : slotOf[s] = slotOf[t] => s = t
    BY DEF Failed, Slots
  <2> QED BY <2>1 DEF Bijection, Injection, Surjection, IsInjective
<1>7. Cardinality(used) = Cardinality(good)
  BY <1>4, <1>6, FS_Bijection DEF ExistsBijection
<1> QED BY <1>1, <1>4, <1>5, <1>7

(* Whatever is closed, accepted, reused or moved during a scan, the loop   *)
(* watches exactly what it has open, each descriptor once - and the bit of *)
(* a failed accept.                                                        *)
THEOREM WatchesWhatIsOpen == Spec => []InterestExact
<1>1. ASSUME IInv PROVE InterestExact
  <2> USE <1>1 DEF IInv
  <2>1. OpenFds \ inherited = Mine
    BY OpenIsMine
  <2>2. /\ build = "select" => /\ OpenFds \ inherited \subseteq Looked
                               /\ rset \subseteq (OpenFds \ inherited) \cup {StrayBit}
        /\ build = "epoll" => rset = OpenFds \ inherited
    BY <2>1 DEF OneBuild, Looked
  <2>3. ASSUME build = "poll", pc # "smashed"
        PROVE  {pfds[s].fd : s \in DOMAIN pfds \ Failed} = OpenFds \ inherited
    <3>1. NoFd \notin Mine
      BY OpenIsMine, FdsNumbers
    <3>2. /\ \A s \in DOMAIN pfds : pfds[s].fd # NoFd => pfds[s].fd \in Mine
          /\ \A f \in Mine : \E s \in DOMAIN pfds : pfds[s].fd = f
      BY <2>3 DEF Slots
    <3> QED BY <2>1, <3>1, <3>2 DEF Failed
  <2>4. Len(pfds) = Cardinality(Failed)
                      + Cardinality({pfds[s].fd : s \in DOMAIN pfds \ Failed})
    BY SlotsCounted
  <2> QED BY <2>2, <2>3, <2>4 DEF InterestExact
<1> QED BY <1>1, Invariance, PTL

(* The thread never sleeps in accept, recvfrom or recv, but for the poll   *)
(* builds' slot of a connection accepted in the same scan and for the scan *)
(* that follows a failed select.                                           *)
THEOREM NoOtherBlock == Spec => []BlocksOnlyUntold
<1>1. ASSUME IInv PROVE BlocksOnlyUntold
  <2> USE <1>1 DEF IInv
  <2> SUFFICES ASSUME NEW f \in Fds, At(f), ~ Ready(f), pc # "blind"
               PROVE  build = "poll" /\ pfds[i].fresh
    BY OpenIsMine DEF BlocksOnlyUntold, Blocked
  <2>1. pc = "scan"
    BY DEF At, Scanning
  <2>2. f \notin todo
    BY <2>1 DEF Marks
  <2>3. build = "poll" /\ i <= Len(pfds) /\ pfds[i].in /\ pfds[i].fd = f
    BY <2>2 DEF At
  <2>4. i \in DOMAIN pfds /\ i >= i
    BY <2>3 DEF LoopTypes
  <2> QED BY <2>1, <2>3, <2>4 DEF Marks
<1> QED BY <1>1, Invariance, PTL

-----------------------------------------------------------------------------
(* The service of ConnService.                                             *)

Phases == [c \in Conns |-> Phase(c)]
Ends == [c \in Conns |-> peer[c] \in {"fin", "rst", "over"}]

(* A step that moves one connection on.                                    *)
LEMMA OneMoves ==
  ASSUME NEW c \in Conns, NEW to, Phase(c)' = to,
         \A d \in Conns : d # c => Phase(d)' = Phase(d)
  PROVE  Phases' = [Phases EXCEPT ![c] = to]
BY DEF Phases

(* No connection moves when peers and descriptors stay.                    *)
LEMMA NoneMoves ==
  ASSUME \A d \in Conns : Phase(d)' = Phase(d)
  PROVE  Phases' = Phases
BY DEF Phases

(* The phase of a connection changes only with its own state.              *)
LEMMA PhaseStays ==
  ASSUME NEW d, peer'[d] = peer[d], fd'[d] = fd[d]
  PROVE  Phase(d)' = Phase(d)
BY DEF Phase

(* Whether a client has ended changes only with its own state.             *)
LEMMA EndsStay ==
  ASSUME \A d \in Conns : (peer'[d] \in {"fin", "rst", "over"})
                            <=> (peer[d] \in {"fin", "rst", "over"})
  PROVE  Ends' = Ends
<1> DEFINE over(x) == x \in {"fin", "rst", "over"}
<1>1. \A d \in Conns : over(peer'[d]) = over(peer[d])
  OBVIOUS
<1> HIDE DEF over
<1>2. [d \in Conns |-> over(peer'[d])] = [d \in Conns |-> over(peer[d])]
  BY <1>1
<1> QED BY <1>2 DEF Ends, over

(* In the beginning there are no connections.                              *)
LEMMA InitService == Init => Service!Init
<1> SUFFICES ASSUME Init PROVE Service!Init
  OBVIOUS
<1>1. \A c \in Conns : Phase(c) = "none"
  BY DEF Init, Phase
<1>2. \A c \in Conns : (peer[c] \in {"fin", "rst", "over"}) = FALSE
  BY DEF Init
<1>3. inbuf = [c \in Conns |-> 0]
  BY DEF Init
<1> QED BY <1>1, <1>2, <1>3 DEF Service!Init

(* Every step of the loop or of a peer is a step of the service, or none.  *)
LEMMA NextService ==
  ASSUME IInv, Next
  PROVE  Service!Next \/ UNCHANGED <<Phases, inbuf, Ends>>
<1> USE DEF IInv
<1>1. CASE UNCHANGED <<fd, peer, inbuf>>
  <2>1. Phases' = Phases
    BY <1>1, PhaseStays, NoneMoves
  <2>2. Ends' = Ends
    BY <1>1, EndsStay
  <2> QED BY <1>1, <2>1, <2>2
<1>2. CASE Accept
  <2>1. /\ AcceptedAs(LowestFree(OpenFds)) /\ backlog # <<>>
    BY <1>2, AcceptEffect DEF AcceptedAs
  <2>2. PICK h \in Conns : /\ h = Head(backlog) /\ fd[h] = NoFd
                           /\ peer[h] \in {"up", "fin", "rst"}
                           /\ LowestFree(OpenFds) # NoFd
    BY <2>1, HeadWaits, MineGrows
  <2>3. /\ UNCHANGED <<peer, inbuf>> /\ fd'[h] # NoFd
        /\ \A d \in Conns : d # h => fd'[d] = fd[d]
    BY <2>1, <2>2 DEF AcceptedAs, NetTypes
  <2>4. Phase(h) = "queued" /\ Phase(h)' = "served"
    BY <2>2, <2>3 DEF Phase
  <2>5. Phases' = [Phases EXCEPT ![h] = "served"] /\ Phases[h] = "queued"
    BY <2>2, <2>3, <2>4, PhaseStays, OneMoves DEF Phases
  <2>6. Ends' = Ends
    BY <2>3, EndsStay
  <2>7. Service!TakeUp(h)
    BY <2>3, <2>5, <2>6 DEF Service!TakeUp, Service!Move, Phases, Ends
  <2> QED BY <2>2, <2>7 DEF Service!Next
<1>3. ASSUME NEW c \in Conns, Recv(c)
      PROVE  Service!Next \/ UNCHANGED <<Phases, inbuf, Ends>>
  <2>1. fd' = fd /\ fd[c] # NoFd
    BY <1>3 DEF Recv
  <2>2. CASE inbuf[c] > 0 /\ inbuf' = [inbuf EXCEPT ![c] = @ - 1] /\ UNCHANGED peer
    <3>1. Phases' = Phases /\ Ends' = Ends
      BY <2>1, <2>2, PhaseStays, NoneMoves, EndsStay
    <3>2. Phases[c] = "served"
      BY <2>1 DEF Phases, Phase, Placed, NetTypes, PeerStates
    <3>3. Service!Consume(c)
      BY <2>2, <3>1, <3>2 DEF Service!Consume, Phases, Ends
    <3> QED BY <3>3 DEF Service!Next
  <2>3. CASE peer[c] = "rst" /\ peer' = [peer EXCEPT ![c] = "fin"] /\ UNCHANGED inbuf
    <3>1. peer'[c] = "fin" /\ \A d \in Conns : d # c => peer'[d] = peer[d]
      BY <2>3 DEF NetTypes
    <3>2. Phase(c)' = Phase(c)
      BY <2>1, <2>3, <3>1 DEF Phase
    <3>3. Phases' = Phases
      BY <2>1, <3>1, <3>2, PhaseStays, NoneMoves
    <3>4. Ends' = Ends
      BY <2>3, <3>1, EndsStay
    <3> QED BY <2>3, <3>3, <3>4
  <2> QED BY <1>3, <2>2, <2>3 DEF Recv
<1>4. ASSUME NEW c \in Conns, Disconnect(c)
      PROVE  Service!Next
  <2>1. /\ fd[c] # NoFd /\ inbuf[c] = 0 /\ peer[c] = "fin" /\ inbuf' = inbuf
        /\ peer'[c] = "over" /\ fd'[c] = NoFd
        /\ \A d \in Conns : d # c => fd'[d] = fd[d] /\ peer'[d] = peer[d]
    BY <1>4 DEF Disconnect, NetTypes
  <2>2. Phase(c) = "served" /\ Phase(c)' = "released"
    BY <2>1 DEF Phase
  <2>3. Phases' = [Phases EXCEPT ![c] = "released"] /\ Phases[c] = "served"
    BY <2>1, <2>2, PhaseStays, OneMoves DEF Phases
  <2>4. Ends' = Ends /\ Ends[c]
    <3>1. Ends' = Ends
      BY <2>1, EndsStay
    <3>2. Ends[c]
      BY <2>1 DEF Ends
    <3> QED BY <3>1, <3>2
  <2>5. Service!Release(c)
    BY <2>1, <2>3, <2>4 DEF Service!Release, Service!Move, Phases, Ends
  <2> QED BY <2>5 DEF Service!Next
<1>5. ASSUME NEW c \in Conns, Connect(c) PROVE Service!Next
  <2>1. /\ peer[c] = "new" /\ peer'[c] = "up" /\ fd' = fd /\ fd[c] = NoFd /\ inbuf' = inbuf
        /\ \A d \in Conns : d # c => peer'[d] = peer[d]
    BY <1>5 DEF Connect, NetTypes, Placed
  <2>2. Phase(c) = "none" /\ Phase(c)' = "queued"
    BY <2>1 DEF Phase
  <2>3. Phases' = [Phases EXCEPT ![c] = "queued"] /\ Phases[c] = "none"
    BY <2>1, <2>2, PhaseStays, OneMoves DEF Phases
  <2>4. Ends' = Ends
    BY <2>1, EndsStay
  <2>5. Service!Arrive(c)
    BY <2>1, <2>3, <2>4 DEF Service!Arrive, Service!Move, Phases, Ends
  <2> QED BY <2>5 DEF Service!Next
<1>6. ASSUME NEW c \in Conns, peer[c] = "up"
      PROVE  Phases[c] \in {"queued", "served"} /\ ~ Ends[c]
  <2>1. Phase(c) \in {"queued", "served"}
    BY <1>6 DEF Phase
  <2> QED BY <1>6, <2>1 DEF Phases, Ends
<1>7. ASSUME NEW c \in Conns, Send(c) PROVE Service!Next
  <2>1. UNCHANGED <<fd, peer>> /\ peer[c] = "up" /\ inbuf' = [inbuf EXCEPT ![c] = @ + 1]
    BY <1>7 DEF Send
  <2>2. Phases' = Phases /\ Ends' = Ends
    BY <2>1, PhaseStays, NoneMoves, EndsStay
  <2>3. Service!Send(c)
    BY <1>6, <2>1, <2>2 DEF Service!Send, Phases, Ends
  <2> QED BY <2>3 DEF Service!Next
<1>8. ASSUME NEW c \in Conns, Hangup(c) PROVE Service!Next
  <2>1. /\ fd' = fd /\ inbuf' = inbuf /\ peer[c] = "up" /\ peer'[c] \in {"fin", "rst"}
        /\ \A d \in Conns : d # c => peer'[d] = peer[d]
    BY <1>8 DEF Hangup, NetTypes
  <2>2. Phase(c)' = Phase(c)
    BY <2>1 DEF Phase
  <2>3. Phases' = Phases
    BY <2>1, <2>2, PhaseStays, NoneMoves
  <2>4. Ends' = [Ends EXCEPT ![c] = TRUE]
    BY <2>1 DEF Ends
  <2>5. Service!End(c)
    BY <1>6, <2>1, <2>3, <2>4 DEF Service!End, Phases, Ends
  <2> QED BY <2>5 DEF Service!Next
<1>9. CASE \/ Wait \/ WaitFails \/ Poll \/ SkipSlot \/ EndScan \/ AcceptFails \/ RecvFrom
           \/ Datagram \/ \E f \in {NoFd, StrayBit} : RecvClosed(f)
  BY <1>1, <1>9 DEF Wait, WaitFails, Poll, SkipSlot, EndScan, AcceptFails, RecvFrom, RecvClosed,
                    Datagram, netVars
<1> QED BY <1>2, <1>3, <1>4, <1>5, <1>7, <1>8, <1>9 DEF Next, Server, Peers

(* All builds give clients the service of ConnService: nothing is read of  *)
(* a connection that is not accepted, and none is closed before its client *)
(* has ended it and all it sent is read.                                   *)
THEOREM Refinement == Spec => ImplementsService
<1>1. ASSUME IInv, [Next]_vars PROVE [Service!Next]_(Service!vars)
  <2>1. CASE Next
    BY <1>1, <2>1, NextService DEF Service!vars, Phases, Ends
  <2>2. CASE UNCHANGED vars
    <3>1. UNCHANGED <<fd, peer, inbuf>>
      BY <2>2 DEF vars, netVars
    <3>2. Phases' = Phases /\ Ends' = Ends
      BY <3>1, PhaseStays, NoneMoves, EndsStay
    <3> QED BY <3>1, <3>2 DEF Service!vars, Phases, Ends
  <2> QED BY <1>1, <2>1, <2>2
<1> QED BY <1>1, InitService, Invariance, PTL DEF Spec, ImplementsService, Service!Spec
=============================================================================
