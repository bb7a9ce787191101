--------------------------- MODULE ProgramsProofs ---------------------------
(***************************************************************************)
(* Proofs about the smaller programs, each for a specification of its own: *)
(* the proc file device (ProcDev), the datagram pairs (UdpPairs), the      *)
(* checksums of one packet (Packets), which hold for every sum and every   *)
(* uninitialised word, the netlink users (Netlink), the stream pairs       *)
(* (StreamPairs) and the route table (RouteDump).                          *)
(***************************************************************************)
EXTENDS ProcDev, StreamPairs, UdpPairs, Netlink, RouteDump, Packets,
        FiniteSetTheorems, SequenceTheorems, TLAPS

-----------------------------------------------------------------------------
(* ProcDev. What is known as long as the entry exists and nobody has       *)
(* disturbed the calls.                                                    *)
Texts == Writers \cup {NoText, Torn}
Calm == present /\ ~ disturbed

ProcTypes ==
  /\ msg \in Texts /\ f_read \in 0 .. 1 /\ f_write \in 0 .. 1
  /\ rpc \in [Readers -> {"new", "read", "test", "eof", "data", "done"}]
  /\ rbuf \in [Readers -> Texts]
  /\ wpc \in [Writers -> {"new", "copy", "clash", "flag", "done"}]
  /\ got \in [Readers -> Seq(Texts)]

(* One process is in its calls at a time.                                  *)
InTurn ==
  /\ \A r, q \in Readers : Reading(r) /\ Reading(q) => r = q
  /\ \A w, v \in Writers : Writing(w) /\ Writing(v) => w = v
  /\ \A r \in Readers, w \in Writers : ~ (Reading(r) /\ Writing(w))

(* f_read belongs to the reader who is in its calls: it is set when this   *)
(* reader has been given the message, and only then.                       *)
Served(r) == got[r] = <<msg>> /\ msg # NoText
ReaderAt(r) ==
  /\ rpc[r] = "new" => got[r] = <<>>
  /\ rpc[r] \in {"read", "test"} => \/ f_read = 0 /\ got[r] = <<>>
                                    \/ f_read = 1 /\ Served(r)
  /\ rpc[r] = "data" => f_read = 0 /\ got[r] = <<>>
  /\ rpc[r] \in {"test", "data"} => rbuf[r] = msg
  /\ rpc[r] \in {"eof", "done"} => Served(r)
FlagOwned == f_read = 1 => \E r \in Readers : Reading(r)

(* The first text is the last: f_write is set once there is one, except    *)
(* while its writer is on the way to it.                                   *)
WriterAt(w) ==
  /\ wpc[w] # "clash"
  /\ wpc[w] = "copy" => msg = NoText
  /\ wpc[w] = "flag" => msg # NoText
TextOnce ==
  /\ f_write = 1 => msg # NoText
  /\ msg # NoText => f_write = 1 \/ \E w \in Writers : wpc[w] = "flag"

Ordered ==
  /\ InTurn
  /\ \A r \in Readers : ReaderAt(r)
  /\ FlagOwned
  /\ \A w \in Writers : WriterAt(w)
  /\ TextOnce

ProcInv == ProcTypes /\ (Calm => Ordered)

-----------------------------------------------------------------------------
LEMMA ProcInitInv == ProcInit => ProcInv
<1> SUFFICES ASSUME ProcInit PROVE ProcInv
  OBVIOUS
<1>1. ProcTypes
  BY DEF ProcInit, ProcTypes, Texts
<1>2. Ordered
  BY DEF ProcInit, Ordered, InTurn, Reading, Writing, ReaderAt, FlagOwned,
         WriterAt, TextOnce
<1> QED BY <1>1, <1>2 DEF ProcInv

LEMMA ProcStepTypes == ProcTypes /\ [ProcNext]_procVars => ProcTypes'
<1> SUFFICES ASSUME ProcTypes, [ProcNext]_procVars PROVE ProcTypes'
  OBVIOUS
<1> USE DEF ProcTypes, ReaderGoes, WriterGoes
<1>1. ASSUME NEW r \in Readers, OpenToRead(r) PROVE ProcTypes'
  BY <1>1 DEF OpenToRead
<1>2. ASSUME NEW r \in Readers, CopyToUser(r) PROVE ProcTypes'
  <2>1. PICK t \in Texts : rbuf' = [rbuf EXCEPT ![r] = t]
    BY <1>2, Zenon DEF CopyToUser, Texts
  <2> QED BY <1>2, <2>1 DEF CopyToUser
<1>3. ASSUME NEW r \in Readers, TestRead(r) PROVE ProcTypes'
  BY <1>3 DEF TestRead
<1>4. ASSUME NEW r \in Readers, ReturnEof(r) PROVE ProcTypes'
  BY <1>4 DEF ReturnEof
<1>5. ASSUME NEW r \in Readers, ReturnData(r) PROVE ProcTypes'
  <2>1. Append(got[r], rbuf[r]) \in Seq(Texts)
    BY <1>5
  <2>2. got' \in [Readers -> Seq(Texts)]
    BY <1>5, <2>1 DEF ReturnData
  <2>3. /\ UNCHANGED <<msg, f_write, rbuf, wpc>> /\ f_read' = 1
        /\ rpc' \in [Readers -> {"new", "read", "test", "eof", "data", "done"}]
    BY <1>5 DEF ReturnData
  <2> QED BY <2>2, <2>3
<1>6. ASSUME NEW r \in Readers, ReadGone(r) PROVE ProcTypes'
  BY <1>6 DEF ReadGone
<1>7. ASSUME NEW w \in Writers, TestWrite(w) PROVE ProcTypes'
  <2>1. wpc' \in [Writers -> {"new", "copy", "clash", "flag", "done"}]
    BY <1>7 DEF TestWrite
  <2> QED BY <1>7, <2>1 DEF TestWrite
<1>8. ASSUME NEW w \in Writers, CopyFromUser(w) PROVE ProcTypes'
  BY <1>8 DEF CopyFromUser, Texts
<1>9. ASSUME NEW w \in Writers, SetWritten(w) PROVE ProcTypes'
  BY <1>9 DEF SetWritten
<1>10. CASE Cleanup
  BY <1>10 DEF Cleanup
<1>11. CASE UNCHANGED procVars
  BY <1>11 DEF procVars
<1> QED BY <1>1, <1>2, <1>3, <1>4, <1>5, <1>6, <1>7, <1>8, <1>9, <1>10, <1>11
         DEF ProcNext, ReaderStep, WriterStep

-----------------------------------------------------------------------------
(* A reader opens the file while nobody is in a call, or it disturbs.      *)
LEMMA OpenOrdered ==
  ASSUME ProcInv, NEW r \in Readers, OpenToRead(r), Calm'
  PROVE  Ordered'
<1>1. ProcTypes /\ Calm /\ Ordered /\ ~ Busy
  BY DEF OpenToRead, Calm, ProcInv
<1>2. /\ UNCHANGED <<msg, f_read, f_write, rbuf, wpc, got>>
      /\ rpc[r] = "new" /\ rpc' = [rpc EXCEPT ![r] = "read"]
  BY DEF OpenToRead, ReaderGoes
<1>3. /\ \A q \in Readers : rpc[q] \in {"new", "done"}
      /\ \A w \in Writers : wpc[w] \in {"new", "done"}
  BY <1>1 DEF Busy, Reading, Writing
<1>4. f_read = 0
  BY <1>1, <1>3 DEF Ordered, FlagOwned, Reading, ProcTypes
<1>5. InTurn'
  BY <1>1, <1>2, <1>3 DEF InTurn, Reading, Writing, ProcTypes
<1>6. \A q \in Readers : ReaderAt(q)'
  BY <1>1, <1>2, <1>4 DEF Ordered, ReaderAt, Served, ProcTypes
<1>7. FlagOwned' /\ (\A w \in Writers : WriterAt(w)') /\ TextOnce'
  BY <1>1, <1>2, <1>4 DEF Ordered, FlagOwned, WriterAt, TextOnce
<1> QED BY <1>5, <1>6, <1>7 DEF Ordered

(* What one reader does in its calls; nobody else is in one.               *)
LEMMA ReaderOrdered ==
  ASSUME ProcInv, NEW r \in Readers, ReaderStep(r), Calm'
  PROVE  Ordered'
<1>1. ~ ReadGone(r) /\ Calm /\ ~ disturbed'
  <2>1. (present' <=> present) /\ (disturbed => disturbed')
    <3>1. CASE CopyToUser(r)
      BY <3>1, Zenon DEF CopyToUser
    <3>2. CASE TestRead(r)
      BY <3>2, Zenon DEF TestRead
    <3>3. CASE ReturnEof(r)
      BY <3>3, Zenon DEF ReturnEof
    <3>4. CASE ReturnData(r)
      <4>1. present' = present /\ (disturbed' = disturbed \/ disturbed' = TRUE)
        BY <3>4, Zenon DEF ReturnData
      <4> QED BY <4>1
    <3>5. CASE ReadGone(r)
      BY <3>5, Zenon DEF ReadGone
    <3> QED BY <3>1, <3>2, <3>3, <3>4, <3>5 DEF ReaderStep
  <2>2. present' /\ ~ disturbed'
    BY Zenon DEF Calm
  <2> QED BY <2>1, <2>2, Zenon DEF Calm, ReadGone
<1>2. ProcTypes /\ Ordered
  BY <1>1 DEF ProcInv
<1>3. UNCHANGED <<msg, f_write, wpc>> /\ Reading(r)
  BY DEF ReaderStep, CopyToUser, TestRead, ReturnEof, ReturnData, ReadGone,
         ReaderGoes, Reading
<1>4. /\ \A q \in Readers \ {r} : rpc[q] \in {"new", "done"}
      /\ \A w \in Writers : wpc[w] \in {"new", "done"}
  BY <1>2, <1>3 DEF Ordered, InTurn, Reading, Writing
<1>5. (\A w \in Writers : WriterAt(w)') /\ TextOnce'
  BY <1>2, <1>3 DEF Ordered, WriterAt, TextOnce
<1>6. /\ rpc' \in [Readers -> {"new", "read", "test", "eof", "data", "done"}]
      /\ \A q \in Readers \ {r} : /\ rpc'[q] = rpc[q] /\ rbuf'[q] = rbuf[q]
                                  /\ got'[q] = got[q]
  BY <1>1, <1>2 DEF ReaderStep, CopyToUser, TestRead, ReturnEof, ReturnData,
                    ReaderGoes, ProcTypes
<1>7. InTurn'
  BY <1>3, <1>4, <1>6 DEF InTurn, Reading, Writing
<1>8. \A q \in Readers \ {r} : ReaderAt(q)'
  BY <1>2, <1>3, <1>4, <1>6 DEF Ordered, ReaderAt, Served
<1>9. ReaderAt(r)' /\ FlagOwned'
  <2>1. CASE CopyToUser(r)
    <3>1. rbuf'[r] = msg
      <4>1. ~ \E w \in Writers : wpc[w] \in {"copy", "clash"}
        BY <1>4
      <4>2. rbuf' = [rbuf EXCEPT ![r] = msg]
        BY <2>1, <4>1, Zenon DEF CopyToUser
      <4> QED BY <1>2, <4>2 DEF ProcTypes
    <3>2. /\ rpc[r] = "read" /\ rpc'[r] = "test" /\ UNCHANGED <<f_read, got>>
      BY <1>2, <2>1 DEF CopyToUser, ReaderGoes, ProcTypes
    <3> QED BY <1>2, <1>3, <3>1, <3>2 DEF Ordered, ReaderAt, Served, FlagOwned, Reading
  <2>2. CASE TestRead(r)
    <3>1. /\ rpc[r] = "test" /\ rpc'[r] = (IF f_read = 1 THEN "eof" ELSE "data")
          /\ UNCHANGED <<f_read, got, rbuf>>
      BY <1>2, <2>2 DEF TestRead, ReaderGoes, ProcTypes
    <3>2. ReaderAt(r) /\ f_read \in 0 .. 1
      BY <1>2 DEF Ordered, ProcTypes
    <3>3. ReaderAt(r)'
      BY <1>3, <3>1, <3>2 DEF ReaderAt, Served
    <3>4. Reading(r)'
      BY <3>1 DEF Reading
    <3> QED BY <3>3, <3>4 DEF FlagOwned
  <2>3. CASE ReturnEof(r)
    <3>1. /\ rpc[r] = "eof" /\ rpc'[r] = "done" /\ f_read' = 0
          /\ UNCHANGED <<got, rbuf>>
      BY <1>2, <2>3 DEF ReturnEof, ReaderGoes, ProcTypes
    <3> QED BY <1>2, <1>3, <3>1 DEF Ordered, ReaderAt, Served, FlagOwned
  <2>4. CASE ReturnData(r)
    <3>1. /\ rpc[r] = "data" /\ rpc'[r] = "read" /\ f_read' = 1 /\ rbuf[r] # NoText
          /\ got' = [got EXCEPT ![r] = Append(got[r], rbuf[r])]
      BY <1>1, <1>2, <2>4 DEF ReturnData, ReaderGoes, ProcTypes
    <3>2. got[r] = <<>> /\ rbuf[r] = msg
      BY <1>2, <3>1 DEF Ordered, ReaderAt
    <3>3. got'[r] = <<msg>>
      BY <1>2, <3>1, <3>2 DEF ProcTypes
    <3> QED BY <1>3, <3>1, <3>2, <3>3 DEF ReaderAt, Served, FlagOwned, Reading
  <2> QED BY <1>1, <2>1, <2>2, <2>3, <2>4 DEF ReaderStep
<1> QED BY <1>5, <1>7, <1>8, <1>9 DEF Ordered

(* A write begins while nobody is in a call, or it disturbs.               *)
LEMMA WriterOrdered ==
  ASSUME ProcInv, NEW w \in Writers, WriterStep(w), Calm'
  PROVE  Ordered'
<1>1. ProcTypes /\ Ordered
  BY DEF WriterStep, TestWrite, CopyFromUser, SetWritten, Calm, ProcInv
<1>2. /\ UNCHANGED <<f_read, rpc, rbuf, got>>
      /\ \A r \in Readers : rpc[r] \in {"new", "done"}
      /\ \A v \in Writers \ {w} : wpc[v] \in {"new", "done"} /\ wpc'[v] = wpc[v]
  <2>1. CASE TestWrite(w)
    <3>1. ~ Busy
      BY <2>1 DEF TestWrite, Calm
    <3> QED BY <1>1, <2>1, <3>1 DEF TestWrite, Busy, Reading, Writing
  <2>2. CASE CopyFromUser(w) \/ SetWritten(w)
    <3>1. Writing(w)
      BY <2>2 DEF CopyFromUser, SetWritten, WriterGoes, Writing
    <3> QED BY <1>1, <2>2, <3>1
            DEF CopyFromUser, SetWritten, WriterGoes, Ordered, InTurn, Reading, Writing,
                ProcTypes
  <2> QED BY <2>1, <2>2 DEF WriterStep
<1>3. InTurn' /\ FlagOwned'
  BY <1>1, <1>2 DEF Ordered, InTurn, FlagOwned, Reading, Writing
<1>4. \A v \in Writers \ {w} : WriterAt(v)'
  BY <1>2 DEF WriterAt
<1>5. WriterAt(w)' /\ TextOnce' /\ \A r \in Readers : ReaderAt(r)'
  <2>1. CASE TestWrite(w)
    <3>1. /\ ~ \E v \in Writers : wpc[v] \in {"copy", "clash"}
          /\ UNCHANGED <<msg, f_write>> /\ wpc[w] = "new"
      BY <1>2, <2>1 DEF TestWrite
    <3>2. wpc'[w] = IF f_write = 1 THEN "done" ELSE "copy"
      BY <2>1, <3>1, Zenon DEF TestWrite
    <3>3. f_write = 0 => msg = NoText
      BY <1>1, <1>2, <3>1 DEF Ordered, TextOnce
    <3> QED BY <1>1, <1>2, <3>1, <3>2, <3>3
            DEF Ordered, WriterAt, TextOnce, ReaderAt, Served, ProcTypes
  <2>2. CASE CopyFromUser(w)
    <3>1. wpc[w] = "copy" /\ wpc'[w] = "flag" /\ msg' = w /\ UNCHANGED f_write
      BY <1>1, <2>2 DEF CopyFromUser, WriterGoes, Ordered, WriterAt, ProcTypes
    <3>2. msg = NoText /\ msg' # NoText
      BY <1>1, <3>1, ProcAssumption DEF Ordered, WriterAt
    <3>3. \A r \in Readers : rpc[r] = "new"
      BY <1>1, <1>2, <3>2 DEF Ordered, ReaderAt, Served
    <3>4. f_write = 0
      BY <1>1, <3>2 DEF Ordered, TextOnce, ProcTypes
    <3> QED BY <1>1, <1>2, <3>1, <3>2, <3>3, <3>4
            DEF Ordered, WriterAt, TextOnce, ReaderAt
  <2>3. CASE SetWritten(w)
    <3>1. wpc[w] = "flag" /\ wpc'[w] = "done" /\ f_write' = 1 /\ UNCHANGED msg
      BY <1>1, <2>3 DEF SetWritten, WriterGoes, ProcTypes
    <3>2. msg # NoText
      BY <1>1, <3>1 DEF Ordered, WriterAt
    <3> QED BY <1>1, <1>2, <3>1, <3>2 DEF Ordered, WriterAt, TextOnce, ReaderAt, Served
  <2> QED BY <2>1, <2>2, <2>3 DEF WriterStep
<1> QED BY <1>3, <1>4, <1>5 DEF Ordered

LEMMA ProcNextInv == ProcInv /\ [ProcNext]_procVars => ProcInv'
<1> SUFFICES ASSUME ProcInv, [ProcNext]_procVars PROVE ProcInv'
  OBVIOUS
<1>1. ProcTypes'
  BY ProcStepTypes DEF ProcInv
<1>2. ASSUME Calm' PROVE Ordered'
  <2>1. ASSUME NEW r \in Readers, OpenToRead(r) PROVE Ordered'
    BY <1>2, <2>1, OpenOrdered
  <2>2. ASSUME NEW r \in Readers, ReaderStep(r) PROVE Ordered'
    BY <1>2, <2>2, ReaderOrdered
  <2>3. ASSUME NEW w \in Writers, WriterStep(w) PROVE Ordered'
    BY <1>2, <2>3, WriterOrdered
  <2>4. ~ Cleanup
    BY <1>2 DEF Cleanup, Calm
  <2>5. CASE UNCHANGED procVars
    <3>1. UNCHANGED <<msg, f_read, f_write, rpc, rbuf, wpc, got>> /\ Calm
      BY <1>2, <2>5, Zenon DEF procVars, Calm
    <3>2. Ordered
      BY <3>1 DEF ProcInv
    <3> QED BY <3>1, <3>2
            DEF Ordered, InTurn, Reading, Writing, ReaderAt, Served, FlagOwned,
                WriterAt, TextOnce
  <2> QED BY <2>1, <2>2, <2>3, <2>4, <2>5 DEF ProcNext
<1> QED BY <1>1, <1>2 DEF ProcInv

(* The invariant of the proc file device.                                  *)
THEOREM ProcInvariance == ProcSpec => []ProcInv
BY ProcInitInv, ProcNextInv, PTL DEF ProcSpec

(* For any number of readers and writers of procfs.c: as long as they come *)
(* one at a time, read to the end and find a message, each reader has been *)
(* given the message once, and it is the one that is stored now.           *)
THEOREM MessageOnce == ProcSpec => []OneChunkEach
<1>1. ProcInv => OneChunkEach
  BY DEF ProcInv, Calm, Ordered, ReaderAt, Served, OneChunkEach
<1> QED BY <1>1, ProcInvariance, PTL

-----------------------------------------------------------------------------
(* UdpPairs. The links a datagram can be on that may still become an answer*)
(* for the client, and how many are on them.                               *)
cs == <<"client", "server">>
sc == <<"server", "client">>
cc == <<"client", "client">>
ss == <<"server", "server">>
tc == <<"stranger", "client">>
Near == {cs, sc, cc, ss, tc}
OnNear(bag) == bag[cs] + bag[sc] + bag[cc] + bag[ss] + bag[tc]

(* A request of the server to itself counts as well: it would be answered. *)
BeingAnswered == IF spc = "reply" /\ caddr \in {"client", "server"} THEN 1 ELSE 0
Waiting == IF cpc = "recv" THEN 1 ELSE 0

PairTypes ==
  /\ net \in [Links -> Nat] /\ queue \in [Links -> Nat] /\ extra \in Nat
  /\ addr \in Ends /\ caddr \in Ends
  /\ cpc \in {"send", "recv", "over"} /\ spc \in {"recv", "reply"}

OneToken ==
  kind \in {"echo", "time"}
    => OnNear(net) + OnNear(queue) + BeingAnswered <= extra + Waiting

PairInv == PairTypes /\ OneToken

LEMMA LinksApart ==
  /\ cs \in Links /\ sc \in Links /\ cc \in Links /\ ss \in Links /\ tc \in Links
  /\ cs # sc /\ cs # cc /\ cs # ss /\ cs # tc /\ sc # cc /\ sc # ss /\ sc # tc
  /\ cc # ss /\ cc # tc /\ ss # tc
  BY DEF Links, Ends, cs, sc, cc, ss, tc

(* A datagram that is put on a link, which may be full.                    *)
LEMMA PutOne ==
  ASSUME NEW bag \in [Links -> Nat], NEW l \in Links
  PROVE  /\ Put(bag, l) \in [Links -> Nat]
         /\ OnNear(Put(bag, l)) \in {OnNear(bag), OnNear(bag) + 1}
         /\ l \notin Near => OnNear(Put(bag, l)) = OnNear(bag)
<1> DEFINE new == Put(bag, l)
<1>1. PICK n \in {bag[l], bag[l] + 1} : new = [bag EXCEPT ![l] = n]
  BY DEF Put
<1>2. new \in [Links -> Nat]
  BY <1>1
<1>3. new[l] = n /\ \A k \in Links \ {l} : new[k] = bag[k]
  BY <1>1
<1> HIDE DEF new
<1>4. \A k \in Links : bag[k] \in Nat
  OBVIOUS
<1>5. OnNear(new) \in {OnNear(bag), OnNear(bag) + 1}
      /\ (l \notin Near => OnNear(new) = OnNear(bag))
  BY <1>1, <1>3, <1>4, LinksApart DEF OnNear, Near
<1> QED BY <1>2, <1>5 DEF new

(* A datagram that is taken from a link.                                   *)
LEMMA TakeOne ==
  ASSUME NEW bag \in [Links -> Nat], NEW l \in Links, bag[l] > 0
  PROVE  /\ Take(bag, l) \in [Links -> Nat]
         /\ OnNear(Take(bag, l)) = OnNear(bag) - (IF l \in Near THEN 1 ELSE 0)
<1> DEFINE new == Take(bag, l)
<1>1. new = [bag EXCEPT ![l] = bag[l] - 1]
  BY DEF Take
<1>2. new \in [Links -> Nat]
  BY <1>1
<1>3. new[l] = bag[l] - 1 /\ \A k \in Links \ {l} : new[k] = bag[k]
  BY <1>1
<1> HIDE DEF new
<1>4. \A k \in Links : bag[k] \in Nat
  OBVIOUS
<1>5. OnNear(new) = OnNear(bag) - (IF l \in Near THEN 1 ELSE 0)
  BY <1>3, <1>4, LinksApart DEF OnNear, Near
<1> QED BY <1>2, <1>5 DEF new

LEMMA OnNearNat ==
  ASSUME NEW bag \in [Links -> Nat]
  PROVE  OnNear(bag) \in Nat
  BY LinksApart DEF OnNear

LEMMA PairInit == UdpInit => PairInv
<1> SUFFICES ASSUME UdpInit PROVE PairInv
  OBVIOUS
<1>1. net \in [Links -> Nat] /\ queue \in [Links -> Nat]
      /\ \A l \in Links : net[l] = 0 /\ queue[l] = 0
  BY DEF UdpInit, None
<1>2. PairTypes
  BY <1>1 DEF UdpInit, PairTypes, Ends
<1>3. OnNear(net) = 0 /\ OnNear(queue) = 0
  BY <1>1, LinksApart DEF OnNear
<1>4. OneToken
  BY <1>3 DEF UdpInit, OneToken, BeingAnswered, Waiting
<1> QED BY <1>2, <1>4 DEF PairInv

(* One step: whoever takes the token has it, and only extra makes another. *)
LEMMA PairNext == PairInv /\ [UdpNext]_udpVars => PairInv'
<1> SUFFICES ASSUME PairInv, [UdpNext]_udpVars PROVE PairInv'
  OBVIOUS
<1> DEFINE N == OnNear(net)
           Q == OnNear(queue)
<1>1. PairTypes /\ OneToken /\ N \in Nat /\ Q \in Nat
  BY OnNearNat DEF PairInv, PairTypes
<1>2. CASE ClientSend
  <2>1. /\ cpc = "send" /\ net' = Put(net, <<"client", addr>>) /\ <<"client", addr>> \in Links
        /\ cpc' = (IF kind \in {"echo", "time"} THEN "recv" ELSE "send")
        /\ UNCHANGED <<kind, addr, spc, caddr, queue, extra>>
    BY <1>1, <1>2 DEF ClientSend, PairTypes, Links, Ends
  <2>2. PairTypes' /\ N' \in {N, N + 1}
    BY <1>1, <2>1, PutOne DEF PairTypes
  <2>3. OneToken'
    BY <1>1, <2>1, <2>2 DEF OneToken, BeingAnswered, Waiting, PairTypes
  <2> QED BY <2>2, <2>3 DEF PairInv
<1>3. ASSUME NEW e \in Ends, ClientRecv(e) PROVE PairInv'
  <2>1. /\ cpc = "recv" /\ queue[<<e, "client">>] > 0 /\ queue' = Take(queue, <<e, "client">>)
        /\ <<e, "client">> \in Links /\ <<e, "client">> \in Near
        /\ cpc' \in {"send", "over"} /\ addr' \in {addr, e}
        /\ UNCHANGED <<kind, spc, caddr, net, extra>>
    BY <1>3 DEF ClientRecv, Links, Ends, Near, cs, sc, cc, ss, tc
  <2>2. PairTypes' /\ Q' = Q - 1
    BY <1>1, <2>1, TakeOne DEF PairTypes
  <2>3. OneToken'
    BY <1>1, <2>1, <2>2 DEF OneToken, BeingAnswered, Waiting, PairTypes
  <2> QED BY <2>2, <2>3 DEF PairInv
<1>4. ASSUME NEW e \in Ends, ServerRecv(e) PROVE PairInv'
  <2>1. /\ spc = "recv" /\ queue[<<e, "server">>] > 0 /\ queue' = Take(queue, <<e, "server">>)
        /\ <<e, "server">> \in Links
        /\ <<e, "server">> \in Near <=> e \in {"client", "server"}
        /\ spc' \in {"recv", "reply"} /\ caddr' = e
        /\ UNCHANGED <<kind, addr, cpc, net, extra>>
    BY <1>4 DEF ServerRecv, Links, Ends, Near, cs, sc, cc, ss, tc
  <2>2. PairTypes' /\ Q' = Q - (IF e \in {"client", "server"} THEN 1 ELSE 0)
    BY <1>1, <2>1, TakeOne DEF PairTypes
  <2>3. OneToken'
    BY <1>1, <2>1, <2>2 DEF OneToken, BeingAnswered, Waiting, PairTypes
  <2> QED BY <2>2, <2>3 DEF PairInv
<1>5. CASE ServerReply
  <2>1. /\ spc = "reply" /\ spc' = "recv" /\ net' = Put(net, <<"server", caddr>>)
        /\ <<"server", caddr>> \in Links
        /\ <<"server", caddr>> \in Near => caddr \in {"client", "server"}
        /\ UNCHANGED <<kind, addr, cpc, caddr, queue, extra>>
    BY <1>1, <1>5 DEF ServerReply, PairTypes, Links, Ends, Near, cs, sc, cc, ss, tc
  <2>2. /\ PairTypes' /\ N' \in {N, N + 1}
        /\ caddr \notin {"client", "server"} => N' = N
    BY <1>1, <2>1, PutOne DEF PairTypes
  <2>3. OneToken'
    BY <1>1, <2>1, <2>2 DEF OneToken, BeingAnswered, Waiting, PairTypes
  <2> QED BY <2>2, <2>3 DEF PairInv
<1>6. CASE StopClient \/ LoadOrUnload \/ UNCHANGED udpVars
  <2>1. UNCHANGED <<kind, cpc, addr, spc, caddr, net, queue, extra>>
    BY <1>6 DEF StopClient, LoadOrUnload, udpVars
  <2> QED BY <1>1, <2>1 DEF PairInv, PairTypes, OneToken, OnNear, BeingAnswered, Waiting
<1>7. ASSUME NEW l \in Links, Deliver(l) PROVE PairInv'
  <2>1. /\ net[l] > 0 /\ net' = Take(net, l) /\ queue' \in {queue, Put(queue, l)}
        /\ UNCHANGED <<kind, cpc, addr, spc, caddr, extra>>
    BY <1>7 DEF Deliver
  <2>2. PairTypes' /\ N' = N - (IF l \in Near THEN 1 ELSE 0)
    BY <1>1, <2>1, TakeOne, PutOne DEF PairTypes
  <2>3. Q' \in {Q, Q + 1} /\ (l \notin Near => Q' = Q)
    BY <1>1, <2>1, PutOne DEF PairTypes
  <2>4. OneToken'
    BY <1>1, <2>1, <2>2, <2>3 DEF OneToken, BeingAnswered, Waiting, PairTypes
  <2> QED BY <2>2, <2>4 DEF PairInv
<1>8. ASSUME NEW l \in Links, Lose(l) PROVE PairInv'
  <2>1. /\ net[l] > 0 /\ net' = Take(net, l)
        /\ UNCHANGED <<kind, cpc, addr, spc, caddr, queue, extra>>
    BY <1>8 DEF Lose
  <2>2. PairTypes' /\ N' = N - (IF l \in Near THEN 1 ELSE 0)
    BY <1>1, <2>1, TakeOne DEF PairTypes
  <2>3. OneToken'
    BY <1>1, <2>1, <2>2 DEF OneToken, BeingAnswered, Waiting, PairTypes
  <2> QED BY <2>2, <2>3 DEF PairInv
<1>9. ASSUME NEW l \in Links, Extra(l) PROVE PairInv'
  <2>1. /\ extra' = extra + 1 /\ net' = Put(net, l)
        /\ UNCHANGED <<kind, cpc, addr, spc, caddr, queue>>
    BY <1>9 DEF Extra
  <2>2. PairTypes' /\ N' \in {N, N + 1}
    BY <1>1, <2>1, PutOne DEF PairTypes
  <2>3. OneToken'
    BY <1>1, <2>1, <2>2 DEF OneToken, BeingAnswered, Waiting, PairTypes
  <2> QED BY <2>2, <2>3 DEF PairInv
<1> QED BY <1>2, <1>3, <1>4, <1>5, <1>6, <1>7, <1>8, <1>9
        DEF UdpNext, ClientStep, ServerStep

(* The invariant of the datagram pairs.                                    *)
THEOREM PairInvariance == UdpSpec => []PairInv
BY PairInit, PairNext, PTL DEF UdpSpec

(* For every number of duplicates and of the stranger's datagrams, and any *)
(* capacity: an echo or time client has at most one request out, and only  *)
(* while it waits, beyond what was added.                                  *)
THEOREM OneRequestOut == UdpSpec => []OneOutstanding
<1>1. PairInv => OneOutstanding
  <2> SUFFICES ASSUME PairInv, kind \in {"echo", "time"}
               PROVE  Alive <= extra + (IF cpc = "recv" THEN 1 ELSE 0)
    BY DEF OneOutstanding
  <2>1. \A l \in Links : net[l] \in Nat /\ queue[l] \in Nat
    BY DEF PairInv, PairTypes
  <2>2. Alive = OnNear(net) + OnNear(queue)
                + (IF spc = "reply" /\ caddr = "client" THEN 1 ELSE 0)
    <3>1. Alive = (net[cs] + queue[cs]) + (net[sc] + queue[sc]) + (net[cc] + queue[cc])
                  + (net[ss] + queue[ss]) + (net[tc] + queue[tc])
                  + (IF spc = "reply" /\ caddr = "client" THEN 1 ELSE 0)
      BY Zenon DEF Alive, cs, sc, cc, ss, tc
    <3> QED BY <2>1, <3>1, LinksApart DEF OnNear
  <2>3. OnNear(net) \in Nat /\ OnNear(queue) \in Nat /\ extra \in Nat
    BY OnNearNat DEF PairInv, PairTypes
  <2> QED BY <2>2, <2>3 DEF PairInv, OneToken, BeingAnswered, Waiting
<1> QED BY <1>1, PairInvariance, PTL

-----------------------------------------------------------------------------
(* Packets. Arithmetic in small steps, the products kept apart from the    *)
(* sums.                                                                   *)
LEMMA Products ==
  ASSUME NEW p \in Int, NEW q \in Int
  PROVE  /\ 65535 * q \in Int /\ 65536 * q = 65535 * q + q
         /\ 65535 * q - 65535 * p = 65535 * (q - p)
<1>1. 65536 * q = 65535 * q + q
  BY SMT
<1>2. 65535 * q - 65535 * p = 65535 * (q - p)
  BY SMT
<1> QED BY <1>1, <1>2, SMT

LEMMA NoneBetween ==
  ASSUME NEW d \in Int, NEW x \in Int, x = 65535 * d, x < 65535, x > -65535
  PROVE  d = 0
  BY SMT

LEMMA OneBetween ==
  ASSUME NEW d \in Int, NEW x \in Int, x = 65535 * d, x < 131070, x > 0
  PROVE  d = 1
  BY SMT

LEMMA NoneBetweenHalves ==
  ASSUME NEW p \in Int, NEW q \in Int, NEW x \in Int, NEW y \in Int,
         x = 65536 * p, y = 65536 * q, y - x < 65536, y - x > -65536
  PROVE  p = q
<1>1. y - x = 65536 * (q - p)
  BY SMT
<1>2. ASSUME NEW d \in Int, NEW z \in Int, z = 65536 * d, z < 65536, z > -65536
      PROVE  d = 0
  BY <1>2, SMT
<1>3. q - p = 0
  BY <1>1, <1>2, SMT
<1> QED BY <1>3, SMT

-----------------------------------------------------------------------------
(* Quotients and remainders by 65536, whose halves the code adds, and by   *)
(* 65535, what its sums are compared by.                                   *)
Word(n) == n \in Nat /\ n <= 65535
Bit(c) == c \in Nat /\ c <= 1

Halved(n, q, r) == q \in Nat /\ Word(r) /\ n = 65536 * q + r

LEMMA Halves ==
  ASSUME NEW n \in Nat
  PROVE  Halved(n, n \div 65536, n % 65536)
<1>1. n \div 65536 \in Nat
  BY SMT
<1>2. n % 65536 \in Nat /\ n % 65536 < 65536
  BY SMT
<1>3. n = 65536 * (n \div 65536) + (n % 65536)
  BY SMT
<1> QED BY <1>1, <1>2, <1>3, SMT DEF Halved, Word

LEMMA HalvedOnce ==
  ASSUME NEW n, NEW p, NEW q, NEW r, NEW s, Halved(n, p, s), Halved(n, q, r)
  PROVE  p = q /\ s = r
<1> DEFINE x == 65536 * p
           y == 65536 * q
<1>1. p \in Int /\ q \in Int
  BY SMT DEF Halved
<1>2. x \in Int /\ y \in Int
  BY <1>1, SMT
<1>3. n = x + s /\ n = y + r /\ Word(r) /\ Word(s)
  BY SMT DEF Halved
<1>4. p = q
  <2>1. y - x < 65536 /\ y - x > -65536
    <3> HIDE DEF x, y
    <3> QED BY <1>2, <1>3, SMT DEF Word
  <2> QED BY <1>1, <1>2, <2>1, NoneBetweenHalves, SMT
<1>5. x = y
  BY <1>4, SMT
<1> HIDE DEF x, y
<1>6. s = r
  BY <1>2, <1>3, <1>5, SMT DEF Word
<1> QED BY <1>4, <1>6

LEMMA HalvesAre ==
  ASSUME NEW n \in Nat, NEW q, NEW r, Halved(n, q, r)
  PROVE  n \div 65536 = q /\ n % 65536 = r
<1>1. Halved(n, n \div 65536, n % 65536)
  BY Halves, SMT
<1> QED BY <1>1, HalvedOnce, SMT

LEMMA Multiple ==
  ASSUME NEW n \in Int, NEW k \in Int, n = 65535 * k
  PROVE  n % 65535 = 0
  BY SMT

LEMMA MultipleOf ==
  ASSUME NEW n \in Int, n % 65535 = 0
  PROVE  \E k \in Int : n = 65535 * k
<1>1. n \div 65535 \in Int
  BY SMT
<1>2. n = 65535 * (n \div 65535)
  BY SMT
<1> QED BY <1>1, <1>2, SMT

(* Adding the halves keeps the remainder, and only nothing folds to zero.  *)
LEMMA FoldIsSum ==
  ASSUME NEW high, NEW low, Word(high), Word(low)
  PROVE  /\ Word(Fold(high, low))
         /\ Fold(high, low) = high + low \/ Fold(high, low) = high + low - 65535
         /\ Fold(high, low) = 65535 <=> high + low = 65535 \/ high + low = 131070
<1> DEFINE t == high + low
           f == Fold(high, low)
<1>1. t \in Nat /\ t <= 131070
  BY SMT DEF Word
<1>2. f = (t + (t \div 65536)) % 65536
  BY SMT DEF Fold
<1> HIDE DEF t, f
<1> DEFINE Sums == /\ Word(f) 
                   /\ f = t \/ f = t - 65535
                   /\ f = 65535 <=> (t = 65535 \/ t = 131070)
<1>3. ASSUME t < 65536 PROVE Sums
  <2>1. t + 0 = t /\ Halved(t, 0, t)
    BY <1>1, <1>3, SMT DEF Word, Halved
  <2>2. t \div 65536 = 0 /\ t % 65536 = t
    BY <1>1, <2>1, HalvesAre, SMT
  <2>3. f = t
    BY <1>2, <2>1, <2>2, SMT
  <2> QED BY <1>1, <1>3, <2>3, SMT DEF Word
<1>4. ASSUME t >= 65536 PROVE Sums
  <2>1. t + 1 \in Nat /\ Halved(t, 1, t - 65536) /\ Halved(t + 1, 1, t - 65535)
    BY <1>1, <1>4, SMT DEF Word, Halved
  <2>2. t \div 65536 = 1 /\ (t + 1) % 65536 = t - 65535
    BY <1>1, <2>1, HalvesAre, SMT
  <2>3. f = t - 65535
    BY <1>2, <2>2, SMT
  <2> QED BY <1>1, <1>4, <2>3, SMT DEF Word
<1>5. Sums
  BY <1>1, <1>3, <1>4, SMT
<1>6. high \in Nat /\ low \in Nat
  BY DEF Word
<1> QED BY <1>5, <1>6, SMT DEF t, f

-----------------------------------------------------------------------------
(* checksum() completes the sum of the longest packet to a multiple.       *)
Sum(n) == n \in Nat /\ n <= 2147319810 + 65535

LEMMA ChecksumCompletes ==
  ASSUME NEW n, Sum(n)
  PROVE  Word(Checksum(n)) /\ \E k \in Int : n + Checksum(n) = 65535 * k
<1> DEFINE q == n \div 65536
           r == n % 65536
           f == Fold(q, r)
           x == 65535 * q
           c == Checksum(n)
<1>1. n \in Nat /\ Halved(n, q, r)
  BY Halves, SMT DEF Sum
<1>2. c = 65535 - f
  BY SMT DEF Checksum
<1> HIDE DEF q, r, c
<1>3. q \in Int /\ q >= 0 /\ Word(r)
  BY <1>1, SMT DEF Halved
<1>4. n = x + q + r /\ x \in Int
  BY <1>1, <1>3, Products, SMT DEF Halved
<1>5. Word(q)
  <2>1. q <= 65535
    <3>1. SUFFICES ASSUME q >= 65536 PROVE FALSE
      BY <1>3, SMT
    <3>2. x >= 4294901760
      BY <1>3, <3>1, SMT
    <3> HIDE DEF x
    <3> QED BY <1>1, <1>3, <1>4, <3>2, SMT DEF Sum, Word
  <2> QED BY <1>3, <2>1, SMT DEF Word
<1>6. Word(f) /\ (f = q + r \/ f = q + r - 65535)
  BY <1>3, <1>5, FoldIsSum, SMT
<1> HIDE DEF f
<1>7. Word(c)
  BY <1>2, <1>6, SMT DEF Word
<1>8. n + c = x + 65535 \/ n + c = x + 65535 + 65535
  <2> HIDE DEF x
  <2> QED BY <1>2, <1>3, <1>4, <1>5, <1>6, SMT DEF Word
<1>9. x + 65535 = 65535 * (q + 1)
  BY <1>3, SMT
<1>10. (x + 65535) + 65535 = 65535 * ((q + 1) + 1)
  <2>1. q + 1 \in Int
    BY <1>3, SMT
  <2> QED BY <1>9, <2>1, SMT
<1> HIDE DEF x
<1>11. \E k \in Int : n + c = 65535 * k
  <2>1. q + 1 \in Int /\ (q + 1) + 1 \in Int
    BY <1>3, SMT
  <2>2. CASE n + c = x + 65535
    BY <1>9, <2>1, <2>2, SMT
  <2>3. CASE n + c = x + 65535 + 65535
    BY <1>10, <2>1, <2>3, SMT
  <2> QED BY <1>8, <2>2, <2>3
<1> QED BY <1>7, <1>11 DEF c

(* A message whose checksum was computed over g in its field verifies if   *)
(* and only if g counts as zero.                                           *)
LEMMA EchoChecksum ==
  ASSUME NEW m \in Nat, m <= 2147319810, NEW g, Word(g)
  PROVE  (m + Checksum(m + g)) % 65535 = 0 <=> (g = 0 \/ g = 65535)
<1> DEFINE c == Checksum(m + g)
<1>1. Sum(m + g)
  BY SMT DEF Sum, Word
<1>2. Word(c)
  BY <1>1, ChecksumCompletes
<1>3. PICK k \in Int : m + g + c = 65535 * k
  BY <1>1, ChecksumCompletes
<1> HIDE DEF c
<1> DEFINE x == 65535 * k
<1>4. x \in Int /\ m + g + c = x
  BY <1>3, SMT
<1>5. c \in Int /\ g \in Int /\ m + c \in Int /\ g >= 0 /\ g <= 65535
  BY <1>2, SMT DEF Word
<1>6. ASSUME g = 0 \/ g = 65535 PROVE (m + c) % 65535 = 0
  <2>1. m + c = x \/ m + c = x - 65535
    <3> HIDE DEF x
    <3> QED BY <1>4, <1>5, <1>6, SMT
  <2>2. x - 65535 = 65535 * (k - 1)
    BY SMT
  <2> QED BY <1>5, <2>1, <2>2, Multiple, SMT
<1>7. ASSUME (m + c) % 65535 = 0 PROVE g = 0 \/ g = 65535
  <2>1. PICK j \in Int : m + c = 65535 * j
    BY <1>5, <1>7, MultipleOf, SMT
  <2> DEFINE y == 65535 * j
  <2>2. y \in Int /\ m + c = y /\ x - y = 65535 * (k - j)
    BY <2>1, Products, SMT
  <2>3. g = x - y /\ x - y \in Int /\ k - j \in Int
    <3> HIDE DEF x, y
    <3> QED BY <1>4, <1>5, <2>2, SMT
  <2>4. x - y = 0 \/ k - j = 1
    <3>1. CASE x - y = 0
      BY <3>1
    <3>2. CASE x - y > 0
      <4>1. x - y < 131070
        <5> HIDE DEF x, y
        <5> QED BY <1>5, <2>3, SMT
      <4> QED BY <2>2, <2>3, <3>2, <4>1, OneBetween, SMT
    <3> HIDE DEF x, y
    <3> QED BY <1>5, <2>3, <3>1, <3>2, SMT
  <2>5. CASE k - j = 1
    <3>1. x - y = 65535
      BY <2>2, <2>5, SMT
    <3> QED BY <2>3, <3>1, SMT
  <2> QED BY <2>3, <2>4, <2>5, SMT
<1> QED BY <1>6, <1>7 DEF c

-----------------------------------------------------------------------------
(* check_sum() entered with the halves a and b: what it says of a total.   *)
Outcome(a, b, n, q, r, c) ==
  /\ q \in Int /\ r \in Int /\ c \in Int
  /\ b + n = 65536 * q + r /\ q >= 0 /\ q <= 32768 /\ r >= 0 /\ r <= 65535
  /\ Bit(c) /\ (a + q < 65536 <=> c = 0)
  /\ CheckSum(<<a, b>>, n) = 0
       <=> (a + q + r - 65536 * c = 65535 \/ a + q + r - 65536 * c = 131070)

LEMMA CheckSumIsZero ==
  ASSUME NEW a, Word(a), NEW b, Word(b), NEW n, Sum(n)
  PROVE  \E q, r, c : Outcome(a, b, n, q, r, c)
<1> DEFINE q == (b + n) \div 65536
           r == (b + n) % 65536
           c == (a + q) \div 65536
           h == (a + q) % 65536
<1>1. b + n \in Nat /\ b + n <= 2147450880 /\ a \in Nat /\ a <= 65535
  BY SMT DEF Word, Sum
<1>2. Halved(b + n, q, r)
  BY <1>1, Halves, SMT
<1>3. CheckSum(<<a, b>>, n) = 65535 - Fold(h, r)
  <2>1. <<a, b>>[1] = a /\ <<a, b>>[2] = b
    OBVIOUS
  <2> QED BY <2>1, SMT DEF CheckSum
<1> HIDE DEF q, r
<1>4. q \in Nat /\ Word(r) /\ b + n = 65536 * q + r
  BY <1>2 DEF Halved
<1>5. q <= 32768
  <2>1. SUFFICES ASSUME q >= 32769 PROVE FALSE
    BY <1>4, SMT
  <2>2. 65536 * q >= 2147549184
    BY <1>4, <2>1, SMT
  <2> QED BY <1>1, <1>4, <2>2, SMT DEF Word
<1>6. a + q \in Nat /\ a + q <= 98303
  BY <1>1, <1>4, <1>5, SMT
<1>7. Halved(a + q, c, h)
  BY <1>6, Halves, SMT
<1> HIDE DEF c, h
<1>8. c \in Nat /\ Word(h) /\ a + q = 65536 * c + h
  BY <1>7 DEF Halved
<1>9. Bit(c) /\ (a + q < 65536 <=> c = 0)
  <2>1. c >= 2 => 65536 * c >= 131072
    BY <1>8, SMT
  <2>2. c >= 1 => 65536 * c >= 65536
    BY <1>8, SMT
  <2>3. 65536 * c \in Int
    BY <1>8, SMT
  <2> QED BY <1>6, <1>8, <2>1, <2>2, <2>3, SMT DEF Word, Bit
<1>10. h = a + q - 65536 * c
  BY <1>1, <1>4, <1>8, SMT DEF Word
<1>11. Word(Fold(h, r)) /\ (Fold(h, r) = 65535 <=> h + r = 65535 \/ h + r = 131070)
  BY <1>4, <1>8, FoldIsSum, SMT
<1>12. CheckSum(<<a, b>>, n) = 0 <=> h + r = 65535 \/ h + r = 131070
  BY <1>3, <1>11, SMT DEF Word
<1>13. h + r = a + q + r - 65536 * c
  BY <1>1, <1>4, <1>8, <1>10, SMT DEF Word
<1>14. /\ q \in Int /\ r \in Int /\ c \in Int /\ q >= 0 /\ r >= 0 /\ r <= 65535
  BY <1>4, <1>8, SMT DEF Word
<1>15. CheckSum(<<a, b>>, n) = 0
         <=> (a + q + r - 65536 * c = 65535 \/ a + q + r - 65536 * c = 131070)
  BY <1>12, <1>13
<1>16. Outcome(a, b, n, q, r, c)
  BY <1>4, <1>5, <1>9, <1>14, <1>15 DEF Outcome
<1> QED BY <1>16

(* Entered with zero it is zero for the multiples, and for nothing else.   *)
LEMMA ZeroStart ==
  ASSUME NEW n, Sum(n), n > 0
  PROVE  CheckSum(<<0, 0>>, n) = 0 <=> n % 65535 = 0
<1>1. Word(0) /\ n \in Int
  BY SMT DEF Word, Sum
<1>0. PICK q, r, c : Outcome(0, 0, n, q, r, c)
  BY <1>1, CheckSumIsZero
<1> DEFINE x == 65535 * q
           zero == CheckSum(<<0, 0>>, n) = 0
<1>2. /\ q \in Int /\ r \in Int /\ c \in Int
      /\ 0 + n = 65536 * q + r /\ q >= 0 /\ q <= 32768 /\ r >= 0 /\ r <= 65535
      /\ 0 + q < 65536 => c = 0
  BY <1>0, SMT DEF Outcome
<1>3. c = 0 /\ 65536 * c = 0
  BY <1>2, SMT
<1>4. x \in Int /\ n = x + q + r
  BY <1>1, <1>2, Products, SMT
<1>5. zero <=> (0 + q + r - 65536 * c = 65535 \/ 0 + q + r - 65536 * c = 131070)
  BY <1>0, SMT DEF Outcome
<1> HIDE DEF zero
<1>6. zero <=> q + r = 65535
  BY <1>2, <1>3, <1>5, SMT
<1>7. q + r > 0
  <2>1. q = 0 => x = 0
    BY SMT
  <2> HIDE DEF x
  <2> QED BY <1>1, <1>2, <1>4, <2>1, SMT
<1>8. ASSUME q + r = 65535 PROVE n % 65535 = 0
  <2>1. n = x + 65535
    <3> HIDE DEF x
    <3> QED BY <1>2, <1>4, <1>8, SMT
  <2>2. x + 65535 = 65535 * (q + 1)
    BY <1>2, SMT
  <2>3. q + 1 \in Int
    BY <1>2, SMT
  <2> QED BY <1>1, <2>1, <2>2, <2>3, Multiple, SMT
<1>9. ASSUME n % 65535 = 0 PROVE q + r = 65535
  <2>1. PICK k \in Int : n = 65535 * k
    BY <1>1, <1>9, MultipleOf
  <2> DEFINE y == 65535 * k
  <2>2. n = y /\ y \in Int /\ y - x = 65535 * (k - q) /\ k - q \in Int
    BY <1>2, <2>1, Products, SMT
  <2>3. y - x = q + r
    <3> HIDE DEF x, y
    <3> QED BY <1>2, <1>4, <2>2, SMT
  <2>4. y - x \in Int /\ y - x < 131070 /\ y - x > 0
    BY <1>2, <1>7, <2>3, SMT
  <2>5. k - q = 1
    BY <2>2, <2>4, OneBetween, SMT
  <2> QED BY <2>2, <2>3, <2>5, SMT
<1> QED BY <1>6, <1>8, <1>9 DEF zero

(* Whatever it is entered with, it is zero if the wrapped 32-bit sum is a  *)
(* multiple of 65535, and not zero itself.                                 *)
Unwrapped(a, b, n) == 65536 * a + b + n

Wraps(w, m) == w \in Nat /\ w <= 4294967295 /\ (w = m \/ w = m - 4294967296)

Judges(a, b, n, w) ==
  /\ Wraps(w, Unwrapped(a, b, n))
  /\ CheckSum(<<a, b>>, n) = 0 <=> (w # 0 /\ w % 65535 = 0)

LEMMA AnyStart ==
  ASSUME NEW a, Word(a), NEW b, Word(b), NEW n, Sum(n)
  PROVE  \E w : Judges(a, b, n, w)
<1>1. a \in Int /\ b \in Int /\ n \in Int /\ a >= 0 /\ a <= 65535
  BY SMT DEF Word, Sum
<1>0. PICK q, r, c : Outcome(a, b, n, q, r, c)
  BY CheckSumIsZero
<1> DEFINE h == a + q - 65536 * c
           x == 65535 * h
           w == x + h + r
           zero == CheckSum(<<a, b>>, n) = 0
<1>2. /\ q \in Int /\ r \in Int /\ c \in Int /\ b + n = 65536 * q + r /\ Bit(c)
      /\ q >= 0 /\ q <= 32768 /\ r >= 0 /\ r <= 65535
      /\ a + q < 65536 <=> c = 0
  BY <1>0, SMT DEF Outcome
<1>3. zero <=> (h + r = 65535 \/ h + r = 131070)
  <2>1. zero <=> (a + q + r - 65536 * c = 65535 \/ a + q + r - 65536 * c = 131070)
    BY <1>0, SMT DEF Outcome
  <2>2. h + r = a + q + r - 65536 * c
    BY <1>1, <1>2, SMT
  <2> QED BY <2>1, <2>2
<1> HIDE DEF zero
<1>4. w = 65536 * a + b + n - 4294967296 * c
  <2>1. x + h = 65536 * h /\ x \in Int
    <3>1. h \in Int
      BY <1>1, <1>2, SMT
    <3> HIDE DEF h
    <3> QED BY <3>1, Products, SMT
  <2>2. 65536 * h = 65536 * a + 65536 * q - 4294967296 * c
    BY <1>1, <1>2, SMT
  <2>3. 65536 * a \in Int /\ 65536 * q \in Int /\ 4294967296 * c \in Int /\ h \in Int
    BY <1>1, <1>2, SMT
  <2> HIDE DEF x, h
  <2> QED BY <1>1, <1>2, <2>1, <2>2, <2>3, SMT
<1>5. h \in Int /\ h <= 65535 /\ (c = 0 \/ c = 1)
  BY <1>1, <1>2, SMT DEF Bit
<1>6. h >= 0
  BY <1>1, <1>2, SMT DEF Bit
<1>7. x \in Int /\ x >= 0 /\ x <= 4294836225 /\ (h > 0 => x > 0)
  <2> HIDE DEF h
  <2> QED BY <1>5, <1>6, SMT
<1>8. Wraps(w, Unwrapped(a, b, n))
  <2>1. w = Unwrapped(a, b, n) \/ w = Unwrapped(a, b, n) - 4294967296
    BY <1>1, <1>4, <1>5, SMT DEF Unwrapped
  <2>2. w \in Nat /\ w <= 4294967295
    <3> HIDE DEF h, x
    <3> QED BY <1>2, <1>5, <1>6, <1>7, SMT
  <2> QED BY <2>1, <2>2 DEF Wraps
<1> HIDE DEF h
<1>9. ASSUME h + r = 65535 \/ h + r = 131070 PROVE w # 0 /\ w % 65535 = 0
  <2>1. PICK k \in Int : w = 65535 * k
    <3>1. CASE h + r = 65535
      <4>1. w = 65535 * (h + 1) /\ h + 1 \in Int
        BY <1>2, <1>5, <3>1, SMT
      <4> QED BY <4>1
    <3>2. CASE h + r = 131070
      <4>1. w = 65535 * (h + 2) /\ h + 2 \in Int
        BY <1>2, <1>5, <3>2, SMT
      <4> QED BY <4>1
    <3> QED BY <1>9, <3>1, <3>2
  <2>2. w \in Int /\ w > 0
    <3> HIDE DEF x
    <3> QED BY <1>2, <1>5, <1>7, <1>9, SMT
  <2> HIDE DEF w
  <2> QED BY <2>1, <2>2, Multiple, SMT
<1>10. ASSUME w # 0, w % 65535 = 0 PROVE h + r = 65535 \/ h + r = 131070
  <2>1. w \in Int
    <3> HIDE DEF x
    <3> QED BY <1>2, <1>5, <1>7, SMT
  <2>2. PICK k \in Int : w = 65535 * k
    BY <1>10, <2>1, MultipleOf
  <2> DEFINE y == 65535 * k
  <2>3. y - x = 65535 * (k - h) /\ k - h \in Int /\ y \in Int
    BY <1>5, <2>2, Products, SMT
  <2>4. y - x = h + r
    <3>1. w = y
      BY <2>2
    <3> HIDE DEF x, y
    <3> QED BY <1>2, <1>5, <1>7, <2>3, <3>1, SMT
  <2>5. h + r # 0
    <3>1. h = 0 => x = 0
      BY SMT
    <3>2. w # 0
      BY <1>10
    <3> HIDE DEF x
    <3> QED BY <1>2, <1>5, <1>6, <3>1, <3>2, SMT
  <2>6. CASE h + r = 131070
    BY <2>6
  <2>7. CASE h + r < 131070
    <3>1. y - x \in Int /\ y - x < 131070 /\ y - x > 0
      <4> HIDE DEF x, y
      <4> QED BY <1>2, <1>5, <1>6, <2>4, <2>5, <2>7, SMT
    <3>2. k - h = 1
      BY <2>3, <3>1, OneBetween, SMT
    <3>3. y - x = 65535
      BY <2>3, <3>2, SMT
    <3> HIDE DEF x, y
    <3> QED BY <2>4, <2>5, <3>3, SMT
  <2> QED BY <1>2, <1>5, <2>6, <2>7, SMT
<1>11. Judges(a, b, n, w)
  BY <1>3, <1>8, <1>9, <1>10 DEF zero, Judges
<1> QED BY <1>11

(* What the kernel fills in completes a header.                            *)
LEMMA KernelCompletes ==
  ASSUME NEW n \in Nat,
         NEW c, c = 65535 - (IF n % 65535 = 0 THEN 65535 ELSE n % 65535)
  PROVE  Word(c) /\ (n + c) % 65535 = 0
<1> DEFINE s == n % 65535
           j == n \div 65535
           x == 65535 * j
<1>1. s \in Int /\ s >= 0 /\ s < 65535 /\ j \in Int /\ n = x + s
  BY SMT
<1>2. c = 65535 - (IF s = 0 THEN 65535 ELSE s)
  OBVIOUS
<1>3. ASSUME NEW k \in Int, n + c = 65535 * k PROVE (n + c) % 65535 = 0
  <2>1. n + c \in Int
    BY <1>3, SMT
  <2> QED BY <1>3, <2>1, Multiple, SMT
<1> HIDE DEF s, j
<1>4. Word(c)
  BY <1>1, <1>2, SMT DEF Word
<1>5. CASE s = 0
  <2>1. n + c = 65535 * j
    BY <1>1, <1>2, <1>5, SMT
  <2> QED BY <1>1, <1>3, <1>4, <2>1
<1>6. CASE s # 0
  <2>1. x \in Int /\ x + 65535 = 65535 * (j + 1) /\ j + 1 \in Int
    BY <1>1, SMT
  <2>2. n + c = x + 65535
    <3> HIDE DEF x
    <3> QED BY <1>1, <1>2, <1>6, <2>1, SMT
  <2> QED BY <1>3, <1>4, <2>1, <2>2
<1> QED BY <1>5, <1>6

-----------------------------------------------------------------------------
(* The invariant of a packet: its header verifies as long as nobody has    *)
(* changed it, the checksum of its message was computed over what the      *)
(* field held, and the sniffer's verdict is the following. For whatever    *)
(* sum started with, a header is called wrong if and only if the 32-bit    *)
(* sum is a multiple of 65535 other than zero; started with zero, that is  *)
(* if and only if the header verifies.                                     *)
VerdictOfSum ==
  verdict \in {"wrong", "shown"} =>
    /\ \E w : /\ Wraps(w, Unwrapped(start[1], start[2], header + check))
             /\ verdict = "wrong" <=> (w # 0 /\ Verifies(w))
    /\ start = <<0, 0>> => (verdict = "wrong" <=> Verifies(header + check))

PacketTypes ==
  /\ header \in Totals /\ Word(check) /\ Word(stale)
  /\ message \in Nat /\ message <= 2147319810

OnItsWay ==
  /\ stage = "make" => message = 0 /\ stale = 0
  /\ stage \in {"make", "send"} => intact
  /\ stage \in {"make", "send", "wire"} => verdict = "none"
  /\ message # 0 => icmpCheck = Checksum(message + stale)
  /\ (stage \in {"wire", "seen"} \/ verdict # "none")
       => (intact => Verifies(header + check))

PacketInv == PacketTypes /\ OnItsWay /\ VerdictOfSum /\ EchoNeedsCleanField

LEMMA TotalsBounded ==
  ASSUME NEW n \in Totals
  PROVE  n \in Nat /\ n > 0 /\ n <= 2147319810
  BY PacketsAssumption, SMT

LEMMA GarbageIsWords ==
  ASSUME NEW g \in Garbage
  PROVE  Word(g)
  BY PacketsAssumption, SMT DEF Word

LEMMA PacketInitInv == PacketInit => PacketInv
<1> SUFFICES ASSUME PacketInit PROVE PacketInv
  OBVIOUS
<1>1. PacketTypes
  BY SMT DEF PacketInit, PacketTypes, Word
<1>2. stage = "make" /\ verdict = "none" /\ message = 0 /\ stale = 0 /\ intact
  BY DEF PacketInit
<1>3. OnItsWay
  BY <1>2 DEF OnItsWay
<1>4. VerdictOfSum /\ EchoNeedsCleanField
  BY <1>2 DEF VerdictOfSum, EchoNeedsCleanField
<1> QED BY <1>1, <1>3, <1>4 DEF PacketInv

(* Nobody has looked at a packet that is being made.                       *)
LEMMA MakeInv ==
  ASSUME PacketInv, MakeRaw \/ MakePing \/ MakeEcho \/ MakeOther
  PROVE  PacketInv'
<1>1. /\ stage = "make" /\ stage' \in {"send", "over"}
      /\ UNCHANGED <<header, intact, verdict, start>>
  BY DEF MakeRaw, MakePing, MakeEcho, MakeOther
<1>2. PacketTypes /\ message = 0 /\ stale = 0 /\ intact /\ verdict = "none"
  BY <1>1 DEF PacketInv, OnItsWay
<1>3. intact' /\ verdict' = "none"
  BY <1>1, <1>2
<1>4. /\ Word(check') /\ Word(stale') /\ message' \in Nat /\ message' <= 2147319810
      /\ message' # 0 => icmpCheck' = Checksum(message' + stale')
      /\ stage' = "over" => message' = 0
  <2>1. CASE MakeRaw
    <3>1. PICK g \in Garbage : check' = Checksum(header + g)
      BY <2>1 DEF MakeRaw
    <3>2. Sum(header + g)
      BY <1>2, TotalsBounded, GarbageIsWords, SMT DEF PacketTypes, Sum, Word
    <3>3. Word(check')
      BY <3>1, <3>2, ChecksumCompletes
    <3>4. UNCHANGED <<message, icmpCheck, stale>> /\ stage' = "send"
      BY <2>1 DEF MakeRaw
    <3> QED BY <1>2, <3>3, <3>4, SMT DEF PacketTypes
  <2>2. CASE MakePing /\ UNCHANGED <<message, icmpCheck, stale>>
    BY <1>2, <2>2, SMT DEF MakePing, PacketTypes
  <2>3. CASE MakePing /\ stage' = "send"
    <3>1. message' = 1239 \/ UNCHANGED <<message, icmpCheck, stale>>
      BY <2>3, SMT DEF MakePing
    <3>2. \/ stale' \in Garbage /\ icmpCheck' = Checksum(message' + stale')
          \/ UNCHANGED <<message, icmpCheck, stale>>
      BY <2>3 DEF MakePing
    <3>3. UNCHANGED check
      BY <2>3 DEF MakePing
    <3> QED BY <1>2, <2>3, <3>1, <3>2, <3>3, GarbageIsWords, SMT DEF PacketTypes
  <2>4. CASE MakeEcho
    <3>1. /\ message' \in Totals /\ icmpCheck' = Checksum(message') /\ UNCHANGED <<check, stale>>
          /\ stage' = "send"
      BY <2>4 DEF MakeEcho
    <3>2. message' + stale' = message'
      BY <1>2, <3>1, TotalsBounded, SMT
    <3> QED BY <1>2, <3>1, <3>2, TotalsBounded, SMT DEF PacketTypes
  <2>5. CASE MakeOther
    BY <1>2, <2>5, SMT DEF MakeOther, PacketTypes
  <2>6. MakePing => stage' = "send" \/ UNCHANGED <<message, icmpCheck, stale>>
    BY DEF MakePing
  <2> QED BY <2>1, <2>2, <2>3, <2>4, <2>5, <2>6
<1>5. PacketTypes'
  BY <1>1, <1>2, <1>4 DEF PacketTypes
<1>6. OnItsWay'
  BY <1>1, <1>3, <1>4 DEF OnItsWay
<1>7. VerdictOfSum' /\ EchoNeedsCleanField'
  BY <1>3, <1>4, <1>1 DEF VerdictOfSum, EchoNeedsCleanField
<1> QED BY <1>5, <1>6, <1>7 DEF PacketInv

(* The kernel seals the header.                                            *)
LEMMA WireInv ==
  ASSUME PacketInv, KernelSend \/ Damage
  PROVE  PacketInv'
<1>1. /\ stage \in {"send", "wire"} /\ stage' = "wire"
      /\ UNCHANGED <<message, icmpCheck, stale, verdict, start>>
  BY DEF KernelSend, Damage
<1>2. PacketTypes /\ intact /\ verdict = "none" /\ OnItsWay
  BY DEF PacketInv, OnItsWay, KernelSend, Damage
<1>3. header' \in Totals /\ Word(check') /\ (intact' => Verifies(header' + check'))
  <2>1. CASE KernelSend
    <3>1. header \in Nat
      BY <1>2, TotalsBounded DEF PacketTypes
    <3>2. /\ header' = header /\ intact'
          /\ check' = 65535 - (IF header % 65535 = 0 THEN 65535 ELSE header % 65535)
      BY <1>2, <2>1 DEF KernelSend
    <3>3. Word(check') /\ (header + check') % 65535 = 0
      BY <3>1, <3>2, KernelCompletes, SMT
    <3> QED BY <1>2, <3>2, <3>3 DEF PacketTypes, Verifies
  <2>2. CASE Damage
    BY <1>2, <2>2 DEF Damage, PacketTypes
  <2> QED BY <2>1, <2>2
<1>4. PacketTypes'
  BY <1>1, <1>2, <1>3 DEF PacketTypes
<1>5. OnItsWay'
  BY <1>1, <1>2, <1>3 DEF OnItsWay
<1>6. VerdictOfSum' /\ EchoNeedsCleanField'
  BY <1>1, <1>2 DEF VerdictOfSum, EchoNeedsCleanField
<1> QED BY <1>4, <1>5, <1>6 DEF PacketInv

(* The sniffer adds up the header, from whatever its sum held.             *)
LEMMA CallbackInv ==
  ASSUME PacketInv, Callback
  PROVE  PacketInv'
<1>1. /\ stage = "wire" /\ stage' = "seen"
      /\ UNCHANGED <<header, check, message, icmpCheck, stale, intact>>
  BY DEF Callback
<1>2. PacketTypes /\ OnItsWay
  BY <1>1 DEF PacketInv, OnItsWay
<1> DEFINE n == header + check
<1>4. Sum(n) /\ n > 0
  BY <1>2, TotalsBounded, SMT DEF PacketTypes, Sum, Word
<1>5. VerdictOfSum'
  <2>1. CASE verdict' \in {"none", "size"}
    BY <2>1 DEF VerdictOfSum
  <2>2. CASE /\ start' \in Garbage \X Garbage
             /\ verdict' = IF CheckSum(start', header + check) = 0 THEN "wrong" ELSE "shown"
    <3>1. PICK a \in Garbage, b \in Garbage : start' = <<a, b>>
      BY <2>2
    <3>2. Word(a) /\ Word(b) /\ start'[1] = a /\ start'[2] = b
      BY <3>1, GarbageIsWords
    <3> DEFINE zero == CheckSum(<<a, b>>, n) = 0
    <3>3. verdict' = "wrong" <=> zero
      BY <2>2, <3>1
    <3>4. PICK w : Judges(a, b, n, w)
      BY <1>4, <3>2, AnyStart
    <3>5. <<a, b>> = <<0, 0>> => (zero <=> n % 65535 = 0)
      BY <1>4, ZeroStart
    <3>6. header' + check' = n
      BY <1>1
    <3>7. Wraps(w, Unwrapped(a, b, n)) /\ (zero <=> (w # 0 /\ w % 65535 = 0))
      BY <3>4 DEF Judges
    <3> HIDE DEF zero, n
    <3> QED BY <3>1, <3>2, <3>3, <3>5, <3>6, <3>7 DEF VerdictOfSum, Verifies
  <2> QED BY <2>1, <2>2 DEF Callback
<1>6. PacketTypes' /\ OnItsWay' /\ EchoNeedsCleanField'
  <2>1. PacketTypes'
    BY <1>1, <1>2 DEF PacketTypes
  <2>2. OnItsWay'
    BY <1>1, <1>2 DEF OnItsWay
  <2> QED BY <1>1, <2>1, <2>2 DEF EchoNeedsCleanField
<1> QED BY <1>5, <1>6 DEF PacketInv

(* The host that the packet is for verifies both checksums.                *)
LEMMA ArriveInv ==
  ASSUME PacketInv, Arrive
  PROVE  PacketInv'
<1>1. /\ stage = "seen" /\ stage' = "over"
      /\ UNCHANGED <<header, check, message, icmpCheck, stale, intact, verdict, start>>
  BY DEF Arrive
<1>2. /\ PacketTypes /\ OnItsWay /\ VerdictOfSum
      /\ intact => Verifies(header + check)
  BY <1>1 DEF PacketInv, OnItsWay
<1>3. intact' <=> intact
  BY <1>1
<1>4. ASSUME intact, message # 0 PROVE answered' <=> stale \in {0, 65535}
  <2>1. icmpCheck = Checksum(message + stale)
    BY <1>2, <1>4 DEF OnItsWay
  <2>2. (message + icmpCheck) % 65535 = 0 <=> (stale = 0 \/ stale = 65535)
    BY <1>2, <2>1, EchoChecksum DEF PacketTypes
  <2>3. Verifies(header + check)
        /\ (Verifies(message + icmpCheck) <=> stale \in {0, 65535})
    BY <1>2, <1>4, <2>2, SMT DEF Verifies
  <2> DEFINE clean == stale \in {0, 65535}
             verified == /\ message # 0
                         /\ Verifies(header + check) /\ Verifies(message + icmpCheck)
  <2>4. verified <=> clean
    BY <1>4, <2>3
  <2>5. answered' = verified
    BY Zenon DEF Arrive
  <2> HIDE DEF clean, verified
  <2>6. answered' <=> verified
    BY <2>5, Zenon
  <2>7. answered' <=> clean
    BY <2>4, <2>6, Zenon
  <2> QED BY <2>7 DEF clean
<1>5. EchoNeedsCleanField'
  BY <1>1, <1>3, <1>4 DEF EchoNeedsCleanField
<1>6. PacketTypes' /\ OnItsWay' /\ VerdictOfSum'
  <2>1. PacketTypes'
    BY <1>1, <1>2 DEF PacketTypes
  <2>2. OnItsWay'
    BY <1>1, <1>2 DEF OnItsWay
  <2> QED BY <1>1, <1>2, <2>1, <2>2 DEF VerdictOfSum
<1> QED BY <1>5, <1>6 DEF PacketInv

LEMMA PacketNextInv == PacketInv /\ [PacketNext]_packetVars => PacketInv'
<1> SUFFICES ASSUME PacketInv, [PacketNext]_packetVars PROVE PacketInv'
  OBVIOUS
<1>1. CASE MakeRaw \/ MakePing \/ MakeEcho \/ MakeOther
  BY <1>1, MakeInv
<1>2. CASE KernelSend \/ Damage
  BY <1>2, WireInv
<1>3. CASE Callback
  BY <1>3, CallbackInv
<1>4. CASE Arrive
  BY <1>4, ArriveInv
<1>5. CASE UNCHANGED packetVars
  BY <1>5 DEF packetVars, PacketInv, PacketTypes, OnItsWay, VerdictOfSum,
              EchoNeedsCleanField
<1> QED BY <1>1, <1>2, <1>3, <1>4, <1>5 DEF PacketNext

(* The invariant of the packets.                                           *)
THEOREM PacketInvariance == PacketSpec => []PacketInv
BY PacketInitInv, PacketNextInv, PTL DEF PacketSpec

(* check_sum and the test of line 220, for every header, every damage and  *)
(* every start of sum, 32-bit wrap included: "Wrong checksum" is said if   *)
(* and only if the sum, which is all that the program has, verifies. A     *)
(* right header is never shown if sum started with zero.                   *)
THEOREM VerdictUpsideDown ==
  PacketSpec => [](VerdictOfSum
                   /\ (start = <<0, 0>> /\ intact => verdict # "shown"))
<1>1. PacketInv => VerdictOfSum
  BY DEF PacketInv
<1>2. PacketInv => (start = <<0, 0>> /\ intact => verdict # "shown")
  BY DEF PacketInv, OnItsWay, VerdictOfSum
<1> QED BY <1>1, <1>2, PacketInvariance, PTL

(* For every message and whatever the memory held: an intact echo request  *)
(* is answered if and only if its checksum field counted as zero.          *)
THEOREM AnswerNeedsCleanField == PacketSpec => []EchoNeedsCleanField
<1>1. PacketInv => EchoNeedsCleanField
  BY DEF PacketInv
<1> QED BY <1>1, PacketInvariance, PTL
-----------------------------------------------------------------------------
(* Netlink.                                                                *)
Unshared(u) == \A v \in Users \ {u} : pid[v] # pid[u]

NetlinkTypes ==
  /\ upc \in [Users -> {"new", "send", "handler", "reply", "recv", "over"}]
  /\ pid \in [Users -> Pids]
  /\ nlport \in [Users -> Pids \cup OtherPorts \cup {0}]
  /\ inbox \in [Users -> Seq(Users)]
  /\ printed \in [Users -> SUBSET Users] /\ noMemory \subseteq Users

(* A socket is bound to its process's pid or to a number that is no pid.   *)
PortsOwn == \A u \in Users : nlport[u] \in OtherPorts \cup {0, pid[u]}

(* What a process whose pid nobody shares finds at each place.             *)
Awaits(u) ==
  /\ upc[u] \in {"new", "send"} => nlport[u] = 0
  /\ upc[u] \in {"handler", "reply"} => nlport[u] = pid[u]
  /\ upc[u] \in {"new", "send", "handler", "reply"} => inbox[u] = <<>>
  /\ upc[u] = "recv" => u \in noMemory \/ inbox[u] = <<u>>
  /\ inbox[u] \in {<<>>, <<u>>} /\ printed[u] \subseteq {u}

NetlinkInv ==
  NetlinkTypes /\ PortsOwn /\ \A u \in Users : Unshared(u) => Awaits(u)

LEMMA NetlinkInitInv == NetlinkInit => NetlinkInv
<1> SUFFICES ASSUME NetlinkInit PROVE NetlinkInv
  OBVIOUS
<1>1. NetlinkTypes
  BY EmptySeq DEF NetlinkInit, NetlinkTypes
<1> QED BY <1>1 DEF NetlinkInit, NetlinkInv, PortsOwn, Awaits

(* A number a request was sent to is bound by nobody but its sender.       *)
LEMMA OnlyMyPort ==
  ASSUME NetlinkInv, NEW u \in Users, NEW v \in Users, nlport[v] = pid[u]
  PROVE  pid[v] = pid[u]
BY PortsAssumption DEF NetlinkInv, NetlinkTypes, PortsOwn

(* One process's step, if it keeps what concerns the process itself.       *)
LEMMA UserFrame ==
  ASSUME NetlinkInv, NEW u \in Users, NetlinkTypes', pid' = pid,
         \A v \in Users \ {u} : /\ upc'[v] = upc[v] /\ nlport'[v] = nlport[v]
                                /\ printed'[v] = printed[v]
                                /\ Unshared(v) => inbox'[v] = inbox[v],
         noMemory \subseteq noMemory',
         nlport'[u] \in OtherPorts \cup {0, pid[u]},
         Unshared(u) => Awaits(u)'
  PROVE  NetlinkInv'
<1>1. PortsOwn'
  BY DEF NetlinkInv, PortsOwn
<1>2. ASSUME NEW v \in Users, Unshared(v)' PROVE Awaits(v)'
  <2>1. Unshared(v)
    BY <1>2 DEF Unshared
  <2>2. CASE v = u
    BY <2>1, <2>2
  <2>3. CASE v # u
    BY <2>1, <2>3 DEF NetlinkInv, Awaits
  <2> QED BY <2>2, <2>3
<1> QED BY <1>1, <1>2 DEF NetlinkInv

LEMMA UserStepInv ==
  ASSUME NetlinkInv, NEW u \in Users, OpenSocket(u) \/ UserStep(u) \/ KillUser(u)
  PROVE  NetlinkInv'
<1> USE DEF UserGoes
<1>1. /\ NetlinkTypes /\ PortsOwn /\ (Unshared(u) => Awaits(u))
      /\ pid[u] \in Pids /\ inbox[u] \in Seq(Users)
  BY DEF NetlinkInv, NetlinkTypes
<1>2. CASE OpenSocket(u)
  <2>1. NetlinkTypes'
    BY <1>1, <1>2 DEF OpenSocket, NetlinkTypes
  <2> QED BY <1>1, <1>2, <2>1, UserFrame DEF OpenSocket, NetlinkTypes, PortsOwn, Awaits
<1>3. CASE SendMsg(u)
  <2>1. /\ NetlinkTypes' /\ nlport'[u] \in OtherPorts \cup {0, pid[u]}
        /\ upc[u] = "send" /\ upc'[u] \in {"handler", "over"}
        /\ \A v \in Users \ {u} : nlport'[v] = nlport[v] /\ upc'[v] = upc[v]
    BY <1>1, <1>3 DEF SendMsg, NetlinkTypes, PortsOwn
  <2>2. ASSUME Unshared(u), upc'[u] = "handler" PROVE nlport'[u] = pid[u]
    <3>1. \A v \in Users : nlport[v] # pid[u]
      <4>1. nlport[u] # pid[u]
        BY <1>1, <2>1, <2>2, PortsAssumption DEF Awaits
      <4> QED BY <2>2, <4>1, OnlyMyPort DEF Unshared
    <3> QED BY <1>1, <1>3, <2>2, <3>1 DEF SendMsg, NetlinkTypes
  <2>3. Unshared(u) => Awaits(u)'
    BY <1>1, <1>3, <2>1, <2>2 DEF SendMsg, Awaits
  <2> QED BY <1>3, <2>1, <2>3, UserFrame DEF SendMsg
<1>4. CASE NewReply(u)
  <2>1. NetlinkTypes'
    BY <1>1, <1>4 DEF NewReply, NetlinkTypes
  <2>2. Unshared(u) => Awaits(u)'
    BY <1>1, <1>4 DEF NewReply, NetlinkTypes, Awaits
  <2> QED BY <1>1, <1>4, <2>1, <2>2, UserFrame DEF NewReply, NetlinkTypes, PortsOwn
<1>5. CASE Unicast(u)
  <2>1. /\ upc[u] = "reply" /\ upc' = [upc EXCEPT ![u] = "recv"]
        /\ UNCHANGED <<pid, nlport, printed, noMemory>>
    BY <1>5 DEF Unicast
  <2>2. CASE \E v \in Users : nlport[v] = pid[u] /\ inbox' = [inbox EXCEPT ![v] = Append(@, u)]
    <3>1. PICK v \in Users : nlport[v] = pid[u] /\ inbox' = [inbox EXCEPT ![v] = Append(@, u)]
      BY <2>2
    <3>2. pid[v] = pid[u] /\ Append(inbox[v], u) \in Seq(Users)
      BY <1>1, <3>1, OnlyMyPort, AppendProperties DEF NetlinkTypes
    <3>3. NetlinkTypes'
      BY <1>1, <2>1, <3>1, <3>2 DEF NetlinkTypes
    <3>4. \A w \in Users \ {u} : Unshared(w) => inbox'[w] = inbox[w]
      BY <1>1, <3>1, <3>2 DEF Unshared, NetlinkTypes
    <3>5. Unshared(u) => inbox'[u] = <<u>>
      <4>1. Unshared(u) => v = u
        BY <3>2 DEF Unshared
      <4>2. Unshared(u) => inbox[u] = <<>>
        BY <1>1, <2>1 DEF Awaits
      <4>3. Append(<<>>, u) = <<u>>
        OBVIOUS
      <4> QED BY <1>1, <3>1, <4>1, <4>2, <4>3 DEF NetlinkTypes
    <3>6. Unshared(u) => Awaits(u)'
      BY <1>1, <2>1, <3>5 DEF Awaits, NetlinkTypes
    <3> QED BY <1>1, <2>1, <3>3, <3>4, <3>6, UserFrame DEF NetlinkTypes, PortsOwn
  <2>3. CASE (\A v \in Users : nlport[v] # pid[u]) /\ UNCHANGED inbox
    <3>1. NetlinkTypes' /\ ~ Unshared(u)
      BY <1>1, <2>1, <2>3 DEF NetlinkTypes, Awaits
    <3> QED BY <1>1, <2>1, <2>3, <3>1, UserFrame DEF NetlinkTypes, PortsOwn
  <2> QED BY <1>5, <2>2, <2>3 DEF Unicast
<1>6. CASE RecvMsg(u)
  <2>1. Head(inbox[u]) \in Users
    BY <1>1, <1>6, HeadTailProperties DEF RecvMsg
  <2>2. NetlinkTypes'
    BY <1>1, <1>6, <2>1, EmptySeq DEF RecvMsg, NetlinkTypes
  <2>3. Unshared(u) => Head(inbox[u]) = u
    BY <1>1, <1>6 DEF RecvMsg, Awaits
  <2>4. Unshared(u) => Awaits(u)'
    BY <1>1, <1>6, <2>3 DEF RecvMsg, Awaits, NetlinkTypes
  <2> QED BY <1>1, <1>6, <2>2, <2>4, UserFrame DEF RecvMsg, NetlinkTypes
<1>7. CASE KillUser(u)
  <2>1. NetlinkTypes'
    BY <1>1, <1>7, EmptySeq DEF KillUser, NetlinkTypes
  <2>2. Unshared(u) => Awaits(u)'
    BY <1>1, <1>7 DEF KillUser, Awaits, NetlinkTypes
  <2> QED BY <1>1, <1>7, <2>1, <2>2, UserFrame DEF KillUser, NetlinkTypes
<1> QED BY <1>2, <1>3, <1>4, <1>5, <1>6, <1>7 DEF UserStep

LEMMA NetlinkNextInv == NetlinkInv /\ [NetlinkNext]_netlinkVars => NetlinkInv'
<1> SUFFICES ASSUME NetlinkInv, [NetlinkNext]_netlinkVars PROVE NetlinkInv'
  OBVIOUS
<1>1. CASE InsertOrRemove \/ UNCHANGED netlinkVars
  <2>1. UNCHANGED <<upc, pid, nlport, inbox, printed, noMemory>>
    BY <1>1 DEF InsertOrRemove, netlinkVars
  <2>2. NetlinkTypes' /\ PortsOwn'
    BY <2>1 DEF NetlinkInv, NetlinkTypes, PortsOwn
  <2>3. \A u : Unshared(u)' = Unshared(u) /\ Awaits(u)' = Awaits(u)
    BY <2>1 DEF Unshared, Awaits
  <2> QED BY <2>2, <2>3 DEF NetlinkInv
<1>2. CASE \E u \in Users : OpenSocket(u) \/ UserStep(u) \/ KillUser(u)
  BY <1>2, UserStepInv
<1> QED BY <1>1, <1>2 DEF NetlinkNext

(* The invariant on which the theorem about Netlink rests.                 *)
THEOREM NetlinkInvariance == NetlinkSpec => []NetlinkInv
BY NetlinkInitInv, NetlinkNextInv, PTL DEF NetlinkSpec

(* A process whose pid nobody shares finds its own answer, and no other,   *)
(* in its socket as soon as it calls recvmsg: for any number of processes, *)
(* whoever sends, dies or is bound to another number meanwhile.            *)
THEOREM AnswerIsThere == NetlinkSpec => []OwnAnswerWaits
<1>1. NetlinkInv => OwnAnswerWaits
  BY DEF NetlinkInv, OwnAnswerWaits, Unshared, Awaits
<1> QED BY <1>1, NetlinkInvariance, PTL

-----------------------------------------------------------------------------
(* StreamPairs. Who may hold the writing end, and what a parent waits for. *)
StreamInv ==
  /\ pair \in {"tcp", "sctp", "pipe"}
  /\ sender \in {"start", "send", "wait", "gone"}
  /\ receiver \in {"start", "recv", "echo", "over"}
  /\ holders \subseteq {"sender", "receiver"}
  /\ forth \in 0 .. Cap
  /\ "sender" \in holders => sender \in {"start", "send"}
  /\ "receiver" \in holders => receiver = "start"
  /\ (pair = "pipe" /\ sender = "wait") => receiver = "over" \/ forth > 0

LEMMA StreamInitInv == StreamInit => StreamInv
BY StreamAssumption DEF StreamInit, StreamInv

LEMMA StreamNextInv == StreamInv /\ [StreamNext]_streamVars => StreamInv'
<1> SUFFICES ASSUME StreamInv, [StreamNext]_streamVars PROVE StreamInv'
  OBVIOUS
<1> USE StreamAssumption DEF StreamInv
<1>1. CASE SenderStep
  <2>1. CASE StartSender \/ SendFails
    BY <2>1 DEF StartSender, SendFails
  <2>2. CASE Send
    <3>1. forth' \in 0 .. Cap /\ forth' > 0
      BY <2>2 DEF Send
    <3> QED BY <2>2, <3>1 DEF Send
  <2>3. CASE WaitChild
    BY <2>3 DEF WaitChild
  <2> QED BY <1>1, <2>1, <2>2, <2>3 DEF SenderStep
<1>2. CASE StartReceiver \/ Recv
  BY <1>2 DEF StartReceiver, Recv
<1>3. CASE RecvEnd \/ Echo \/ EchoFails
  BY <1>3 DEF RecvEnd, AtEnd, Echo, EchoFails
<1>4. CASE KillSender \/ KillReceiver
  BY <1>4 DEF KillSender, KillReceiver
<1>5. CASE UNCHANGED streamVars
  BY <1>5 DEF streamVars
<1> QED BY <1>1, <1>2, <1>3, <1>4, <1>5 DEF StreamNext, ReceiverStep

(* A receiver whose sender is gone sees the end of the stream, and a       *)
(* parent in wait() waits for a child that can go on: for any buffer size, *)
(* whoever is killed and whenever (what PairEnds needs to end).            *)
THEOREM EndIsSeen == StreamSpec => []NobodyStranded
<1>1. StreamInv => NobodyStranded
  BY DEF StreamInv, NobodyStranded
<1>2. StreamSpec => []StreamInv
  BY StreamInitInv, StreamNextInv, PTL DEF StreamSpec
<1> QED BY <1>1, <1>2, PTL

-----------------------------------------------------------------------------
(* RouteDump. Passed is the number of messages reply_msg has gone over; a  *)
(* row was printed for each main route among them.                         *)
Datagram == Head(dump)
Passed == Len(Datagram) - Len(msgs)
Shown(p) == {j \in MainRoutes : j <= p}

RouteTypes ==
  /\ dump \in Dumps
  /\ rpcs \in {"recvmsg", "message", "attr", "over"}
  /\ msgs \in Seq(Message) /\ attrs \in Seq(STRING \X Values)
  /\ rt_info \in [Fields -> Values \cup {Junk}]
  /\ table \in Seq([Fields -> Values \cup {Junk}])

(* What is still to be gone over is the end of the datagram.               *)
RestOfDatagram ==
  /\ Passed \in Nat
  /\ \A j \in 1 .. Len(msgs) : msgs[j] = Datagram[Passed + j]

(* What the attributes before the rest say of a field, and what rt_info or *)
(* a row i may hold of it then.                                            *)
Read(m, k, f) == {m.attrs[j][2] : j \in {j \in 1 .. k : m.attrs[j][1] = f}}
Allowed(own, i, f) == IF own # {} /\ f # "oif" THEN own ELSE own \cup Above(i, f)

InRoute ==
  LET m == msgs[1]
      k == Len(m.attrs) - Len(attrs)
  IN  /\ Len(msgs) > 0 /\ Passed + 1 \in MainRoutes
      /\ k \in Nat
      /\ \A j \in 1 .. Len(attrs) : attrs[j] = m.attrs[k + j]
      /\ \A f \in Fields : rt_info[f] \in Allowed(Read(m, k, f), Len(table) + 1, f)

RowsRight ==
  \A n \in MainRoutes, f \in Fields :
    Row(n) <= Len(table) => table[Row(n)][f] \in Allowed(Own(Datagram[n], f), Row(n), f)

RouteInv ==
  /\ RouteTypes /\ RowsRight
  /\ rpcs = "recvmsg" => table = <<>> /\ \A f \in Fields : rt_info[f] = Junk
  /\ rpcs \in {"message", "attr"} =>
       RestOfDatagram /\ Len(table) = Cardinality(Shown(Passed))
  /\ rpcs = "message" => \A f \in Fields : rt_info[f] \in Above(Len(table) + 1, f)
  /\ rpcs = "attr" => InRoute
  /\ rpcs = "over" => Len(table) \in {0, Cardinality(MainRoutes)}

-----------------------------------------------------------------------------
(* Counting the main routes of a datagram.                                 *)

LEMMA DatagramType ==
  ASSUME dump \in Dumps
  PROVE  /\ Datagram \in Seq(Message) /\ Len(Datagram) \in Nat
         /\ DOMAIN Datagram = 1 .. Len(Datagram)
         /\ \A j \in MainRoutes : j \in Nat /\ j # 0 /\ j <= Len(Datagram)
<1>1. dump \in Seq(Seq(Message)) /\ dump # <<>>
  BY RouteAssumption
<1>2. Datagram \in Seq(Message)
  BY <1>1, HeadTailProperties DEF Datagram
<1>3. Len(Datagram) \in Nat /\ DOMAIN Datagram = 1 .. Len(Datagram)
  BY <1>2, LenProperties
<1> QED BY <1>2, <1>3 DEF MainRoutes, Datagram

LEMMA ShownCount ==
  ASSUME dump \in Dumps, NEW p \in Nat
  PROVE  IsFiniteSet(Shown(p)) /\ Cardinality(Shown(p)) \in Nat
<1>1. \A j \in Shown(p) : j \in 1 .. Len(Datagram)
  BY DatagramType DEF Shown
<1>2. IsFiniteSet(1 .. Len(Datagram))
  BY DatagramType, FS_Interval
<1> QED BY <1>1, <1>2, FS_Subset, FS_CardinalityType

LEMMA ShownGrows ==
  ASSUME dump \in Dumps, NEW p \in Nat
  PROVE  /\ p + 1 \in MainRoutes => Cardinality(Shown(p + 1)) = Cardinality(Shown(p)) + 1
         /\ p + 1 \notin MainRoutes => Shown(p + 1) = Shown(p)
         /\ Shown(0) = {} /\ Cardinality(Shown(0)) = 0
<1>1. \A j \in MainRoutes : j \in Nat /\ j # 0
  BY DatagramType
<1>2. p + 1 \in MainRoutes => Shown(p + 1) = Shown(p) \cup {p + 1} /\ p + 1 \notin Shown(p)
  BY <1>1 DEF Shown
<1>3. p + 1 \notin MainRoutes => Shown(p + 1) = Shown(p)
  BY <1>1 DEF Shown
<1>4. Shown(0) = {}
  BY <1>1 DEF Shown
<1>5. Cardinality(Shown(0)) = 0
  BY <1>4, FS_EmptySet
<1>6. p + 1 \in MainRoutes => Cardinality(Shown(p + 1)) = Cardinality(Shown(p)) + 1
  BY <1>2, ShownCount, FS_AddElement
<1> QED BY <1>3, <1>4, <1>5, <1>6

(* A route's row is printed when it has been passed, and no sooner.        *)
LEMMA RowPassed ==
  ASSUME dump \in Dumps, NEW p \in Nat, NEW n \in MainRoutes
  PROVE  /\ Row(n) \in Nat \ {0}
         /\ Row(n) <= Cardinality(Shown(p)) <=> n <= p
<1>1. n \in Nat /\ n - 1 \in Nat /\ \A j \in MainRoutes : j \in Nat
  BY DatagramType
<1>2. Row(n) = Cardinality(Shown(n)) /\ Row(n) = Cardinality(Shown(n - 1)) + 1
  <2>1. (n - 1) + 1 = n
    BY <1>1
  <2>2. Row(n) = Cardinality(Shown(n))
    BY DEF Row, Shown
  <2> QED BY <1>1, <2>1, <2>2, ShownGrows
<1>3. Row(n) \in Nat \ {0}
  BY <1>1, <1>2, ShownCount
<1>4. ASSUME n <= p PROVE Row(n) <= Cardinality(Shown(p))
  <2>1. \A j \in Shown(n) : j \in Shown(p)
    BY <1>1, <1>4 DEF Shown
  <2>2. Cardinality(Shown(n)) <= Cardinality(Shown(p))
    BY <1>1, <2>1, ShownCount, FS_Subset
  <2> QED BY <1>2, <2>2
<1>5. ASSUME ~ (n <= p) PROVE Cardinality(Shown(p)) < Row(n)
  <2>1. \A j \in Shown(p) : j \in Shown(n - 1)
    BY <1>1, <1>5 DEF Shown
  <2>2. Cardinality(Shown(p)) <= Cardinality(Shown(n - 1))
    BY <1>1, <2>1, ShownCount, FS_Subset
  <2> QED BY <1>1, <1>2, <2>2, ShownCount
<1>6. Cardinality(Shown(p)) \in Nat
  BY ShownCount
<1> QED BY <1>3, <1>4, <1>5, <1>6

(* All of them are passed at the end.                                      *)
LEMMA AllShown ==
  ASSUME dump \in Dumps
  PROVE  Shown(Len(Datagram)) = MainRoutes
BY DatagramType DEF Shown

-----------------------------------------------------------------------------
(* The steps. A row may show what it shows whatever is printed below it.   *)

(* What is already printed stays right while the table only grows.         *)
LEMMA RowsStay ==
  ASSUME RowsRight, UNCHANGED <<dump, table>>
  PROVE  RowsRight'
<1>1. MainRoutes' = MainRoutes /\ Datagram' = Datagram
  BY DEF MainRoutes, Datagram
<1>2. \A n : Row(n)' = Row(n)
  BY <1>1 DEF Row
<1>3. \A own, i, f : Allowed(own, i, f)' = Allowed(own, i, f)
  BY DEF Allowed, Above
<1> QED BY <1>1, <1>2, <1>3 DEF RowsRight, Own

LEMMA RouteInitInv == RouteInit => RouteInv
<1> SUFFICES ASSUME RouteInit PROVE RouteInv
  OBVIOUS
<1>1. RouteTypes
  BY EmptySeq DEF RouteInit, RouteTypes
<1>2. RowsRight
  <2>1. Len(table) = 0
    BY DEF RouteInit
  <2> QED BY <1>1, <2>1, RowPassed DEF RowsRight, RouteTypes
<1> QED BY <1>1, <1>2 DEF RouteInit, RouteInv

LEMMA RecvDumpStep == ASSUME RouteInv, RecvDump PROVE RouteInv'
<1>1. RouteTypes'
  BY DatagramType DEF RouteInv, RouteTypes, RecvDump, Datagram
<1>2. RowsRight'
  BY RowsStay DEF RecvDump, RouteInv
<1>3. table = <<>> /\ Len(table) = 0 /\ \A f \in Fields : rt_info[f] = Junk
  BY DEF RouteInv, RecvDump
<1>4. CASE rpcs' = "message" /\ msgs' = Head(dump)
  <2>1. Len(Datagram) \in Nat /\ Passed' = 0 /\ Datagram' = Datagram
    BY <1>4, DatagramType DEF RouteInv, RouteTypes, RecvDump, Passed, Datagram
  <2>2. RestOfDatagram'
    BY <1>4, <2>1, DatagramType DEF RestOfDatagram, Datagram, RouteInv, RouteTypes
  <2>3. Shown(Passed)' = Shown(0)
    BY <2>1 DEF Shown, MainRoutes, RecvDump
  <2>4. Cardinality(Shown(0)) = 0
    BY ShownGrows DEF RouteInv, RouteTypes
  <2>5. \A f \in Fields : rt_info'[f] \in Above(Len(table) + 1, f)'
    BY <1>3 DEF Above, RecvDump
  <2> QED BY <1>1, <1>2, <1>3, <1>4, <2>2, <2>3, <2>4, <2>5 DEF RouteInv, RecvDump
<1>5. CASE rpcs' = "over"
  BY <1>1, <1>2, <1>3, <1>5 DEF RouteInv, RecvDump
<1> QED BY <1>4, <1>5 DEF RecvDump

(* The message reply_msg comes to is the next one of the datagram.         *)
LEMMA NextMessage ==
  ASSUME RouteTypes, RestOfDatagram, msgs # <<>>
  PROVE  /\ Len(msgs) \in Nat \ {0} /\ Passed + 1 \in Nat /\ Passed + 1 <= Len(Datagram)
         /\ Head(msgs) = msgs[1] /\ msgs[1] = Datagram[Passed + 1] /\ msgs[1] \in Message
         /\ Passed + 1 \in MainRoutes <=> msgs[1].type = 24 /\ msgs[1].main
<1>1. Len(msgs) \in Nat \ {0} /\ Head(msgs) = msgs[1] /\ msgs[1] \in Message
  BY HeadTailProperties, LenProperties, ElementOfSeq DEF RouteTypes
<1>2. Len(Datagram) \in Nat /\ DOMAIN Datagram = 1 .. Len(Datagram)
  BY DatagramType DEF RouteTypes
<1>3. Passed \in Nat /\ Passed + Len(msgs) = Len(Datagram)
  BY <1>1, <1>2 DEF RestOfDatagram, Passed
<1>4. msgs[1] = Datagram[Passed + 1]
  BY <1>1 DEF RestOfDatagram
<1>5. Passed + 1 \in DOMAIN Datagram
  BY <1>1, <1>2, <1>3
<1>6. Passed + 1 \in MainRoutes <=> msgs[1].type = 24 /\ msgs[1].main
  BY <1>4, <1>5 DEF MainRoutes, Datagram
<1> QED BY <1>1, <1>2, <1>3, <1>4, <1>6

LEMMA PassMessage ==
  ASSUME RouteTypes, RestOfDatagram, msgs # <<>>, msgs' = Tail(msgs), dump' = dump
  PROVE  /\ msgs' \in Seq(Message) /\ RestOfDatagram' /\ Passed' = Passed + 1
         /\ Shown(Passed)' = Shown(Passed + 1)
<1>1. Len(msgs) \in Nat \ {0} /\ Passed \in Nat
  BY NextMessage DEF RestOfDatagram
<1>2. /\ msgs' \in Seq(Message) /\ Len(msgs') = Len(msgs) - 1
      /\ \A j \in 1 .. Len(msgs') : msgs'[j] = msgs[j + 1]
  BY <1>1, HeadTailProperties DEF RouteTypes
<1>3. Len(Datagram) \in Nat /\ Datagram' = Datagram /\ MainRoutes' = MainRoutes
  BY DatagramType DEF RouteTypes, Datagram, MainRoutes
<1>4. Passed' = Passed + 1
  BY <1>1, <1>2, <1>3 DEF Passed
<1>5. RestOfDatagram'
  <2>1. ASSUME NEW j \in 1 .. Len(msgs') PROVE msgs'[j] = Datagram[Passed + 1 + j]
    <3>1. j + 1 \in 1 .. Len(msgs) /\ msgs'[j] = msgs[j + 1]
      BY <1>1, <1>2
    <3>2. msgs[j + 1] = Datagram[Passed + (j + 1)]
      BY <3>1 DEF RestOfDatagram
    <3> QED BY <1>1, <3>1, <3>2
  <2> QED BY <1>1, <1>3, <1>4, <2>1 DEF RestOfDatagram
<1>6. Shown(Passed)' = Shown(Passed + 1)
  BY <1>3, <1>4 DEF Shown
<1> QED BY <1>2, <1>4, <1>5, <1>6

LEMMA EnterRouteStep == ASSUME RouteInv, EnterRoute PROVE RouteInv'
<1>1. /\ RouteTypes /\ RestOfDatagram /\ msgs # <<>> /\ Passed \in Nat
      /\ Len(table) = Cardinality(Shown(Passed)) /\ dump \in Dumps
      /\ \A f \in Fields : rt_info[f] \in Above(Len(table) + 1, f)
      /\ dump' = dump /\ table' = table
  BY DEF RouteInv, EnterRoute, RouteTypes, RestOfDatagram
<1>2. RowsRight' /\ \A i, f : Above(i, f)' = Above(i, f)
  BY <1>1, RowsStay DEF RouteInv, Above
<1>3. CASE /\ Head(msgs).type = 24 /\ Head(msgs).main
           /\ rpcs' = "attr" /\ attrs' = Head(msgs).attrs /\ UNCHANGED <<msgs, rt_info>>
  <2>1. RouteTypes'
    BY <1>1, <1>3, NextMessage DEF RouteTypes, Message
  <2>2. /\ Passed' = Passed /\ RestOfDatagram' /\ Shown(Passed)' = Shown(Passed)
        /\ MainRoutes' = MainRoutes
    BY <1>1, <1>3 DEF Passed, RestOfDatagram, Datagram, Shown, MainRoutes
  <2>3. /\ Passed + 1 \in MainRoutes /\ Len(msgs) > 0 /\ attrs' = msgs[1].attrs
        /\ attrs' \in Seq(STRING \X Values)
    BY <1>1, <1>3, <2>1, NextMessage DEF RouteTypes
  <2>4. Len(attrs') \in Nat /\ Len(msgs[1].attrs) - Len(attrs') = 0
    BY <2>3, LenProperties
  <2>5. \A f : Read(msgs[1], 0, f) = {}
    BY DEF Read
  <2>6. \A f \in Fields :
          rt_info[f] \in Allowed(Read(msgs[1], 0, f), Len(table) + 1, f)
    BY <1>1, <2>5 DEF Allowed
  <2>7. InRoute'
    <3>1. msgs' = msgs /\ rt_info' = rt_info
      BY <1>3
    <3>2. \A own, i, f : Allowed(own, i, f)' = Allowed(own, i, f)
      BY <1>2 DEF Allowed
    <3>3. \A j \in 1 .. Len(attrs') : attrs'[j] = msgs[1].attrs[0 + j]
      BY <2>3
    <3> QED BY <1>1, <2>2, <2>3, <2>4, <2>6, <3>1, <3>2, <3>3 DEF InRoute, Read
  <2> QED BY <1>1, <1>2, <1>3, <2>1, <2>2, <2>7 DEF RouteInv
<1>4. CASE /\ ~ (Head(msgs).type = 24 /\ Head(msgs).main)
           /\ UNCHANGED <<rpcs, attrs>> /\ msgs' = Tail(msgs)
           /\ rt_info' \in {rt_info, [f \in Fields |-> Junk]}
  <2>1. RouteTypes' /\ RestOfDatagram' /\ Shown(Passed)' = Shown(Passed + 1)
    BY <1>1, <1>4, PassMessage DEF RouteTypes
  <2>2. Shown(Passed + 1) = Shown(Passed)
    BY <1>1, <1>4, NextMessage, ShownGrows
  <2>3. \A f \in Fields : rt_info'[f] \in Above(Len(table) + 1, f)
    BY <1>1, <1>4 DEF Above
  <2>4. rpcs' = "message"
    BY <1>4 DEF EnterRoute
  <2> QED BY <1>1, <1>2, <2>1, <2>2, <2>3, <2>4 DEF RouteInv
<1> QED BY <1>3, <1>4 DEF EnterRoute

(* One more attribute is read: its field holds its value, unless it is the *)
(* name of an interface that is gone.                                      *)
LEMMA ReadAttrStep == ASSUME RouteInv, ReadAttr PROVE RouteInv'
<1> DEFINE m == msgs[1]
           k == Len(m.attrs) - Len(attrs)
<1>1. /\ RouteTypes /\ InRoute /\ RestOfDatagram /\ attrs # <<>> /\ attrs' = Tail(attrs)
      /\ dump' = dump /\ table' = table /\ msgs' = msgs /\ rpcs' = rpcs /\ rpcs = "attr"
      /\ Len(table) = Cardinality(Shown(Passed))
  BY DEF RouteInv, ReadAttr
<1>2. RowsRight' /\ \A i, f : Above(i, f)' = Above(i, f)
  BY <1>1, RowsStay DEF RouteInv, Above
<1>3. /\ Len(attrs) \in Nat \ {0} /\ attrs[1] \in STRING \X Values
      /\ attrs' \in Seq(STRING \X Values) /\ Len(attrs') = Len(attrs) - 1
      /\ \A j \in 1 .. Len(attrs') : attrs'[j] = attrs[j + 1]
  BY <1>1, HeadTailProperties, LenProperties, ElementOfSeq DEF RouteTypes
<1>4. /\ k \in Nat /\ \A j \in 1 .. Len(attrs) : attrs[j] = m.attrs[k + j]
      /\ \A f \in Fields : rt_info[f] \in Allowed(Read(m, k, f), Len(table) + 1, f)
      /\ Len(msgs) > 0 /\ Passed + 1 \in MainRoutes
  BY <1>1 DEF InRoute
<1>5. m \in Message
  BY <1>1, <1>4, EmptySeq, NextMessage DEF RouteTypes
<1>6. m.attrs \in Seq(STRING \X Values) /\ Len(m.attrs) \in Nat
  BY <1>5, LenProperties DEF Message
<1>7. attrs[1] = m.attrs[k + 1] /\ Len(m.attrs) - Len(attrs') = k + 1
  BY <1>3, <1>4, <1>6
<1> HIDE DEF m, k
<1>8. \A f : Read(m, k + 1, f) =
               Read(m, k, f) \cup IF attrs[1][1] = f THEN {attrs[1][2]} ELSE {}
  BY <1>4, <1>7 DEF Read
<1>9. \/ rt_info' = [f \in Fields |-> IF f = attrs[1][1] THEN attrs[1][2] ELSE rt_info[f]]
      \/ attrs[1][1] = "oif" /\ rt_info' = rt_info
  BY DEF ReadAttr
<1>10. ASSUME NEW f \in Fields
       PROVE  rt_info'[f] \in Allowed(Read(m, k + 1, f), Len(table) + 1, f)
  <2>1. rt_info[f] \in Allowed(Read(m, k, f), Len(table) + 1, f)
    BY <1>4
  <2>2. CASE f # attrs[1][1]
    <3>1. rt_info'[f] = rt_info[f]
      BY <1>9, <2>2
    <3>2. Read(m, k + 1, f) = Read(m, k, f)
      BY <1>8, <2>2
    <3> QED BY <2>1, <3>1, <3>2
  <2>3. CASE f = attrs[1][1]
    <3>1. Read(m, k + 1, f) = Read(m, k, f) \cup {attrs[1][2]}
      BY <1>8, <2>3
    <3>2. rt_info'[f] = attrs[1][2] \/ (f = "oif" /\ rt_info'[f] = rt_info[f])
      BY <1>9, <2>3
    <3> QED BY <2>1, <3>1, <3>2 DEF Allowed
  <2> QED BY <2>2, <2>3
<1>11. RouteTypes'
  BY <1>1, <1>3, <1>9 DEF RouteTypes
<1>12. /\ Passed' = Passed /\ RestOfDatagram' /\ Shown(Passed)' = Shown(Passed)
       /\ MainRoutes' = MainRoutes
  BY <1>1 DEF Passed, RestOfDatagram, Datagram, Shown, MainRoutes
<1>13. \A j \in 1 .. Len(attrs') : attrs'[j] = m.attrs[k + 1 + j]
  <2>1. SUFFICES ASSUME NEW j \in 1 .. Len(attrs') PROVE attrs'[j] = m.attrs[k + 1 + j]
    OBVIOUS
  <2>2. j + 1 \in 1 .. Len(attrs) /\ attrs'[j] = attrs[j + 1]
    BY <1>3
  <2>3. attrs[j + 1] = m.attrs[k + (j + 1)]
    BY <1>4, <2>2
  <2> QED BY <1>4, <2>2, <2>3
<1>14. InRoute'
  <2>1. m = msgs'[1]
    BY <1>1 DEF m
  <2>2. \A own, i, f : Allowed(own, i, f)' = Allowed(own, i, f)
    BY <1>2 DEF Allowed
  <2>3. k + 1 \in Nat
    BY <1>4
  <2>4. /\ Len(msgs'[1].attrs) - Len(attrs') = k + 1
        /\ \A f : Read(msgs'[1], k + 1, f) = Read(m, k + 1, f)
        /\ \A j \in 1 .. Len(attrs') : attrs'[j] = msgs'[1].attrs[k + 1 + j]
    BY <1>7, <1>13, <2>1
  <2>5. \A f \in Fields :
          rt_info'[f] \in Allowed(Read(msgs[1], Len(msgs[1].attrs) - Len(attrs), f),
                                 Len(table) + 1, f)'
    <3>1. SUFFICES ASSUME NEW f \in Fields
                   PROVE  rt_info'[f] \in Allowed(Read(msgs'[1], k + 1, f), Len(table) + 1, f)
      BY <1>1, <2>2, <2>4 DEF Read
    <3> QED BY <1>10, <2>4
  <2>6. (Len(msgs) > 0 /\ Passed + 1 \in MainRoutes)'
    BY <1>1, <1>4, <1>12
  <2> QED BY <2>3, <2>4, <2>5, <2>6 DEF InRoute
<1> QED BY <1>1, <1>2, <1>11, <1>12, <1>14 DEF RouteInv

(* The row printed is that of the message, below the rows of those before. *)
LEMMA PrintRowStep == ASSUME RouteInv, PrintRow PROVE RouteInv'
<1> DEFINE m == msgs[1]
           n == Passed + 1
           i == Len(table) + 1
<1>1. /\ RouteTypes /\ InRoute /\ RestOfDatagram /\ attrs = <<>> /\ msgs' = Tail(msgs)
      /\ dump' = dump /\ table' = Append(table, rt_info) /\ rt_info' = rt_info
      /\ rpcs' = "message" /\ attrs' = attrs /\ Passed \in Nat /\ dump \in Dumps
      /\ Len(table) = Cardinality(Shown(Passed)) /\ RowsRight
  BY DEF RouteInv, PrintRow, RouteTypes, RestOfDatagram
<1>2. msgs # <<>> /\ n \in MainRoutes
  BY <1>1, EmptySeq DEF InRoute
<1>3. m = Datagram[n] /\ m \in Message
  BY <1>1, <1>2, NextMessage
<1>4. m.attrs \in Seq(STRING \X Values)
  BY <1>3 DEF Message
<1>5. Len(m.attrs) \in Nat /\ DOMAIN m.attrs = 1 .. Len(m.attrs) /\ Len(attrs) = 0
  BY <1>1, <1>4, LenProperties, EmptySeq
<1>6. \A f \in Fields : rt_info[f] \in Allowed(Own(Datagram[n], f), i, f)
  <2>1. \A f : Read(m, Len(m.attrs), f) = Own(m, f)
    BY <1>5 DEF Read, Own
  <2>2. Len(m.attrs) - Len(attrs) = Len(m.attrs)
    BY <1>5
  <2> QED BY <1>1, <1>3, <2>1, <2>2 DEF InRoute
<1>7. /\ Len(table) \in Nat /\ table' \in Seq([Fields -> Values \cup {Junk}])
      /\ Len(table') = i /\ table'[i] = rt_info
      /\ \A j \in 1 .. Len(table) : table'[j] = table[j]
  BY <1>1, AppendProperties, LenProperties DEF RouteTypes
<1>8. Row(n) = i
  <2>1. Row(n) = Cardinality(Shown(n))
    BY DEF Row, Shown
  <2> QED BY <1>1, <1>2, <2>1, ShownGrows
<1>9. RouteTypes' /\ RestOfDatagram' /\ Shown(Passed)' = Shown(n)
  BY <1>1, <1>2, <1>7, PassMessage DEF RouteTypes
<1>10. Len(table') = Cardinality(Shown(n))
  BY <1>1, <1>2, <1>7, ShownGrows
<1>11. \A f \in Fields : rt_info'[f] \in Above(Len(table) + 1, f)'
  <2>1. (i + 1) - 1 = i /\ i # 0
    BY <1>7
  <2> QED BY <1>1, <1>7, <2>1 DEF Above
<1>12. RowsRight'
  <2>1. MainRoutes' = MainRoutes /\ Datagram' = Datagram
    BY <1>1 DEF MainRoutes, Datagram
  <2>2. \A x : Row(x)' = Row(x)
    BY <2>1 DEF Row
  <2>3. \A own, x, f : x \in 1 .. i => Allowed(own, x, f)' = Allowed(own, x, f)
    <3>1. \A x \in 1 .. i : x - 1 \in {0} \cup 1 .. Len(table)
      BY <1>7
    <3>2. \A x \in 1 .. i : \A f : Above(x, f)' = Above(x, f)
      BY <1>7, <3>1 DEF Above
    <3> QED BY <3>2 DEF Allowed
  <2>4. SUFFICES ASSUME NEW x \in MainRoutes, NEW f \in Fields, Row(x) <= i
                 PROVE  table'[Row(x)][f] \in Allowed(Own(Datagram[x], f), Row(x), f)
    <3>1. \A x \in MainRoutes : Row(x) \in Nat \ {0}
      BY <1>1, RowPassed
    <3> QED BY <1>7, <2>1, <2>2, <2>3, <3>1 DEF RowsRight, Own
  <2>5. Row(x) \in Nat \ {0} /\ x \in Nat
    BY <1>1, RowPassed, DatagramType
  <2>6. CASE Row(x) <= Len(table)
    BY <1>1, <1>7, <2>5, <2>6 DEF RowsRight
  <2>7. CASE Row(x) = i
    <3>1. x <= n /\ ~ (x <= Passed)
      BY <1>1, <1>7, <1>10, <2>7, RowPassed
    <3>2. x = n
      BY <1>1, <2>5, <3>1
    <3> QED BY <1>6, <1>7, <1>8, <3>2
  <2> QED BY <1>7, <2>4, <2>5, <2>6, <2>7
<1> QED BY <1>1, <1>9, <1>10, <1>11, <1>12 DEF RouteInv

LEMMA ExitRoutesStep == ASSUME RouteInv, ExitRoutes PROVE RouteInv'
<1>1. RouteTypes' /\ RowsRight'
  BY RowsStay DEF RouteInv, RouteTypes, ExitRoutes
<1>2. Passed = Len(Datagram)
  BY EmptySeq, DatagramType DEF Passed, ExitRoutes, RouteInv, RouteTypes
<1>3. Len(table) = Cardinality(MainRoutes)
  BY <1>2, AllShown DEF RouteInv, RouteTypes, ExitRoutes
<1>4. MainRoutes' = MainRoutes
  BY DEF MainRoutes, ExitRoutes
<1> QED BY <1>1, <1>3, <1>4 DEF RouteInv, ExitRoutes

LEMMA RouteNextInv == RouteInv /\ [RouteNext]_routeVars => RouteInv'
<1> SUFFICES ASSUME RouteInv, [RouteNext]_routeVars PROVE RouteInv'
  OBVIOUS
<1>1. CASE UNCHANGED routeVars
  <2>1. /\ RouteTypes' /\ RowsRight'
        /\ \A i, f : Above(i, f)' = Above(i, f)
        /\ MainRoutes' = MainRoutes /\ Datagram' = Datagram
    BY <1>1, RowsStay DEF routeVars, RouteInv, RouteTypes, Above, MainRoutes, Datagram
  <2>2. /\ Passed' = Passed /\ Shown(Passed)' = Shown(Passed)
        /\ RestOfDatagram => RestOfDatagram'
    BY <1>1, <2>1 DEF routeVars, Passed, Shown, RestOfDatagram
  <2>3. \A own, i, f : Allowed(own, i, f)' = Allowed(own, i, f)
    BY <2>1 DEF Allowed
  <2>4. InRoute => InRoute'
    BY <1>1, <2>1, <2>2, <2>3 DEF routeVars, InRoute, Read
  <2> QED BY <1>1, <2>1, <2>2, <2>4 DEF routeVars, RouteInv
<1>2. CASE RouteNext
  BY <1>2, RecvDumpStep, EnterRouteStep, ReadAttrStep, PrintRowStep, ExitRoutesStep
     DEF RouteNext
<1> QED BY <1>1, <1>2

(* The invariant on which the theorem about RouteDump rests.               *)
THEOREM RouteInvariance == RouteSpec => []RouteInv
BY RouteInitInv, RouteNextInv, PTL DEF RouteSpec

(* reply_msg prints a row for each main route of the one datagram it reads *)
(* and none for anything else, in order; and print_route, which clears     *)
(* nothing, shows in it what the route says, and where the route says      *)
(* nothing what the row above says - for every dump the kernel may send.   *)
THEOREM OneRowPerRoute == RouteSpec => []RowsAreRoutes
<1>1. RouteInv => RowsAreRoutes
  <2> SUFFICES ASSUME RouteInv PROVE RowsAreRoutes
    OBVIOUS
  <2>1. Len(table) \in Nat /\ dump \in Dumps
    BY LenProperties DEF RouteInv, RouteTypes
  <2>2. IsFiniteSet(MainRoutes) /\ Cardinality(MainRoutes) \in Nat
    BY <2>1, AllShown, ShownCount, DatagramType
  <2>3. Len(table) <= Cardinality(MainRoutes)
    <3>1. CASE rpcs \in {"message", "attr"}
      <4>1. Passed \in Nat /\ Len(table) = Cardinality(Shown(Passed))
        BY <3>1 DEF RouteInv, RestOfDatagram
      <4>2. Shown(Passed) \subseteq MainRoutes
        BY DEF Shown
      <4> QED BY <2>2, <4>1, <4>2, FS_Subset
    <3>2. CASE rpcs = "recvmsg"
      BY <2>1, <2>2, <3>2, EmptySeq DEF RouteInv
    <3>3. CASE rpcs = "over"
      BY <2>2, <3>3 DEF RouteInv
    <3> QED BY <3>1, <3>2, <3>3 DEF RouteInv, RouteTypes
  <2> QED BY <2>3 DEF RouteInv, RowsRight, RowsAreRoutes, Allowed, Datagram
<1> QED BY <1>1, RouteInvariance, PTL
=============================================================================
