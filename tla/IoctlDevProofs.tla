--------------------------- MODULE IoctlDevProofs ---------------------------
(***************************************************************************)
(* What the character device guarantees for every set of clients, every    *)
(* BUF_LEN and whatever lies behind the buffer, as long as no two calls of *)
(* device_open overlapped.                                                 *)
(*                                                                         *)
(* Without an overlap a single process is between its test of Device_Open  *)
(* and its release, so the counter is 1 while it holds the device and the  *)
(* loads of ++ and -- are never stale. Alone with the buffer, it finds a   *)
(* whole message there unless it is just storing one; and the part it has  *)
(* read is the part before msg_ptr.                                        *)
(***************************************************************************)
EXTENDS IoctlDev, FiniteSetTheorems, SequenceTheorems, TLAPS

Types ==
  /\ Device_Open \in Int
  /\ msg \in [0 .. BufLen - 1 -> Procs \cup {NUL}]
  /\ msg_ptr \in 0 .. BufLen + Behind
  /\ pc \in [Procs -> {"start", "exit"} \cup Opening \cup Holding]
  /\ reg \in [Procs -> Int]
  /\ k \in [Procs -> 0 .. BufLen + Behind]
  /\ passes \in [Procs -> 0 .. 2]
  /\ got \in [Procs -> Seq(Procs \cup {Junk})]

(* Within a copy the index is one of the message; and nothing has been got *)
(* before the first IOCTL_GET_MSG.                                         *)
Places ==
  \A p \in Procs :
    /\ pc[p] = "copy" => k[p] <= Length[p] /\ passes[p] \in 1 .. 2
    /\ pc[p] \in {"start", "inc", "opened", "nth", "get"} => got[p] = <<>>

Inside == {p \in Procs : pc[p] \in Opening \cup Holding}

(* One process at most is inside; Device_Open and what was loaded of it    *)
(* say whether it holds the device.                                        *)
OneInside ==
  /\ \A p, q \in Inside : p = q
  /\ Device_Open = IF Holders = {} THEN 0 ELSE 1
  /\ \A p \in Procs : /\ pc[p] = "opened" => reg[p] = 0
                      /\ pc[p] = "closed" => reg[p] = 1

(* The buffer is empty or holds the message of one process.                *)
Stored(q) ==
  /\ Length[q] > 0
  /\ \A j \in 0 .. Length[q] - 1 : msg[j] = q
  /\ Length[q] < BufLen => msg[Length[q]] = NUL

Whole == msg[0] = NUL \/ \E q \in Procs : Stored(q)

(* What was read from the start of msg up to msg_ptr.                      *)
ReadSoFar(s) ==
  /\ Len(s) = msg_ptr
  /\ \A j \in 1 .. Len(s) : s[j] = IF j <= BufLen THEN msg[j - 1] ELSE Junk

Messages ==
  /\ (\A p \in Procs : pc[p] # "copy") => Whole
  /\ \A p \in Procs :
       /\ pc[p] = "copy" => \A j \in 0 .. k[p] - 1 : msg[j] = p
       /\ pc[p] \in {"nth", "get"} => msg_ptr = 0
       /\ pc[p] = "getting" => ReadSoFar(got[p])
       /\ pc[p] = "set" /\ Kind[p] = "main" =>
            IsMessage(got[p]) /\ (got[p] = <<>> => msg[0] = NUL)

IInv == Types /\ Places /\ (~ raced => OneInside /\ Messages)

-----------------------------------------------------------------------------
(* The device is closed and the buffer is zero.                            *)
LEMMA InitIInv == DevInit => IInv
<1> SUFFICES ASSUME DevInit PROVE IInv
  OBVIOUS
<1>1. BufLen \in Nat \ {0} /\ Behind \in Nat
  BY IoctlAssumption
<1>2. Types
  BY <1>1, EmptySeq DEF DevInit, Types
<1>3. Places
  BY DEF DevInit, Places
<1>4. OneInside
  BY DEF DevInit, OneInside, Inside, Holders, Opening, Holding
<1>5. Messages
  BY <1>1 DEF DevInit, Messages, Whole
<1> QED BY <1>2, <1>3, <1>4, <1>5 DEF IInv

-----------------------------------------------------------------------------
(* Who is inside.                                                          *)

(* Whoever is inside alone is met by nobody: the others have not come yet  *)
(* or have left.                                                           *)
LEMMA Others ==
  ASSUME Types, OneInside, NEW p \in Inside,
         \A q \in Procs \ {p} : pc'[q] = pc[q]
  PROVE  \A q \in Procs \ {p} : pc[q] \in {"start", "exit"} /\ pc'[q] \in {"start", "exit"}
BY DEF Types, OneInside, Inside

(* A holder that goes on holding leaves the counter right.                 *)
LEMMA StillHolding ==
  ASSUME Types, OneInside, NEW p \in Procs,
         pc[p] \in Holding, pc'[p] \in Holding, pc'[p] # "closed",
         \A q \in Procs \ {p} : pc'[q] = pc[q],
         UNCHANGED <<Device_Open, reg>>
  PROVE  OneInside'
<1>1. p \in Inside /\ p \in Holders /\ p \in Holders'
  BY DEF Inside, Holders
<1>2. pc'[p] # "opened" /\ Inside' = Inside
  BY DEF Inside, Holding, Opening
<1> QED BY <1>1, <1>2 DEF OneInside

(* A step of p, alone inside, keeps the messages in order if it does so    *)
(* for p and for the buffer.                                               *)
LEMMA OnlyMine ==
  ASSUME Types, OneInside, NEW p \in Inside,
         \A q \in Procs \ {p} : pc'[q] = pc[q],
         pc'[p] # "copy" => Whole',
         pc'[p] = "copy" => \A j \in 0 .. k'[p] - 1 : msg'[j] = p,
         pc'[p] \in {"nth", "get"} => msg_ptr' = 0,
         pc'[p] = "getting" => ReadSoFar(got[p])',
         pc'[p] = "set" /\ Kind[p] = "main" =>
           (IsMessage(got[p]) /\ (got[p] = <<>> => msg[0] = NUL))'
  PROVE  Messages'
<1>1. \A q \in Procs \ {p} : pc'[q] \in {"start", "exit"}
  BY Others
<1>2. p \in Procs
  BY DEF Inside
<1> QED BY <1>1, <1>2 DEF Messages

(* Nobody is storing a message when p, alone inside, does not.             *)
LEMMA WholeNow ==
  ASSUME Types, OneInside, Messages, NEW p \in Inside, pc[p] # "copy"
  PROVE  Whole
<1>1. \A q \in Procs \ {p} : pc[q] # "copy"
  BY DEF OneInside, Inside, Holding
<1> QED BY <1>1 DEF Messages

-----------------------------------------------------------------------------
(* device_open and device_release.                                         *)

(* A process gets in only when nobody is: Device_Open is 0, so nobody      *)
(* holds the device, and whoever is opening it makes this an overlap.      *)
LEMMA OpenTestStep ==
  ASSUME IInv, NEW p \in Procs, OpenTest(p)
  PROVE  IInv'
<1> USE DEF IInv
<1>1. /\ pc[p] = "start" /\ pc'[p] \in {"inc", "exit"}
      /\ pc' \in [Procs -> {"start", "exit"} \cup Opening \cup Holding]
      /\ \A q \in Procs \ {p} : pc'[q] = pc[q]
  BY DEF OpenTest, Goes, Types, Opening
<1>2. Types' /\ Places'
  BY <1>1 DEF OpenTest, Types, Places
<1>3. Holders' = Holders
  BY <1>1 DEF Holders, Holding
<1>4. ASSUME ~ raced' PROVE OneInside' /\ Messages'
  <2>1. ~ raced /\ OneInside /\ Messages
    <3>1. \/ raced' = (raced \/ \E q \in Procs \ {p} : pc[q] \in Opening)
          \/ raced' = raced
      BY Zenon DEF OpenTest
    <3>2. ~ raced
      BY <1>4, <3>1, Zenon
    <3> QED BY <3>2
  <2>2. pc'[p] = "inc" => Holders = {} /\ \A q \in Procs \ {p} : pc[q] \notin Opening
    <3>1. pc'[p] = "inc" => Device_Open = 0
      BY DEF OpenTest, Goes, Types
    <3>2. pc'[p] = "inc" => raced' = (raced \/ \E q \in Procs \ {p} : pc[q] \in Opening)
      BY DEF OpenTest, Goes, Types
    <3>3. pc'[p] = "inc" => \A q \in Procs \ {p} : pc[q] \notin Opening
      BY <1>4, <3>2, Zenon
    <3> QED BY <2>1, <3>1, <3>3 DEF OneInside
  <2>3. pc'[p] = "inc" => \A q \in Procs \ {p} : q \notin Inside'
    BY <1>1, <2>2 DEF Inside, Holders
  <2>4. pc'[p] = "exit" => Inside' = Inside
    BY <1>1 DEF Inside, Opening, Holding
  <2>5. \A q, r \in Inside' : q = r
    BY <1>1, <2>1, <2>3, <2>4 DEF OneInside, Inside
  <2>6. OneInside'
    BY <1>1, <1>3, <2>1, <2>5 DEF OneInside, OpenTest
  <2>7. \A q \in Procs : pc'[q] = pc[q] \/ (pc[q] = "start" /\ pc'[q] \in {"inc", "exit"})
    BY <1>1
  <2>8. (\A q \in Procs : pc'[q] # "copy") => \A q \in Procs : pc[q] # "copy"
    BY <2>7
  <2>9. UNCHANGED <<msg, msg_ptr, k, got>>
    BY DEF OpenTest
  <2>10. Messages'
    BY <2>1, <2>7, <2>8, <2>9 DEF Messages, Whole, Stored, ReadSoFar, IsMessage
  <2> QED BY <2>6, <2>10
<1> QED BY <1>2, <1>4

(* Without an overlap what is loaded is 0 before an increment and 1 before *)
(* a decrement.                                                            *)
LEMMA LoadStep ==
  ASSUME IInv, NEW p \in Procs,
         Load(p, "inc", "opened") \/ Load(p, "dec", "closed")
  PROVE  IInv'
<1> USE DEF IInv
<1>1. /\ \/ pc[p] = "inc" /\ pc'[p] = "opened"
         \/ pc[p] = "dec" /\ pc'[p] = "closed"
      /\ pc' \in [Procs -> {"start", "exit"} \cup Opening \cup Holding]
      /\ \A q \in Procs \ {p} : pc'[q] = pc[q] /\ reg'[q] = reg[q]
      /\ reg' \in [Procs -> Int] /\ reg'[p] = Device_Open
      /\ UNCHANGED <<Device_Open, msg, msg_ptr, k, passes, got, raced>>
  BY DEF Load, Goes, Types, Opening, Holding
<1>2. Types' /\ Places'
  BY <1>1 DEF Types, Places
<1>3. p \in Inside /\ Inside' = Inside /\ Holders' = Holders
  BY <1>1 DEF Inside, Holders, Opening, Holding
<1>4. ASSUME ~ raced' PROVE OneInside' /\ Messages'
  <2>1. OneInside /\ Messages
    BY <1>1, <1>4
  <2>2. pc[p] = "inc" => p \notin Holders
    BY DEF Holders, Holding
  <2>3. pc[p] = "inc" => Holders = {}
    BY <1>3, <2>1, <2>2 DEF OneInside, Inside, Holders
  <2>4. pc[p] = "dec" => p \in Holders
    BY DEF Holders, Holding
  <2>5. OneInside'
    BY <1>1, <1>3, <2>1, <2>3, <2>4 DEF OneInside
  <2>6. Whole'
    BY <1>1, <1>3, <2>1, WholeNow DEF Whole, Stored
  <2>7. Messages'
    BY <1>1, <1>3, <2>1, <2>6, OnlyMine
  <2> QED BY <2>5, <2>7
<1> QED BY <1>2, <1>4

(* The opener holds the device, counted, and msg_ptr is at the start.      *)
LEMMA OpenStoreStep ==
  ASSUME IInv, NEW p \in Procs, OpenStore(p)
  PROVE  IInv'
<1> USE DEF IInv
<1>1. /\ pc[p] = "opened"
      /\ pc'[p] = IF Kind[p] = "main" THEN "nth" ELSE "set"
      /\ pc' \in [Procs -> {"start", "exit"} \cup Opening \cup Holding]
      /\ \A q \in Procs \ {p} : pc'[q] = pc[q] /\ reg'[q] = reg[q]
      /\ reg' \in [Procs -> Int] /\ Device_Open' = reg[p] + 1 /\ Device_Open' \in Int
      /\ msg_ptr' = 0 /\ UNCHANGED <<msg, k, passes, got, raced>>
  BY DEF OpenStore, Goes, Types, Opening, Holding
<1>2. Types' /\ Places'
  <2>1. msg_ptr' \in 0 .. BufLen + Behind
    BY <1>1, IoctlAssumption
  <2>2. Types'
    BY <1>1, <2>1 DEF Types
  <2>3. Places'
    BY <1>1 DEF Places
  <2> QED BY <2>2, <2>3
<1>3. p \in Inside /\ Inside' = Inside /\ p \in Holders'
  BY <1>1 DEF Inside, Holders, Opening, Holding
<1>4. ASSUME ~ raced' PROVE OneInside' /\ Messages'
  <2>1. OneInside /\ Messages
    BY <1>1, <1>4
  <2>2. OneInside'
    BY <1>1, <1>3, <2>1 DEF OneInside
  <2>3. Whole'
    BY <1>1, <1>3, <2>1, WholeNow DEF Whole, Stored
  <2>4. Messages'
    BY <1>1, <1>3, <2>1, <2>3, OnlyMine
  <2> QED BY <2>2, <2>4
<1> QED BY <1>2, <1>4

(* close() and the end of a killed process: the holder goes to device_-    *)
(* release, from a place where it stores nothing.                          *)
LEMMA ReleaseStep ==
  ASSUME IInv, NEW p \in Procs, Release(p)
  PROVE  IInv'
<1> USE DEF IInv
<1>1. /\ pc[p] \in {"nth", "get", "set", "close"} /\ pc'[p] = "dec"
      /\ pc' \in [Procs -> {"start", "exit"} \cup Opening \cup Holding]
      /\ \A q \in Procs \ {p} : pc'[q] = pc[q] /\ k'[q] = k[q] /\ got'[q] = got[q]
      /\ got' \in [Procs -> Seq(Procs \cup {Junk})]
      /\ k' \in [Procs -> 0 .. BufLen + Behind]
      /\ UNCHANGED <<Device_Open, msg, msg_ptr, reg, passes, raced>>
  <2>1. PICK from \in {"nth", "get", "set", "close"} : Goes(p, from, "dec")
    BY DEF Release
  <2>2. <<>> \in Seq(Procs \cup {Junk}) /\ 0 \in 0 .. BufLen + Behind
    BY EmptySeq, IoctlAssumption
  <2>3. /\ k' \in [Procs -> 0 .. BufLen + Behind]
        /\ got' \in [Procs -> Seq(Procs \cup {Junk})]
        /\ \A q \in Procs \ {p} : k'[q] = k[q] /\ got'[q] = got[q]
    BY <2>2 DEF Release, Types
  <2> QED BY <2>1, <2>3 DEF Release, Goes, Types, Holding
<1>2. Types' /\ Places'
  BY <1>1 DEF Types, Places
<1>3. p \in Inside /\ pc[p] \in Holding /\ pc'[p] \in Holding
  BY <1>1 DEF Inside, Holding
<1>4. ASSUME ~ raced' PROVE OneInside' /\ Messages'
  <2>1. OneInside /\ Messages
    BY <1>1, <1>4
  <2>2. OneInside'
    BY <1>1, <1>3, <2>1, StillHolding
  <2>3. Whole'
    BY <1>1, <1>3, <2>1, WholeNow DEF Whole, Stored
  <2>4. Messages'
    BY <1>1, <1>3, <2>1, <2>3, OnlyMine
  <2> QED BY <2>2, <2>4
<1> QED BY <1>2, <1>4

(* The last holder leaves a counter of 0.                                  *)
LEMMA ReleaseStoreStep ==
  ASSUME IInv, NEW p \in Procs, ReleaseStore(p)
  PROVE  IInv'
<1> USE DEF IInv
<1>1. /\ pc[p] = "closed" /\ pc'[p] = "exit"
      /\ pc' \in [Procs -> {"start", "exit"} \cup Opening \cup Holding]
      /\ \A q \in Procs \ {p} : pc'[q] = pc[q] /\ reg'[q] = reg[q]
      /\ reg' \in [Procs -> Int] /\ Device_Open' = reg[p] - 1 /\ Device_Open' \in Int
      /\ UNCHANGED <<msg, msg_ptr, k, passes, got, raced>>
  BY DEF ReleaseStore, Goes, Types
<1>2. Types' /\ Places'
  BY <1>1 DEF Types, Places
<1>3. p \in Inside
  BY <1>1 DEF Inside, Holding
<1>4. ASSUME ~ raced' PROVE OneInside' /\ Messages'
  <2>1. OneInside /\ Messages
    BY <1>1, <1>4
  <2>2. Inside' = {} /\ Holders' = {}
    <3>1. \A q \in Procs \ {p} : pc'[q] \in {"start", "exit"}
      BY <1>1, <1>3, <2>1, Others
    <3> QED BY <1>1, <3>1 DEF Inside, Holders, Opening, Holding
  <2>3. OneInside'
    <3>1. \A q \in Procs : pc'[q] # "opened" /\ pc'[q] # "closed"
      BY <2>2 DEF Inside, Opening, Holding
    <3> QED BY <1>1, <2>1, <2>2, <3>1 DEF OneInside
  <2>4. Whole'
    BY <1>1, <1>3, <2>1, WholeNow DEF Whole, Stored
  <2>5. Messages'
    BY <1>1, <1>3, <2>1, <2>4, OnlyMine
  <2> QED BY <2>3, <2>5
<1> QED BY <1>2, <1>4

-----------------------------------------------------------------------------
(* Reading.                                                                *)

(* What can be read at an index: the buffer's byte, or one from behind.    *)
LEMMA ByteRange ==
  ASSUME NEW j \in 0 .. BufLen + Behind, NEW b \in Byte(j)
  PROVE  /\ j < BufLen => b = msg[j]
         /\ j >= BufLen => b \in {NUL, Junk}
         /\ b # NUL => j + 1 \in 0 .. BufLen + Behind
BY IoctlAssumption DEF Byte

(* IOCTL_GET_NTH_BYTE moves nothing of the device.                         *)
LEMMA NthByteStep ==
  ASSUME IInv, NEW p \in Procs, NthByte(p)
  PROVE  IInv'
<1> USE DEF IInv
<1>1. PICK b \in Byte(k[p]) :
        \/ b # NUL /\ k' = [k EXCEPT ![p] = @ + 1] /\ UNCHANGED pc
        \/ b = NUL /\ k' = [k EXCEPT ![p] = 0] /\ Goes(p, "nth", "get")
  BY DEF NthByte
<1>2. k' \in [Procs -> 0 .. BufLen + Behind]
  <2>1. k[p] \in 0 .. BufLen + Behind
    BY DEF Types
  <2>2. b # NUL => k[p] + 1 \in 0 .. BufLen + Behind
    BY <2>1, ByteRange
  <2>3. 0 \in 0 .. BufLen + Behind
    BY IoctlAssumption
  <2> QED BY <1>1, <2>2, <2>3 DEF Types
<1>3. /\ pc[p] = "nth" /\ pc'[p] \in {"nth", "get"}
      /\ pc' \in [Procs -> {"start", "exit"} \cup Opening \cup Holding]
      /\ \A q \in Procs \ {p} : pc'[q] = pc[q] /\ k'[q] = k[q]
      /\ UNCHANGED <<Device_Open, msg, msg_ptr, reg, passes, got, raced>>
  BY <1>1 DEF NthByte, Goes, Types, Holding
<1>4. Types'
  BY <1>2, <1>3 DEF Types
<1>5. Places'
  BY <1>3 DEF Places
<1>6. p \in Inside /\ pc[p] \in Holding /\ pc'[p] \in Holding
  BY <1>3 DEF Inside, Holding
<1>7. ASSUME ~ raced' PROVE OneInside' /\ Messages'
  <2>1. OneInside /\ Messages
    BY <1>3, <1>7
  <2>2. OneInside'
    BY <1>3, <1>6, <2>1, StillHolding
  <2>3. Whole'
    BY <1>3, <1>6, <2>1, WholeNow DEF Whole, Stored
  <2>4. msg_ptr' = 0
    BY <1>3, <2>1 DEF Messages
  <2>5. Messages'
    BY <1>3, <1>6, <2>1, <2>3, <2>4, OnlyMine
  <2> QED BY <2>2, <2>5
<1> QED BY <1>4, <1>5, <1>7

(* IOCTL_GET_MSG begins at the start of the buffer with nothing read.      *)
LEMMA GetStep ==
  ASSUME IInv, NEW p \in Procs, Get(p)
  PROVE  IInv'
<1> USE DEF IInv
<1>1. /\ pc[p] = "get" /\ pc'[p] = "getting"
      /\ pc' \in [Procs -> {"start", "exit"} \cup Opening \cup Holding]
      /\ \A q \in Procs \ {p} : pc'[q] = pc[q]
      /\ UNCHANGED <<Device_Open, msg, msg_ptr, reg, k, passes, got, raced>>
  BY DEF Get, Goes, Types, Holding
<1>2. Types' /\ Places'
  BY <1>1 DEF Types, Places
<1>3. p \in Inside /\ pc[p] \in Holding /\ pc'[p] \in Holding
  BY <1>1 DEF Inside, Holding
<1>4. ASSUME ~ raced' PROVE OneInside' /\ Messages'
  <2>1. OneInside /\ Messages
    BY <1>1, <1>4
  <2>2. OneInside'
    BY <1>1, <1>3, <2>1, StillHolding
  <2>3. Whole'
    BY <1>1, <1>3, <2>1, WholeNow DEF Whole, Stored
  <2>4. ReadSoFar(got[p])'
    <3>1. got'[p] = <<>> /\ msg_ptr' = 0
      BY <1>1, <2>1 DEF Places, Messages
    <3>2. Len(got'[p]) = 0
      BY <3>1, EmptySeq, LenProperties
    <3> QED BY <3>1, <3>2 DEF ReadSoFar
  <2>5. Messages'
    BY <1>1, <1>3, <2>1, <2>3, <2>4, OnlyMine
  <2> QED BY <2>2, <2>5
<1> QED BY <1>2, <1>4

(* A zero byte where a reader is that has read everything before it: the   *)
(* reader has a whole message.                                             *)
LEMMA WholeIsRead ==
  ASSUME Types, Whole, NEW s \in Seq(Procs \cup {Junk}), ReadSoFar(s),
         msg_ptr < BufLen => msg[msg_ptr] = NUL
  PROVE  IsMessage(s) /\ (s = <<>> => msg[0] = NUL)
<1>1. Len(s) \in Nat /\ Len(s) = msg_ptr /\ BufLen \in Nat \ {0}
  BY LenProperties, IoctlAssumption DEF ReadSoFar
<1>2. \A j \in 1 .. Len(s) : s[j] \in Procs \cup {Junk} /\ s[j] # NUL
  BY ElementOfSeq, LenProperties, IoctlAssumption
<1>3. \A j \in 1 .. Len(s) : s[j] = IF j <= BufLen THEN msg[j - 1] ELSE Junk
  BY DEF ReadSoFar
<1>4. CASE msg[0] = NUL
  <2>1. Len(s) = 0
    <3> SUFFICES ASSUME Len(s) # 0 PROVE FALSE
      OBVIOUS
    <3>1. 1 \in 1 .. Len(s) /\ 1 <= BufLen
      BY <1>1
    <3>2. s[1] = msg[0]
      BY <1>3, <3>1
    <3> QED BY <1>2, <1>4, <3>1, <3>2
  <2>2. s = <<>>
    BY <2>1, EmptySeq
  <2> QED BY <1>4, <2>2 DEF IsMessage
<1>5. ASSUME NEW q \in Procs, Stored(q)
      PROVE  IsMessage(s) /\ (s = <<>> => msg[0] = NUL)
  <2>1. Length[q] \in 1 .. BufLen
    BY <1>5, IoctlAssumption DEF Stored
  <2>2. \A j \in 0 .. Length[q] - 1 : msg[j] = q /\ msg[j] # NUL
    BY <1>5, IoctlAssumption DEF Stored
  <2>3. Len(s) >= Length[q]
    BY <1>1, <2>1, <2>2
  <2>4. Len(s) > Length[q] => Length[q] = BufLen
    <3> SUFFICES ASSUME Len(s) > Length[q], Length[q] < BufLen PROVE FALSE
      BY <1>1, <2>1
    <3>1. Length[q] + 1 \in 1 .. Len(s) /\ Length[q] + 1 <= BufLen
      BY <1>1, <2>1
    <3>2. s[Length[q] + 1] = msg[Length[q]]
      BY <1>3, <2>1, <3>1
    <3> QED BY <1>2, <1>5, <3>1, <3>2 DEF Stored
  <2>5. \A j \in 1 .. Len(s) : s[j] = IF j <= Length[q] THEN q ELSE Junk
    <3> TAKE j \in 1 .. Len(s)
    <3>1. CASE j <= Length[q]
      <4>1. j - 1 \in 0 .. Length[q] - 1 /\ j <= BufLen
        BY <1>1, <2>1, <3>1
      <4> QED BY <1>3, <2>2, <3>1, <4>1
    <3>2. CASE j > Length[q]
      BY <1>1, <1>3, <2>1, <2>4, <3>2
    <3> QED BY <1>1, <2>1, <3>1, <3>2
  <2>6. s # <<>>
    BY <1>1, <2>1, <2>3, EmptySeq
  <2> QED BY <2>3, <2>4, <2>5, <2>6 DEF IsMessage
<1> QED BY <1>4, <1>5 DEF Whole

(* device_read moves msg_ptr over what it reads, and stops at a zero byte. *)
LEMMA ReadByteStep ==
  ASSUME IInv, NEW p \in Procs, ReadByte(p)
  PROVE  IInv'
<1> USE DEF IInv
<1>0. PICK b \in Byte(msg_ptr) :
        \/ /\ b # NUL
           /\ got' = [got EXCEPT ![p] = Append(@, b)]
           /\ msg_ptr' = msg_ptr + 1
           /\ UNCHANGED pc
        \/ /\ b = NUL
           /\ Goes(p, "getting", "set")
           /\ UNCHANGED <<got, msg_ptr>>
  BY DEF ReadByte
<1>1. /\ pc[p] = "getting" /\ got[p] \in Seq(Procs \cup {Junk})
      /\ msg_ptr \in 0 .. BufLen + Behind /\ BufLen \in Nat \ {0} /\ Behind \in Nat
      /\ UNCHANGED <<Device_Open, msg, reg, k, passes, raced>>
  BY IoctlAssumption DEF ReadByte, Types
<1>2. /\ msg_ptr < BufLen => b = msg[msg_ptr]
      /\ msg_ptr >= BufLen => b \in {NUL, Junk}
      /\ b # NUL => msg_ptr + 1 \in 0 .. BufLen + Behind
  BY <1>1, ByteRange
<1>3. p \in Inside /\ pc[p] \in Holding
  BY <1>1 DEF Inside, Holding
<1>4. CASE /\ b # NUL
           /\ got' = [got EXCEPT ![p] = Append(@, b)]
           /\ msg_ptr' = msg_ptr + 1
           /\ UNCHANGED pc
  <2>1. b \in Procs \cup {Junk}
    BY <1>1, <1>2, <1>4 DEF Types
  <2>2. /\ Append(got[p], b) \in Seq(Procs \cup {Junk})
        /\ Len(Append(got[p], b)) = Len(got[p]) + 1
        /\ \A j \in 1 .. Len(got[p]) : Append(got[p], b)[j] = got[p][j]
        /\ Append(got[p], b)[Len(got[p]) + 1] = b
    BY <1>1, <2>1, AppendProperties
  <2>3. /\ got' \in [Procs -> Seq(Procs \cup {Junk})] /\ got'[p] = Append(got[p], b)
        /\ \A q \in Procs \ {p} : got'[q] = got[q]
    BY <1>4, <2>2 DEF Types
  <2>4. Types'
    BY <1>1, <1>2, <1>4, <2>3 DEF Types
  <2>5. Places'
    BY <1>1, <1>4, <2>3 DEF Places
  <2>6. ASSUME ~ raced' PROVE OneInside' /\ Messages'
    <3>1. OneInside /\ Messages
      BY <1>1, <2>6
    <3>2. OneInside'
      BY <1>1, <1>3, <1>4, <3>1, StillHolding
    <3>3. Whole'
      BY <1>1, <1>3, <1>4, <3>1, WholeNow DEF Whole, Stored
    <3>4. Len(got[p]) = msg_ptr /\ ReadSoFar(got[p])
      BY <1>1, <3>1 DEF Messages, ReadSoFar
    <3>5. ReadSoFar(got[p])'
      <4>1. Len(got'[p]) = msg_ptr'
        BY <1>4, <2>2, <2>3, <3>4
      <4>2. ASSUME NEW j \in 1 .. Len(got'[p])
            PROVE  got'[p][j] = IF j <= BufLen THEN msg'[j - 1] ELSE Junk
        <5>1. CASE j \in 1 .. Len(got[p])
          BY <1>1, <2>2, <2>3, <3>4, <5>1 DEF ReadSoFar
        <5>2. CASE j = msg_ptr + 1
          BY <1>1, <1>2, <1>4, <2>2, <2>3, <3>4, <5>2
        <5> QED BY <1>1, <1>4, <3>4, <4>1, <5>1, <5>2
      <4> QED BY <4>1, <4>2 DEF ReadSoFar
    <3>6. Messages'
      <4>1. pc'[p] = "getting" /\ \A q \in Procs \ {p} : pc'[q] = pc[q]
        BY <1>1, <1>4
      <4> QED BY <1>3, <3>1, <3>3, <3>5, <4>1, OnlyMine
    <3> QED BY <3>2, <3>6
  <2> QED BY <2>4, <2>5, <2>6
<1>5. CASE b = NUL /\ Goes(p, "getting", "set") /\ UNCHANGED <<got, msg_ptr>>
  <2>1. /\ pc'[p] = "set" /\ pc'[p] \in Holding
        /\ pc' \in [Procs -> {"start", "exit"} \cup Opening \cup Holding]
        /\ \A q \in Procs \ {p} : pc'[q] = pc[q]
    BY <1>5 DEF Goes, Types, Holding
  <2>2. Types' /\ Places'
    BY <1>1, <1>5, <2>1 DEF Types, Places
  <2>3. ASSUME ~ raced' PROVE OneInside' /\ Messages'
    <3>1. OneInside /\ Messages
      BY <1>1, <2>3
    <3>2. OneInside'
      BY <1>1, <1>3, <2>1, <3>1, StillHolding
    <3>3. Whole /\ Whole'
      BY <1>1, <1>3, <3>1, WholeNow DEF Whole, Stored
    <3>4. IsMessage(got[p]) /\ (got[p] = <<>> => msg[0] = NUL)
      <4>1. ReadSoFar(got[p])
        BY <1>1, <3>1 DEF Messages
      <4> QED BY <1>1, <1>2, <1>5, <3>3, <4>1, WholeIsRead
    <3>5. (IsMessage(got[p]) /\ (got[p] = <<>> => msg[0] = NUL))'
      BY <1>1, <1>5, <3>4 DEF IsMessage
    <3>6. Messages'
      BY <1>3, <2>1, <3>1, <3>3, <3>5, OnlyMine
    <3> QED BY <3>2, <3>6
  <2> QED BY <2>2, <2>3
<1> QED BY <1>0, <1>4, <1>5

-----------------------------------------------------------------------------
(* Writing.                                                                *)

(* A message is stored from its first byte on.                             *)
LEMMA SetStep ==
  ASSUME IInv, NEW p \in Procs, Set(p)
  PROVE  IInv'
<1> USE DEF IInv
<1>1. /\ pc[p] = "set" /\ pc'[p] = "copy"
      /\ pc' \in [Procs -> {"start", "exit"} \cup Opening \cup Holding]
      /\ \A q \in Procs \ {p} : /\ pc'[q] = pc[q] /\ k'[q] = k[q]
                                /\ passes'[q] = passes[q]
      /\ k'[p] = 0 /\ passes'[p] \in 1 .. 2
      /\ UNCHANGED <<Device_Open, msg, msg_ptr, reg, got, raced>>
  BY DEF Set, Goes, Types, Holding
<1>2. Types'
  <2>1. 0 \in 0 .. BufLen + Behind
    BY IoctlAssumption
  <2>2. k' \in [Procs -> 0 .. BufLen + Behind] /\ passes' \in [Procs -> 0 .. 2]
    BY <2>1 DEF Set, Types
  <2> QED BY <1>1, <2>2 DEF Types
<1>3. Places'
  BY <1>1, IoctlAssumption DEF Places
<1>4. p \in Inside /\ pc[p] \in Holding /\ pc'[p] \in Holding
  BY <1>1 DEF Inside, Holding
<1>5. ASSUME ~ raced' PROVE OneInside' /\ Messages'
  <2>1. OneInside /\ Messages
    BY <1>1, <1>5
  <2>2. OneInside'
    BY <1>1, <1>4, <2>1, StillHolding
  <2>3. \A j \in 0 .. k'[p] - 1 : msg'[j] = p
    BY <1>1
  <2>4. Messages'
    BY <1>1, <1>4, <2>1, <2>3, OnlyMine
  <2> QED BY <2>2, <2>4
<1> QED BY <1>2, <1>3, <1>5

(* One byte more of the message; or it is complete and whole, and is       *)
(* stored again or the call returns.                                       *)
LEMMA CopyByteStep ==
  ASSUME IInv, NEW p \in Procs, CopyByte(p)
  PROVE  IInv'
<1> USE DEF IInv
<1>1. /\ pc[p] = "copy" /\ k[p] \in Nat /\ k[p] <= Length[p] /\ passes[p] \in 1 .. 2
      /\ Length[p] \in 0 .. BufLen /\ BufLen \in Nat \ {0} /\ Behind \in Nat
      /\ UNCHANGED <<Device_Open, reg, got, raced>>
  BY IoctlAssumption DEF CopyByte, Types, Places
<1>2. p \in Inside /\ pc[p] \in Holding
  BY <1>1 DEF Inside, Holding
<1>3. CASE /\ k[p] < Length[p]
           /\ msg' = [msg EXCEPT ![k[p]] = p]
           /\ k' = [k EXCEPT ![p] = @ + 1]
           /\ UNCHANGED <<pc, msg_ptr, passes>>
  <2>1. /\ k' \in [Procs -> 0 .. BufLen + Behind] /\ k'[p] = k[p] + 1
        /\ \A q \in Procs \ {p} : k'[q] = k[q]
    BY <1>1, <1>3 DEF Types
  <2>2. /\ msg' \in [0 .. BufLen - 1 -> Procs \cup {NUL}] /\ msg'[k[p]] = p
        /\ \A j \in 0 .. k[p] - 1 : msg'[j] = msg[j]
    BY <1>1, <1>3 DEF Types
  <2>3. Types'
    BY <1>1, <1>3, <2>1, <2>2 DEF Types
  <2>4. Places'
    BY <1>1, <1>3, <2>1 DEF Places
  <2>5. ASSUME ~ raced' PROVE OneInside' /\ Messages'
    <3>1. OneInside /\ Messages
      BY <1>1, <2>5
    <3>2. OneInside'
      BY <1>1, <1>2, <1>3, <3>1, StillHolding
    <3>3. \A j \in 0 .. k'[p] - 1 : msg'[j] = p
      BY <1>1, <2>1, <2>2, <3>1 DEF Messages
    <3>4. pc'[p] = "copy" /\ \A q \in Procs \ {p} : pc'[q] = pc[q]
      BY <1>1, <1>3
    <3>5. Messages'
      BY <1>2, <3>1, <3>3, <3>4, OnlyMine
    <3> QED BY <3>2, <3>5
  <2> QED BY <2>3, <2>4, <2>5
<1>4. CASE /\ EndCopy(p) /\ k[p] = Length[p]
           /\ \/ k[p] < BufLen /\ msg' = [msg EXCEPT ![k[p]] = NUL]
              \/ k[p] = BufLen /\ UNCHANGED msg
  <2>1. /\ msg' \in [0 .. BufLen - 1 -> Procs \cup {NUL}]
        /\ \A j \in 0 .. k[p] - 1 : msg'[j] = msg[j]
        /\ k[p] < BufLen => msg'[k[p]] = NUL
    <3>1. CASE k[p] < BufLen /\ msg' = [msg EXCEPT ![k[p]] = NUL]
      BY <1>1, <3>1 DEF Types
    <3>2. CASE k[p] = BufLen /\ UNCHANGED msg
      BY <1>1, <3>2 DEF Types
    <3> QED BY <1>4, <3>1, <3>2
  <2>2. /\ passes' \in [Procs -> 0 .. 2] /\ passes'[p] = passes[p] - 1
        /\ \A q \in Procs \ {p} : passes'[q] = passes[q]
    BY <1>1, <1>4 DEF EndCopy, Types
  <2>3. \/ /\ passes[p] > 1 /\ k' = [k EXCEPT ![p] = 0]
           /\ UNCHANGED <<pc, msg_ptr>>
        \/ /\ passes[p] = 1 /\ pc' = [pc EXCEPT ![p] = "close"]
           /\ msg_ptr' = 0 /\ UNCHANGED k
    BY <1>4 DEF EndCopy, Goes
  <2>4. /\ k' \in [Procs -> 0 .. BufLen + Behind]
        /\ pc' \in [Procs -> {"start", "exit"} \cup Opening \cup Holding]
        /\ \A q \in Procs \ {p} : pc'[q] = pc[q] /\ k'[q] = k[q]
        /\ \/ passes[p] > 1 /\ pc'[p] = "copy" /\ k'[p] = 0
           \/ passes[p] = 1 /\ pc'[p] = "close"
        /\ msg_ptr' \in 0 .. BufLen + Behind
    <3>1. 0 \in 0 .. BufLen + Behind /\ "close" \in Holding
      BY <1>1 DEF Holding
    <3>2. CASE passes[p] > 1 /\ k' = [k EXCEPT ![p] = 0] /\ UNCHANGED <<pc, msg_ptr>>
      <4>1. /\ k' \in [Procs -> 0 .. BufLen + Behind] /\ k'[p] = 0
            /\ \A q \in Procs \ {p} : k'[q] = k[q]
        BY <3>1, <3>2 DEF Types
      <4>2. pc' = pc /\ msg_ptr' = msg_ptr /\ passes[p] > 1 /\ pc[p] = "copy"
        BY <1>1, <3>2
      <4> QED BY <4>1, <4>2 DEF Types
    <3>3. CASE /\ passes[p] = 1 /\ pc' = [pc EXCEPT ![p] = "close"]
               /\ msg_ptr' = 0 /\ UNCHANGED k
      BY <1>1, <3>1, <3>3 DEF Types
    <3> QED BY <2>3, <3>2, <3>3
  <2>5. Types'
    BY <1>1, <2>1, <2>2, <2>4 DEF Types
  <2>6. Places'
    <3>1. pc'[p] = "copy" => k'[p] <= Length[p] /\ passes'[p] \in 1 .. 2
      BY <1>1, <2>2, <2>4
    <3>2. pc'[p] \in {"copy", "close"}
      BY <2>4
    <3> QED BY <1>1, <2>2, <2>4, <3>1, <3>2 DEF Places
  <2>7. ASSUME ~ raced' PROVE OneInside' /\ Messages'
    <3>1. OneInside /\ Messages
      BY <1>1, <2>7
    <3>2. pc'[p] \in Holding /\ pc'[p] \in {"copy", "close"}
      BY <2>4 DEF Holding
    <3>3. OneInside'
      BY <1>1, <1>2, <2>4, <3>1, <3>2, StillHolding
    <3>4. Whole'
      <4>1. \A j \in 0 .. Length[p] - 1 : msg'[j] = p
        BY <1>1, <1>4, <2>1, <3>1 DEF Messages
      <4>2. Length[p] < BufLen => msg'[Length[p]] = NUL
        BY <1>4, <2>1
      <4>3. Length[p] = 0 => msg'[0] = NUL
        BY <1>1, <4>2
      <4> QED BY <1>1, <4>1, <4>2, <4>3 DEF Whole, Stored
    <3>5. pc'[p] = "copy" => \A j \in 0 .. k'[p] - 1 : msg'[j] = p
      BY <1>1, <2>4
    <3>6. Messages'
      BY <1>2, <2>4, <3>1, <3>2, <3>4, <3>5, OnlyMine
    <3> QED BY <3>3, <3>6
  <2> QED BY <2>5, <2>6, <2>7
<1>5. k[p] = BufLen => Length[p] = BufLen
  BY <1>1
<1> QED BY <1>3, <1>4, <1>5 DEF CopyByte

-----------------------------------------------------------------------------
(* Every step keeps the counter and the messages.                          *)
LEMMA NextIInv == IInv /\ [DevNext]_devVars => IInv'
<1> SUFFICES ASSUME IInv, [DevNext]_devVars PROVE IInv'
  OBVIOUS
<1>1. CASE UNCHANGED devVars
  <2>1. UNCHANGED <<Device_Open, msg, msg_ptr, pc, reg, k, passes, got, raced>>
    BY <1>1 DEF devVars
  <2>2. Types' /\ Places'
    BY <2>1 DEF IInv, Types, Places
  <2>3. OneInside' <=> OneInside
    BY <2>1, Zenon DEF OneInside, Inside, Holders
  <2>4. Whole' <=> Whole
    BY <2>1, Zenon DEF Whole, Stored
  <2>5. Messages' <=> Messages
    BY <2>1, <2>4, Zenon DEF Messages, ReadSoFar, IsMessage
  <2> QED BY <2>1, <2>2, <2>3, <2>5, Zenon DEF IInv
<1> QED BY <1>1, OpenTestStep, LoadStep, OpenStoreStep, ReleaseStep, ReleaseStoreStep,
           NthByteStep, GetStep, ReadByteStep, SetStep, CopyByteStep DEF DevNext

(* In every reachable state, unless opens have overlapped, one process at  *)
(* most is inside and the buffer holds a whole message or its own part.    *)
THEOREM Invariance == DevSpec => []IInv
BY InitIInv, NextIInv, PTL DEF DevSpec

(* For any number of clients: without overlapping opens Device_Open is the *)
(* number of processes that have the device open, which is 0 or 1.         *)
THEOREM CounterRight == DevSpec => []HoldersCounted
<1>1. IInv => HoldersCounted
  <2> SUFFICES ASSUME IInv, ~ raced
               PROVE  Cardinality(Holders) <= 1 /\ Device_Open = Cardinality(Holders)
    BY DEF HoldersCounted
  <2>1. OneInside
    BY DEF IInv
  <2>2. CASE Holders = {}
    BY <2>1, <2>2, FS_EmptySet DEF OneInside
  <2>3. CASE Holders # {}
    <3>1. PICK p \in Holders : TRUE
      BY <2>3
    <3>2. Holders = {p}
      BY <2>1, <3>1 DEF OneInside, Inside, Holders
    <3>3. Cardinality(Holders) = 1
      BY <3>2, FS_Singleton
    <3> QED BY <2>1, <2>3, <3>3 DEF OneInside
  <2> QED BY <2>2, <2>3
<1> QED BY <1>1, Invariance, PTL

(* For every BUF_LEN and any number of clients: without overlapping opens  *)
(* IOCTL_GET_MSG returns one whole message.                                *)
THEOREM WholeMessages == DevSpec => []GetReturnsMessage
<1>1. IInv => GetReturnsMessage
  BY DEF IInv, Messages, GetReturnsMessage
<1> QED BY <1>1, Invariance, PTL

-----------------------------------------------------------------------------
(* The counter when opens do overlap. Nothing better than this holds then: *)
(* Device_Open, and every copy of it that was loaded, is no more than the  *)
(* processes that got past device_open's test, failed or not, and no less  *)
(* than minus those that are done with it.                                 *)
Opened == {p \in Procs : pc[p] \in Holding \cup {"exit"}}
Closed == {p \in Procs : pc[p] = "exit"}
InRange(x) == - Cardinality(Closed) <= x /\ x <= Cardinality(Opened)
Counted == InRange(Device_Open) /\ \A p \in Procs : InRange(reg[p])

LEMMA Counts ==
  /\ IsFiniteSet(Opened) /\ IsFiniteSet(Closed)
  /\ Cardinality(Opened) \in Nat /\ Cardinality(Closed) \in Nat
  /\ Cardinality(Procs) \in Nat
  /\ Cardinality(Opened) <= Cardinality(Procs) /\ Cardinality(Closed) <= Cardinality(Procs)
<1>1. Opened \subseteq Procs /\ Closed \subseteq Procs /\ IsFiniteSet(Procs)
  BY IoctlAssumption DEF Opened, Closed
<1> QED BY <1>1, FS_Subset, FS_CardinalityType

(* Nobody becomes as if he had never opened or closed the device.          *)
LEMMA RangeGrows ==
  ASSUME Opened \subseteq Opened', Closed \subseteq Closed', NEW x \in Int, InRange(x)
  PROVE  InRange(x)'
<1>1. Opened' \subseteq Procs /\ Closed' \subseteq Procs /\ IsFiniteSet(Procs)
  BY IoctlAssumption DEF Opened, Closed
<1>2. IsFiniteSet(Opened') /\ IsFiniteSet(Closed')
  BY <1>1, FS_Subset
<1>3. Cardinality(Opened) <= Cardinality(Opened') /\ Cardinality(Closed) <= Cardinality(Closed')
  BY <1>2, FS_Subset
<1>4. Cardinality(Opened') \in Nat /\ Cardinality(Closed') \in Nat
  BY <1>2, FS_CardinalityType
<1> QED BY <1>3, <1>4, Counts DEF InRange

(* The places a step of p leaves behind and reaches.                       *)
LEMMA OnlyForward ==
  ASSUME Types, [DevNext]_devVars
  PROVE  Opened \subseteq Opened' /\ Closed \subseteq Closed'
<1> USE DEF Opening, Holding, Goes
<1>1. SUFFICES ASSUME NEW p \in Procs
               PROVE  /\ pc[p] \in Holding \cup {"exit"} => pc'[p] \in Holding \cup {"exit"}
                      /\ pc[p] = "exit" => pc'[p] = "exit"
  BY DEF Opened, Closed
<1>2. CASE UNCHANGED devVars
  BY <1>2 DEF devVars
<1>3. ASSUME NEW q \in Procs, OpenTest(q) \/ Load(q, "inc", "opened") \/ OpenStore(q)
      PROVE  /\ pc[p] \in Holding \cup {"exit"} => pc'[p] \in Holding \cup {"exit"}
             /\ pc[p] = "exit" => pc'[p] = "exit"
  BY <1>3 DEF Types, OpenTest, Load, OpenStore
<1>4. ASSUME NEW q \in Procs, Release(q) \/ Load(q, "dec", "closed") \/ ReleaseStore(q)
      PROVE  /\ pc[p] \in Holding \cup {"exit"} => pc'[p] \in Holding \cup {"exit"}
             /\ pc[p] = "exit" => pc'[p] = "exit"
  BY <1>4 DEF Types, Release, Load, ReleaseStore
<1>5. ASSUME NEW q \in Procs, NthByte(q) \/ Get(q) \/ ReadByte(q)
      PROVE  /\ pc[p] \in Holding \cup {"exit"} => pc'[p] \in Holding \cup {"exit"}
             /\ pc[p] = "exit" => pc'[p] = "exit"
  BY <1>5 DEF Types, NthByte, Get, ReadByte
<1>6. ASSUME NEW q \in Procs, Set(q) \/ CopyByte(q)
      PROVE  /\ pc[p] \in Holding \cup {"exit"} => pc'[p] \in Holding \cup {"exit"}
             /\ pc[p] = "exit" => pc'[p] = "exit"
  BY <1>6 DEF Types, Set, CopyByte, EndCopy
<1> QED BY <1>2, <1>3, <1>4, <1>5, <1>6 DEF DevNext

LEMMA InitCounted == DevInit => Counted
<1> SUFFICES ASSUME DevInit PROVE Counted
  OBVIOUS
<1>1. Device_Open = 0 /\ \A p \in Procs : reg[p] = 0
  BY DEF DevInit
<1> QED BY <1>1, Counts DEF Counted, InRange

LEMMA NextCounted == Types /\ Counted /\ [DevNext]_devVars => Counted'
<1> SUFFICES ASSUME Types, Counted, [DevNext]_devVars PROVE Counted'
  OBVIOUS
<1>1. /\ \A x \in Int : InRange(x) => InRange(x)'
      /\ InRange(0) /\ InRange(Device_Open) /\ \A q \in Procs : InRange(reg[q])
      /\ Device_Open \in Int /\ \A q \in Procs : reg[q] \in Int
  BY Counts, OnlyForward, RangeGrows DEF InRange, Counted, Types
<1>2. SUFFICES /\ InRange(Device_Open)'
               /\ \A q \in Procs : reg'[q] \in {0, Device_Open, reg[q]}
  BY <1>1 DEF Counted, InRange
<1>3. CASE UNCHANGED <<Device_Open, reg>>
  BY <1>1, <1>3
<1>4. CASE \E p \in Procs : Load(p, "inc", "opened") \/ Load(p, "dec", "closed")
  BY <1>1, <1>4 DEF Load, Types
<1>5. ASSUME NEW p \in Procs, OpenStore(p) PROVE InRange(Device_Open)' /\ reg' = [reg EXCEPT ![p] = 0]
  <2>1. Opened' = Opened \cup {p} /\ p \notin Opened
    BY <1>5 DEF OpenStore, Goes, Opened, Holding, Types
  <2>2. Cardinality(Opened') = Cardinality(Opened) + 1 /\ Closed' = Closed
    <3>1. Cardinality(Opened \cup {p}) = Cardinality(Opened) + 1
      BY <2>1, Counts, FS_AddElement
    <3> QED BY <1>5, <2>1, <3>1 DEF OpenStore, Goes, Closed, Types
  <2> QED BY <1>1, <1>5, <2>2, Counts DEF OpenStore, InRange
<1>6. ASSUME NEW p \in Procs, ReleaseStore(p) PROVE InRange(Device_Open)' /\ reg' = [reg EXCEPT ![p] = 0]
  <2>1. Closed' = Closed \cup {p} /\ p \notin Closed
    BY <1>6 DEF ReleaseStore, Goes, Closed, Types
  <2>2. Cardinality(Closed') = Cardinality(Closed) + 1 /\ Opened' = Opened
    <3>1. Cardinality(Closed \cup {p}) = Cardinality(Closed) + 1
      BY <2>1, Counts, FS_AddElement
    <3> QED BY <1>6, <2>1, <3>1 DEF ReleaseStore, Goes, Opened, Holding, Types
  <2> QED BY <1>1, <1>6, <2>2, Counts DEF ReleaseStore, InRange
<1>7. CASE \E p \in Procs : OpenStore(p) \/ ReleaseStore(p)
  BY <1>1, <1>5, <1>6, <1>7 DEF Types
<1>8. CASE \E p \in Procs : \/ OpenTest(p) \/ Release(p) \/ NthByte(p) \/ Get(p)
                            \/ ReadByte(p) \/ Set(p) \/ CopyByte(p)
  BY <1>3, <1>8 DEF OpenTest, Release, NthByte, Get, ReadByte, Set, CopyByte
<1> QED BY <1>3, <1>4, <1>7, <1>8 DEF DevNext, devVars

RacedKnown == raced \in BOOLEAN

LEMMA RacedBoolean == DevSpec => []RacedKnown
<1>1. DevInit => RacedKnown
  BY DEF DevInit, RacedKnown
<1>2. RacedKnown /\ [DevNext]_devVars => RacedKnown'
  <2> SUFFICES ASSUME RacedKnown, [DevNext]_devVars PROVE RacedKnown'
    OBVIOUS
  <2>1. ASSUME NEW p \in Procs, OpenTest(p) PROVE RacedKnown'
    BY <2>1, Zenon DEF OpenTest, RacedKnown
  <2>2. ASSUME raced' = raced PROVE RacedKnown'
    BY <2>2, Zenon DEF RacedKnown
  <2>3. ASSUME NEW p \in Procs,
               \/ Load(p, "inc", "opened") \/ OpenStore(p) \/ Release(p)
               \/ Load(p, "dec", "closed") \/ ReleaseStore(p) \/ NthByte(p) \/ Get(p)
               \/ ReadByte(p) \/ Set(p) \/ CopyByte(p)
        PROVE  raced' = raced
    BY <2>3, Zenon DEF Load, OpenStore, Release, ReleaseStore, NthByte, Get, ReadByte, Set, CopyByte
  <2>4. CASE UNCHANGED devVars
    BY <2>2, <2>4 DEF devVars
  <2> QED BY <2>1, <2>2, <2>3, <2>4 DEF DevNext
<1> QED BY <1>1, <1>2, PTL DEF DevSpec

(* The type invariant, however many processes race for the device: each    *)
(* lost ++ or -- moves Device_Open by one, so that it stays within the     *)
(* number of processes.                                                    *)
THEOREM TypeCorrect == DevSpec => []DevTypeOK
<1>1. Types /\ Counted /\ RacedKnown => DevTypeOK
  <2> SUFFICES ASSUME Types, Counted, RacedKnown PROVE DevTypeOK
    OBVIOUS
  <2>1. \A x \in Int : InRange(x) => x \in - Cardinality(Procs) .. Cardinality(Procs)
    BY Counts DEF InRange
  <2>2. Device_Open \in - Cardinality(Procs) .. Cardinality(Procs)
    BY <2>1 DEF Types, Counted
  <2>3. reg \in [Procs -> - Cardinality(Procs) .. Cardinality(Procs)]
    BY <2>1 DEF Types, Counted
  <2> QED BY <2>2, <2>3 DEF Types, DevTypeOK, RacedKnown
<1>2. IInv => Types
  BY DEF IInv
<1>3. DevSpec => []Counted
  BY <1>2, Invariance, InitCounted, NextCounted, PTL DEF DevSpec
<1> QED BY <1>1, <1>2, <1>3, Invariance, RacedBoolean, PTL
=============================================================================
