------------------------------ MODULE IoctlDev ------------------------------
(***************************************************************************)
(* The character device of core/ioctldev: ioctl_dev.c and its client       *)
(* main.c. The driver allows one open file at a time by counting them in   *)
(* Device_Open, without a lock: device_open tests the counter, then adds   *)
(* one, and each ++ and -- is a load and a store. The message and the read *)
(* pointer are shared by everybody who got in. A client runs main.c (read  *)
(* byte by byte, get, set, close) or writes to the device (echo > file).   *)
(***************************************************************************)
EXTENDS Integers, Sequences, FiniteSets

CONSTANTS
  Procs,    \* processes that use the device, each once
  Kind,     \* "main" or "writer" for each process
  Length,   \* the length of the message each process stores
  BufLen,   \* BUF_LEN
  Behind,   \* bound: bytes after msg that may differ from zero
  NUL, Junk \* a zero byte, and a byte that lies behind msg

ASSUME IoctlAssumption ==
  /\ IsFiniteSet(Procs)
  /\ Kind \in [Procs -> {"main", "writer"}]
  /\ BufLen \in Nat \ {0} /\ Behind \in Nat
  /\ Length \in [Procs -> 0 .. BufLen]
  /\ NUL \notin Procs /\ Junk \notin Procs /\ NUL # Junk

VARIABLES
  Device_Open, msg, msg_ptr,
  pc,       \* where each process is, in main.c or in the driver
  reg,      \* Device_Open as a ++ or -- has loaded it
  k,        \* the index of the byte a process is at
  passes,   \* copies of the message it still makes
  got,      \* what IOCTL_GET_MSG has stored in its buffer
  raced     \* history: a process passed the test of a device_open while
            \* another was between its test and the end of its increment

devVars == <<Device_Open, msg, msg_ptr, pc, reg, k, passes, got, raced>>

Opening == {"inc", "opened"}
Holding == {"nth", "get", "getting", "set", "copy", "close", "dec", "closed"}

DevTypeOK ==
  /\ Device_Open \in - Cardinality(Procs) .. Cardinality(Procs)
  /\ msg \in [0 .. BufLen - 1 -> Procs \cup {NUL}]
  /\ msg_ptr \in 0 .. BufLen + Behind
  /\ pc \in [Procs -> {"start", "exit"} \cup Opening \cup Holding]
  /\ reg \in [Procs -> - Cardinality(Procs) .. Cardinality(Procs)]
  /\ k \in [Procs -> 0 .. BufLen + Behind]
  /\ passes \in [Procs -> 0 .. 2]
  /\ got \in [Procs -> Seq(Procs \cup {Junk})]
  /\ raced \in BOOLEAN

DevInit ==
  /\ Device_Open = 0
  /\ msg = [j \in 0 .. BufLen - 1 |-> NUL]
  /\ msg_ptr = 0
  /\ pc = [p \in Procs |-> "start"]
  /\ reg = [p \in Procs |-> 0]
  /\ k = [p \in Procs |-> 0]
  /\ passes = [p \in Procs |-> 0]
  /\ got = [p \in Procs |-> <<>>]
  /\ raced = FALSE

Goes(p, from, to) == pc[p] = from /\ pc' = [pc EXCEPT ![p] = to]

(* What may be read at index j of msg: a message of BUF_LEN bytes has no   *)
(* zero byte at its end.                                                   *)
Byte(j) ==
  IF j < BufLen THEN {msg[j]}
  ELSE IF j < BufLen + Behind THEN {NUL, Junk} ELSE {NUL}

-----------------------------------------------------------------------------
(* device_open and device_release.                                         *)

(* Mutant: the result of the test is not looked at.                        *)
OpenTestAlways(p) ==
  /\ Goes(p, "start", "inc")
  /\ raced' = (raced \/ \E q \in Procs \ {p} : pc[q] \in Opening)
  /\ UNCHANGED <<Device_Open, msg, msg_ptr, reg, k, passes, got>>

(* if (Device_Open) return -EBUSY; main.c exits then.                      *)
OpenTest(p) ==
  /\ \/ /\ Device_Open = 0
        /\ Goes(p, "start", "inc")
        /\ raced' = (raced \/ \E q \in Procs \ {p} : pc[q] \in Opening)
     \/ /\ Device_Open # 0
        /\ Goes(p, "start", "exit")
        /\ UNCHANGED raced
  /\ UNCHANGED <<Device_Open, msg, msg_ptr, reg, k, passes, got>>

Load(p, from, to) ==
  /\ Goes(p, from, to)
  /\ reg' = [reg EXCEPT ![p] = Device_Open]
  /\ UNCHANGED <<Device_Open, msg, msg_ptr, k, passes, got, raced>>

(* Mutant: msg_ptr is left where the last reader stopped.                  *)
OpenStoreKeepsPointer(p) ==
  /\ Goes(p, "opened", IF Kind[p] = "main" THEN "nth" ELSE "set")
  /\ Device_Open' = reg[p] + 1
  /\ reg' = [reg EXCEPT ![p] = 0]
  /\ UNCHANGED <<msg, msg_ptr, k, passes, got, raced>>

(* The store of Device_Open++, and msg_ptr = msg.                          *)
OpenStore(p) ==
  /\ Goes(p, "opened", IF Kind[p] = "main" THEN "nth" ELSE "set")
  /\ Device_Open' = reg[p] + 1
  /\ reg' = [reg EXCEPT ![p] = 0]
  /\ msg_ptr' = 0
  /\ UNCHANGED <<msg, k, passes, got, raced>>

(* close(), or the end of a process that is killed between two calls. What *)
(* it has read is gone with it.                                            *)
Release(p) ==
  /\ \E from \in {"nth", "get", "set", "close"} : Goes(p, from, "dec")
  /\ k' = [k EXCEPT ![p] = 0]
  /\ got' = [got EXCEPT ![p] = <<>>]
  /\ UNCHANGED <<Device_Open, msg, msg_ptr, reg, passes, raced>>

(* The store of Device_Open--.                                             *)
ReleaseStore(p) ==
  /\ Goes(p, "closed", "exit")
  /\ Device_Open' = reg[p] - 1
  /\ reg' = [reg EXCEPT ![p] = 0]
  /\ UNCHANGED <<msg, msg_ptr, k, passes, got, raced>>

-----------------------------------------------------------------------------
(* Reading.                                                                *)

(* ioctl_get_nth_byte: one IOCTL_GET_NTH_BYTE after the other, up to zero. *)
NthByte(p) ==
  /\ pc[p] = "nth"
  /\ \E b \in Byte(k[p]) :
       \/ /\ b # NUL
          /\ k' = [k EXCEPT ![p] = @ + 1]
          /\ UNCHANGED pc
       \/ /\ b = NUL
          /\ k' = [k EXCEPT ![p] = 0]
          /\ Goes(p, "nth", "get")
  /\ UNCHANGED <<Device_Open, msg, msg_ptr, reg, passes, got, raced>>

(* IOCTL_GET_MSG: device_read copies from msg_ptr, which everybody moves,  *)
(* up to a zero byte (its limit of 99 bytes is above BUF_LEN).             *)
Get(p) ==
  /\ Goes(p, "get", "getting")
  /\ UNCHANGED <<Device_Open, msg, msg_ptr, reg, k, passes, got, raced>>

ReadByte(p) ==
  /\ pc[p] = "getting"
  /\ \E b \in Byte(msg_ptr) :
       \/ /\ b # NUL
          /\ got' = [got EXCEPT ![p] = Append(@, b)]
          /\ msg_ptr' = msg_ptr + 1
          /\ UNCHANGED pc
       \/ /\ b = NUL
          /\ Goes(p, "getting", "set")
          /\ UNCHANGED <<got, msg_ptr>>
  /\ UNCHANGED <<Device_Open, msg, reg, k, passes, raced>>

-----------------------------------------------------------------------------
(* Writing.                                                                *)

(* IOCTL_SET_MSG copies the message, and once more in device_write; write()*)
(* copies it once.                                                         *)
Set(p) ==
  /\ Goes(p, "set", "copy")
  /\ k' = [k EXCEPT ![p] = 0]
  /\ passes' = [passes EXCEPT ![p] = IF Kind[p] = "main" THEN 2 ELSE 1]
  /\ UNCHANGED <<Device_Open, msg, msg_ptr, reg, got, raced>>

(* strncpy_from_user has stored the zero byte, or BUF_LEN bytes: the copy  *)
(* is made again, or msg_ptr = msg and the call returns.                   *)
EndCopy(p) ==
  /\ passes' = [passes EXCEPT ![p] = @ - 1]
  /\ \/ /\ passes[p] > 1
        /\ k' = [k EXCEPT ![p] = 0]
        /\ UNCHANGED <<pc, msg_ptr>>
     \/ /\ passes[p] = 1
        /\ Goes(p, "copy", "close")
        /\ msg_ptr' = 0
        /\ UNCHANGED k

(* Mutant: the bytes are copied without the zero byte that ends them.      *)
CopyByteUnended(p) ==
  /\ pc[p] = "copy"
  /\ \/ /\ k[p] < Length[p]
        /\ msg' = [msg EXCEPT ![k[p]] = p]
        /\ k' = [k EXCEPT ![p] = @ + 1]
        /\ UNCHANGED <<pc, msg_ptr, passes>>
     \/ k[p] = Length[p] /\ EndCopy(p) /\ UNCHANGED msg
  /\ UNCHANGED <<Device_Open, reg, got, raced>>

(* One byte of strncpy_from_user.                                          *)
CopyByte(p) ==
  /\ pc[p] = "copy"
  /\ \/ /\ k[p] < Length[p]
        /\ msg' = [msg EXCEPT ![k[p]] = p]
        /\ k' = [k EXCEPT ![p] = @ + 1]
        /\ UNCHANGED <<pc, msg_ptr, passes>>
     \/ /\ k[p] = Length[p] /\ k[p] < BufLen
        /\ msg' = [msg EXCEPT ![k[p]] = NUL]
        /\ EndCopy(p)
     \/ /\ k[p] = BufLen
        /\ EndCopy(p) /\ UNCHANGED msg
  /\ UNCHANGED <<Device_Open, reg, got, raced>>

-----------------------------------------------------------------------------
DevNext == \E p \in Procs :
          \/ OpenTest(p) \/ Load(p, "inc", "opened") \/ OpenStore(p)
          \/ Release(p) \/ Load(p, "dec", "closed") \/ ReleaseStore(p)
          \/ NthByte(p) \/ Get(p) \/ ReadByte(p)
          \/ Set(p) \/ CopyByte(p)

DevSpec == DevInit /\ [][DevNext]_devVars

-----------------------------------------------------------------------------
(* Properties.                                                             *)

Holders == {p \in Procs : pc[p] \in Holding}

(* As long as no two device_open overlapped, at most one process has the   *)
(* device open and Device_Open counts it: releases, failed opens and killed*)
(* processes never leave the device busy for ever, or open to two.         *)
HoldersCounted ==
  ~ raced => Cardinality(Holders) <= 1 /\ Device_Open = Cardinality(Holders)

(* A text that one process stored, followed by bytes from behind msg only  *)
(* when it fills the buffer.                                               *)
IsMessage(s) ==
  \/ s = <<>>
  \/ \E q \in Procs :
       /\ Len(s) >= Length[q]
       /\ \A j \in 1 .. Len(s) : s[j] = IF j <= Length[q] THEN q ELSE Junk
       /\ Len(s) > Length[q] => Length[q] = BufLen

(* As long as no two device_open overlapped, IOCTL_GET_MSG returns a whole *)
(* message of one process, although the buffer is overwritten in place and *)
(* the read pointer survives a close.                                      *)
GetReturnsMessage ==
  \A p \in Procs :
    (~ raced /\ Kind[p] = "main" /\ pc[p] = "set")
      => /\ IsMessage(got[p])
         /\ got[p] = <<>> => msg[0] = NUL
=============================================================================
