------------------------------ MODULE ProcDev ------------------------------
(***************************************************************************)
(* /proc/helloworld of core/procdev/procfs.c: one message and two static   *)
(* flags. f_read, which alternates between data and end of file, belongs   *)
(* to no reader; f_write, set by the first write, is never cleared. There  *)
(* is no lock. Readers are programs like cat, that read until they get     *)
(* nothing, or stop after a first chunk like head.                         *)
(***************************************************************************)
EXTENDS Naturals, Sequences, FiniteSets

CONSTANTS
  Readers,  \* processes that open the file once to read it
  Writers,  \* processes that write once, each a text of its own
  NoText,   \* the empty message
  Torn      \* a mixture of two texts

ASSUME ProcAssumption == NoText \notin Writers \cup {Torn} /\ Torn \notin Writers

VARIABLES
  present,    \* the entry exists in /proc
  msg,        \* the stored text: NoText, a writer's, or Torn
  f_read, f_write,
  rpc, rbuf,  \* where each reader is, and what copy_to_user gave it
  wpc,        \* where each writer is
  got,        \* history: the chunks each reader was given
  disturbed   \* history: calls of two processes overlapped, a reader
              \* stopped early, or one found the message empty

procVars == <<present, msg, f_read, f_write, rpc, rbuf, wpc, got, disturbed>>

(* m_proc_init, where proc_create may fail; statics are zero.              *)
ProcInit ==
  /\ present \in BOOLEAN
  /\ msg = NoText /\ f_read = 0 /\ f_write = 0
  /\ rpc = [r \in Readers |-> "new"]
  /\ rbuf = [r \in Readers |-> NoText]
  /\ wpc = [w \in Writers |-> "new"]
  /\ got = [r \in Readers |-> <<>>]
  /\ disturbed = FALSE

ReaderGoes(r, from, to) == rpc[r] = from /\ rpc' = [rpc EXCEPT ![r] = to]
WriterGoes(w, from, to) == wpc[w] = from /\ wpc' = [wpc EXCEPT ![w] = to]
Reading(r) == rpc[r] \notin {"new", "done"}
Writing(w) == wpc[w] \notin {"new", "done"}
Busy == (\E r \in Readers : Reading(r)) \/ (\E w \in Writers : Writing(w))

OpenToRead(r) ==
  /\ present /\ ReaderGoes(r, "new", "read")
  /\ disturbed' = (disturbed \/ Busy)
  /\ UNCHANGED <<present, msg, f_read, f_write, rbuf, wpc, got>>

(* copy_to_user, perhaps while somebody writes.                            *)
CopyToUser(r) ==
  /\ present /\ ReaderGoes(r, "read", "test")
  /\ \E t \in {msg} \cup (IF \E w \in Writers : wpc[w] \in {"copy", "clash"}
                          THEN {Torn} ELSE {}) :
       rbuf' = [rbuf EXCEPT ![r] = t]
  /\ UNCHANGED <<present, msg, f_read, f_write, wpc, got, disturbed>>

TestRead(r) ==
  /\ ReaderGoes(r, "test", IF f_read = 1 THEN "eof" ELSE "data")
  /\ UNCHANGED <<present, msg, f_read, f_write, rbuf, wpc, got, disturbed>>

(* Mutant: the flag is not cleared at the end of file.                     *)
ReturnEofKeeps(r) ==
  /\ ReaderGoes(r, "eof", "done")
  /\ UNCHANGED <<present, msg, f_read, f_write, rbuf, wpc, got, disturbed>>

ReturnEof(r) ==
  /\ ReaderGoes(r, "eof", "done")
  /\ f_read' = 0
  /\ UNCHANGED <<present, msg, f_write, rbuf, wpc, got, disturbed>>

(* Mutant: f_read is not set, there is no end of file.                     *)
ReturnDataAgain(r) ==
  /\ ReaderGoes(r, "data", IF rbuf[r] = NoText THEN "done" ELSE "read")
  /\ got' = [got EXCEPT ![r] = <<rbuf[r]>>]
  /\ UNCHANGED <<present, msg, f_read, f_write, rbuf, wpc, disturbed>>

(* return strlen(buffer): for an empty message that is 0, end of file.     *)
ReturnData(r) ==
  /\ f_read' = 1
  /\ \/ /\ rbuf[r] # NoText
        /\ got' = [got EXCEPT ![r] = Append(@, rbuf[r])]
        /\ \/ ReaderGoes(r, "data", "read") /\ UNCHANGED disturbed
           \/ ReaderGoes(r, "data", "done") /\ disturbed' = TRUE
     \/ /\ rbuf[r] = NoText
        /\ ReaderGoes(r, "data", "done") /\ disturbed' = TRUE
        /\ UNCHANGED got
  /\ UNCHANGED <<present, msg, f_write, rbuf, wpc>>

(* The entry is gone: the next read fails.                                 *)
ReadGone(r) ==
  /\ ~ present /\ ReaderGoes(r, "read", "done")
  /\ UNCHANGED <<present, msg, f_read, f_write, rbuf, wpc, got, disturbed>>

(* procfile_write: a later write reports success and stores nothing. Two   *)
(* first writes that pass the test together may mix their texts.           *)
TestWrite(w) ==
  /\ present /\ wpc[w] = "new"
  /\ LET others == {v \in Writers : wpc[v] \in {"copy", "clash"}}
     IN wpc' = [v \in Writers |->
                 IF v = w
                 THEN IF f_write = 1 THEN "done"
                      ELSE IF others = {} THEN "copy" ELSE "clash"
                 ELSE IF v \in others /\ f_write = 0 THEN "clash" ELSE wpc[v]]
  /\ disturbed' = (disturbed \/ Busy)
  /\ UNCHANGED <<present, msg, f_read, f_write, rpc, rbuf, got>>

CopyFromUser(w) ==
  /\ \/ WriterGoes(w, "copy", "flag") /\ msg' = w
     \/ WriterGoes(w, "clash", "flag") /\ msg' \in {w, Torn}
  /\ UNCHANGED <<present, f_read, f_write, rpc, rbuf, got, disturbed>>

SetWritten(w) ==
  /\ WriterGoes(w, "flag", "done")
  /\ f_write' = 1
  /\ UNCHANGED <<present, msg, f_read, rpc, rbuf, got, disturbed>>

(* m_proc_cleanup: remove_proc_entry waits for the calls in progress.      *)
Cleanup ==
  /\ present /\ present' = FALSE
  /\ \A r \in Readers : rpc[r] \in {"new", "read", "done"}
  /\ \A w \in Writers : wpc[w] \in {"new", "done"}
  /\ UNCHANGED <<msg, f_read, f_write, rpc, rbuf, wpc, got, disturbed>>

ReaderStep(r) == \/ CopyToUser(r) \/ TestRead(r) \/ ReturnEof(r)
                 \/ ReturnData(r) \/ ReadGone(r)

WriterStep(w) == TestWrite(w) \/ CopyFromUser(w) \/ SetWritten(w)

ProcNext == \/ \E r \in Readers : OpenToRead(r) \/ ReaderStep(r)
            \/ \E w \in Writers : WriterStep(w)
            \/ Cleanup

ProcSpec == ProcInit /\ [][ProcNext]_procVars

-----------------------------------------------------------------------------
(* Processes that come one at a time, the readers reading to the end and   *)
(* none before there is a message, get the message exactly once, and it is *)
(* for ever the first that was written. Each condition is needed: an       *)
(* overlap, a reader like head, or a read of the empty message leaves      *)
(* f_read out of step, and from then on a reader may find the file empty   *)
(* and another may get it twice.                                           *)
OneChunkEach ==
  (present /\ ~ disturbed)
    => \A r \in Readers : rpc[r] = "done" => got[r] = <<msg>>

(* Every reader comes to an end of file, although the flag that ends a     *)
(* read is flipped by all of them: what another reader takes away from it  *)
(* ends that other reader.                                                 *)
ReadersEnd == \A r \in Readers : Reading(r) ~> rpc[r] = "done"
=============================================================================
