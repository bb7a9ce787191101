---------------------------- MODULE CopyProgress ----------------------------
(***************************************************************************)
(* File copying of text_manager/copy.c. copy() runs in the user interface's*)
(* thread, starts a copier thread (_copy) and joins it; the copier starts a*)
(* progress thread (show_progress) that nobody joins: it is cancelled, and *)
(* may still be alive in the next call of copy(). All of them share one    *)
(* mutex and one condition variable, and the progress thread reads struct  *)
(* print_window from the copier's stack.                                   *)
(*                                                                         *)
(* The mutex is a normal one, so pthread_mutex_unlock by a thread that     *)
(* does not hold it releases it all the same, and a thread cancelled in    *)
(* pthread_cond_wait takes the mutex back before it dies and keeps it.     *)
(***************************************************************************)
EXTENDS Naturals

CONSTANTS
  MaxCopies,    \* bound: calls of copy()
  MaxBlocks,    \* bound: whole 1024-byte blocks of a source file
  MaxSpurious   \* bound: spurious wake-ups of pthread_cond_wait

ASSUME CopyAssumption ==
  MaxCopies \in Nat /\ MaxBlocks \in Nat /\ MaxSpurious \in Nat

VARIABLES
  call,      \* calls of copy() so far; the copier's number
  mainpc,    \* the caller: "idle", or in copy() at "unlock" or "join"
  cpc,       \* where the copier of the current call is
  file,      \* its source: whole blocks, and whether a shorter tail follows
  copied,    \* whole blocks written to the destination
  percent,   \* pw.percent_coplete of the current call
  ppc,       \* where each call's progress thread is
  cancel,    \* pthread_cancel was called on it
  shown,     \* what it last printed
  owner,     \* who took print_window_mutex last and has not released it
  spurious,  \* spurious wake-ups so far
  dirty      \* history: a copy() began while a progress thread was alive

fileVars == <<file, copied>>
vars == <<call, mainpc, cpc, fileVars, percent, ppc, cancel, shown, owner,
          spurious, dirty>>

Copies == 1 .. MaxCopies
Free == <<"free", 0>>
Copier == <<"copier", call>>
Progress(n) == <<"progress", n>>

(* Percentages are told apart as: never assigned, below 100, and 100.      *)
Percents == {"unset", "below", "100"}

TypeOK ==
  /\ call \in 0 .. MaxCopies
  /\ mainpc \in {"idle", "unlock", "join"}
  /\ cpc \in {"gone", "create", "open", "read", "write", "lock", "update",
              "unlock", "finlock", "finish", "finunlock", "close"}
  /\ file \in [full : 0 .. MaxBlocks, tail : BOOLEAN]
  /\ copied \in 0 .. file.full
  /\ percent \in Percents
  /\ ppc \in [Copies -> {"none", "lock", "enter", "wait", "woken", "print",
                         "reacquire", "dead"}]
  /\ cancel \in [Copies -> BOOLEAN]
  /\ shown \in [Copies -> Percents \cup {"nothing", "dangling"}]
  /\ owner \in {Free} \cup ({"copier", "progress"} \X Copies)
  /\ spurious \in 0 .. MaxSpurious
  /\ dirty \in BOOLEAN

Init ==
  /\ call = 0 /\ mainpc = "idle" /\ cpc = "gone"
  /\ file = [full |-> 0, tail |-> FALSE] /\ copied = 0
  /\ percent = "unset"
  /\ ppc = [n \in Copies |-> "none"]
  /\ cancel = [n \in Copies |-> FALSE]
  /\ shown = [n \in Copies |-> "nothing"]
  /\ owner = Free
  /\ spurious = 0
  /\ dirty = FALSE

-----------------------------------------------------------------------------
(* copy(), in the thread of the user interface.                            *)

(* The call gets past "source and destination are the same".               *)
Call ==
  /\ mainpc = "idle"
  /\ call < MaxCopies
  /\ call' = call + 1
  /\ mainpc' = "unlock"
  /\ UNCHANGED <<cpc, fileVars, percent, ppc, cancel, shown, owner, spurious, dirty>>

(* Mutant: without the unlock at the start of copy().                      *)
StartWithoutUnlock ==
  /\ mainpc = "unlock"
  /\ dirty' = (dirty \/ \E n \in Copies : ppc[n] \notin {"none", "dead"})
  /\ file' \in [full : 0 .. MaxBlocks, tail : BOOLEAN]
  /\ copied' = 0
  /\ percent' = "unset"
  /\ cpc' = "create"
  /\ mainpc' = "join"
  /\ UNCHANGED <<call, owner, ppc, cancel, shown, spurious>>

(* Line 115 unlocks the mutex whoever holds it - this is what frees a mutex*)
(* that died with the last progress thread - and the copier is created. It *)
(* finds some source file.                                                 *)
Start ==
  /\ mainpc = "unlock"
  /\ owner' = Free
  /\ dirty' = (dirty \/ \E n \in Copies : ppc[n] \notin {"none", "dead"})
  /\ file' \in [full : 0 .. MaxBlocks, tail : BOOLEAN]
  /\ copied' = 0
  /\ percent' = "unset"
  /\ cpc' = "create"
  /\ mainpc' = "join"
  /\ UNCHANGED <<call, ppc, cancel, shown, spurious>>

(* pthread_join returns.                                                   *)
Return ==
  /\ mainpc = "join" /\ cpc = "gone"
  /\ mainpc' = "idle"
  /\ UNCHANGED <<call, cpc, fileVars, percent, ppc, cancel, shown, owner, spurious,
                 dirty>>

-----------------------------------------------------------------------------
(* _copy().                                                                *)

Create ==
  /\ cpc = "create"
  /\ ppc' = [ppc EXCEPT ![call] = "lock"]
  /\ cpc' = "open"
  /\ UNCHANGED <<call, mainpc, fileVars, percent, cancel, shown, owner, spurious,
                 dirty>>

(* Both fopen, or the cancellation of the progress thread and the copier's *)
(* exit when one of them fails.                                            *)
Open ==
  /\ cpc = "open"
  /\ \/ cpc' = "read" /\ UNCHANGED cancel
     \/ cpc' = "gone" /\ cancel' = [cancel EXCEPT ![call] = TRUE]
  /\ UNCHANGED <<call, mainpc, fileVars, percent, ppc, shown, owner, spurious,
                 dirty>>

(* fread of one whole block: a shorter rest counts as none.                *)
Read ==
  /\ cpc = "read"
  /\ cpc' = IF copied < file.full THEN "write" ELSE "finlock"
  /\ UNCHANGED <<call, mainpc, fileVars, percent, ppc, cancel, shown, owner,
                 spurious, dirty>>

Write ==
  /\ cpc = "write"
  /\ copied' = copied + 1
  /\ cpc' = "lock"
  /\ UNCHANGED <<call, mainpc, file, percent, ppc, cancel, shown, owner,
                 spurious, dirty>>

(* pthread_mutex_lock, in the loop and after it.                           *)
Lock ==
  /\ cpc \in {"lock", "finlock"}
  /\ owner = Free
  /\ owner' = Copier
  /\ cpc' = IF cpc = "lock" THEN "update" ELSE "finish"
  /\ UNCHANGED <<call, mainpc, fileVars, percent, ppc, cancel, shown, spurious,
                 dirty>>

Waiting == {n \in Copies : ppc[n] = "wait"}

(* pthread_cond_signal: one of the waiting threads, if any, is woken - one *)
(* of an earlier call perhaps.                                             *)
SignalOne ==
  IF Waiting = {} THEN UNCHANGED ppc
  ELSE \E n \in Waiting : ppc' = [ppc EXCEPT ![n] = "woken"]

(* percent_coplete is set, to ftell(dst) / source_file_size in the loop,   *)
(* and the progress thread is signalled.                                   *)
Update ==
  /\ cpc \in {"update", "finish"}
  /\ percent' = IF cpc = "update" /\ (copied < file.full \/ file.tail)
                THEN "below" ELSE "100"
  /\ SignalOne
  /\ cpc' = IF cpc = "update" THEN "unlock" ELSE "finunlock"
  /\ UNCHANGED <<call, mainpc, fileVars, cancel, shown, owner, spurious, dirty>>

Unlock ==
  /\ cpc \in {"unlock", "finunlock"}
  /\ owner' = Free
  /\ cpc' = IF cpc = "unlock" THEN "read" ELSE "close"
  /\ UNCHANGED <<call, mainpc, fileVars, percent, ppc, cancel, shown, spurious,
                 dirty>>

(* Mutant: the copier forgets pthread_cancel.                              *)
CloseOnly ==
  /\ cpc = "close"
  /\ cpc' = "gone"
  /\ UNCHANGED <<call, mainpc, fileVars, percent, ppc, cancel, shown, owner,
                 spurious, dirty>>

(* fclose, pthread_cancel, and the end of the thread that owns pw.         *)
Close ==
  /\ cpc = "close"
  /\ cancel' = [cancel EXCEPT ![call] = TRUE]
  /\ cpc' = "gone"
  /\ UNCHANGED <<call, mainpc, fileVars, percent, ppc, shown, owner, spurious, dirty>>

-----------------------------------------------------------------------------
(* show_progress() of call n.                                              *)

ProgressLock(n) ==
  /\ ppc[n] = "lock"
  /\ owner = Free
  /\ owner' = Progress(n)
  /\ ppc' = [ppc EXCEPT ![n] = "enter"]
  /\ UNCHANGED <<call, mainpc, cpc, fileVars, percent, cancel, shown, spurious,
                 dirty>>

(* Mutant: a flag is polled instead, the mutex is kept while waiting.      *)
WaitHoldingMutex(n) ==
  /\ ppc[n] \in {"enter", "print"}
  /\ ppc' = [ppc EXCEPT ![n] = "wait"]
  /\ UNCHANGED <<call, mainpc, cpc, fileVars, percent, cancel, shown, owner,
                 spurious, dirty>>

(* Into pthread_cond_wait, for the first time or after a round of printing:*)
(* the mutex is released, whoever took it last.                            *)
CondWait(n) ==
  /\ ppc[n] \in {"enter", "print"}
  /\ owner' = Free
  /\ ppc' = [ppc EXCEPT ![n] = "wait"]
  /\ UNCHANGED <<call, mainpc, cpc, fileVars, percent, cancel, shown, spurious,
                 dirty>>

(* Mutant: pthread_cond_wait returns without taking the mutex back.        *)
WakeUnlocked(n) ==
  /\ ppc[n] = "woken"
  /\ ppc' = [ppc EXCEPT ![n] = "print"]
  /\ shown' = [shown EXCEPT ![n] =
                 IF n = call /\ cpc # "gone" THEN percent ELSE "dangling"]
  /\ UNCHANGED <<call, mainpc, cpc, fileVars, percent, cancel, owner, spurious,
                 dirty>>

(* Out of pthread_cond_wait with the mutex. pw is read and the status line *)
(* drawn: once the copier is gone, pw is a frame that no longer exists.    *)
Wake(n) ==
  /\ ppc[n] = "woken"
  /\ owner = Free
  /\ owner' = Progress(n)
  /\ ppc' = [ppc EXCEPT ![n] = "print"]
  /\ shown' = [shown EXCEPT ![n] =
                 IF n = call /\ cpc # "gone" THEN percent ELSE "dangling"]
  /\ UNCHANGED <<call, mainpc, cpc, fileVars, percent, cancel, spurious, dirty>>

(* A pending cancellation is acted upon when wrefresh() writes: the thread *)
(* dies with the mutex.                                                    *)
DieInRefresh(n) ==
  /\ ppc[n] = "print" /\ cancel[n]
  /\ ppc' = [ppc EXCEPT ![n] = "dead"]
  /\ UNCHANGED <<call, mainpc, cpc, fileVars, percent, cancel, shown, owner,
                 spurious, dirty>>

(* A cancellation is acted upon in pthread_cond_wait: first the mutex is   *)
(* taken again, then the thread dies with it.                              *)
CancelledInWait(n) ==
  /\ ppc[n] = "wait" /\ cancel[n]
  /\ ppc' = [ppc EXCEPT ![n] = "reacquire"]
  /\ UNCHANGED <<call, mainpc, cpc, fileVars, percent, cancel, shown, owner,
                 spurious, dirty>>

DieInWait(n) ==
  /\ ppc[n] = "reacquire"
  /\ owner = Free
  /\ owner' = Progress(n)
  /\ ppc' = [ppc EXCEPT ![n] = "dead"]
  /\ UNCHANGED <<call, mainpc, cpc, fileVars, percent, cancel, shown, spurious,
                 dirty>>

SpuriousWake(n) ==
  /\ ppc[n] = "wait"
  /\ spurious < MaxSpurious
  /\ spurious' = spurious + 1
  /\ ppc' = [ppc EXCEPT ![n] = "woken"]
  /\ UNCHANGED <<call, mainpc, cpc, fileVars, percent, cancel, shown, owner, dirty>>

-----------------------------------------------------------------------------
CopierStep == \/ Create \/ Open \/ Read \/ Write \/ Lock \/ Update \/ Unlock \/ Close

ProgressStep(n) ==
  \/ ProgressLock(n) \/ CondWait(n) \/ Wake(n) \/ DieInRefresh(n)
  \/ CancelledInWait(n) \/ DieInWait(n)

Next == \/ Call \/ Start \/ Return
        \/ CopierStep
        \/ \E n \in Copies : ProgressStep(n) \/ SpuriousWake(n)

Spec == Init /\ [][Next]_vars

(* Every thread that can run is eventually scheduled. Nobody has to call   *)
(* copy(), and spurious wake-ups need not happen.                          *)
FairSpec ==
  /\ Spec
  /\ WF_vars(Start) /\ WF_vars(Return)
  /\ WF_vars(CopierStep)
  /\ \A n \in Copies : WF_vars(ProgressStep(n))

-----------------------------------------------------------------------------
(* Properties.                                                             *)

(* Threads that are between taking and releasing the mutex.                *)
Inside ==
  {Progress(n) : n \in {m \in Copies : ppc[m] \in {"enter", "print"}}}
    \cup (IF cpc \in {"update", "unlock", "finish", "finunlock"} THEN {Copier} ELSE {})

(* As long as no copy() starts before the last progress thread is dead,    *)
(* the unlock of line 115 by a thread that does not hold the mutex never   *)
(* breaks mutual exclusion: whoever draws or updates pw holds the mutex.   *)
ExclusiveWindow == ~ dirty => \A t \in Inside : t = owner

(* A mutex that died with a cancelled thread never blocks a later copy()   *)
(* whose caller waited long enough.                                        *)
QuiescentCopyReturns ==
  (mainpc # "idle" /\ ~ dirty) ~> (mainpc = "idle" \/ dirty)

Orphaned == \E n \in Copies : owner = Progress(n) /\ ppc[n] = "dead"

(* Even when calls follow each other without a pause, the only thing that  *)
(* keeps copy() from returning is a mutex held by a dead progress thread.  *)
StuckOnlyByOrphan ==
  (mainpc # "idle") ~> (mainpc = "idle" \/ Orphaned)

(* A progress thread whose call is over goes away, or waits for a mutex    *)
(* that another dead progress thread holds.                                *)
ProgressEnds ==
  \A n \in Copies :
    (n < call \/ (n = call /\ mainpc = "join" /\ cpc = "gone"))
      ~> (ppc[n] \in {"none", "dead"} \/ Orphaned)

(* copy.h: copy() copies the file "printing status into window". It cannot *)
(* have done so if it never returns.                                       *)
CopyReturns == (mainpc # "idle") ~> (mainpc = "idle")
=============================================================================
