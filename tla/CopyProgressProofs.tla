------------------------- MODULE CopyProgressProofs -------------------------
(***************************************************************************)
(* What the threads of copy() guarantee for any number of calls, files of  *)
(* any size and any number of spurious wake-ups.                           *)
(*                                                                         *)
(* The mutex has an owner who is inside, or dead. That a thread inside is  *)
(* the owner is lost only by the unlock of line 115 and by a release of    *)
(* somebody else's lock that follows from it, hence not before a copy()    *)
(* has started beside a living progress thread.                            *)
(***************************************************************************)
EXTENDS CopyProgress, TLAPS

(* Outside of copy(), and before its unlock, there is no copier; a copier, *)
(* and whoever calls, belongs to a call; a block is written only if the    *)
(* source has it. A call has no progress thread before it creates one.     *)
Flow ==
  /\ mainpc # "join" => cpc = "gone"
  /\ mainpc # "idle" \/ cpc # "gone" => call \in Copies
  /\ cpc = "write" => copied < file.full
  /\ \A n \in Copies : ppc[n] # "none" =>
       n <= call /\ (n = call => mainpc # "unlock" /\ cpc # "create")

CopierInside == cpc \in {"update", "unlock", "finish", "finunlock"}

(* The owner of the mutex is where it has it, or died with it.             *)
OwnerPlaced ==
  \/ owner = Free
  \/ owner = Copier /\ CopierInside
  \/ \E n \in Copies : owner = Progress(n) /\ ppc[n] \in {"enter", "print", "dead"}

(* Without a start beside a living thread, whoever is inside is the owner. *)
InsideOwns ==
  ~ dirty =>
    /\ CopierInside => owner = Copier
    /\ \A n \in Copies : ppc[n] \in {"enter", "print"} => owner = Progress(n)

IInv == TypeOK /\ Flow /\ OwnerPlaced /\ InsideOwns

(* The mutex is never held by a thread that is somewhere else. This is why *)
(* only a dead progress thread can keep copy() waiting.                    *)
OwnerInsideOrDead == owner = Free \/ owner \in Inside \/ Orphaned

ProgressPcs == {"none", "lock", "enter", "wait", "woken", "print", "reacquire", "dead"}

-----------------------------------------------------------------------------
(* The names of the threads are different.                                 *)
LEMMA Names ==
  /\ Copier # Free
  /\ \A n : Progress(n) # Free /\ Progress(n) # Copier
  /\ \A m, n : Progress(m) = Progress(n) => m = n
BY DEF Copier, Free, Progress

(* No thread runs, the mutex is free.                                      *)
LEMMA InitIInv == Init => IInv
<1> SUFFICES ASSUME Init PROVE IInv
  OBVIOUS
<1>1. TypeOK
  <2>1. /\ call \in 0 .. MaxCopies /\ spurious \in 0 .. MaxSpurious
        /\ file \in [full : 0 .. MaxBlocks, tail : BOOLEAN] /\ copied \in 0 .. file.full
    BY CopyAssumption DEF Init
  <2>2. /\ ppc \in [Copies -> ProgressPcs]
        /\ cancel \in [Copies -> BOOLEAN]
        /\ shown \in [Copies -> Percents \cup {"nothing", "dangling"}]
    BY DEF Init, ProgressPcs
  <2> QED BY <2>1, <2>2, Zenon DEF Init, TypeOK, Percents, ProgressPcs
<1>2. Flow /\ OwnerPlaced
  BY DEF Init, Flow, OwnerPlaced
<1>3. InsideOwns
  BY DEF Init, InsideOwns, CopierInside
<1> QED BY <1>1, <1>2, <1>3 DEF IInv

-----------------------------------------------------------------------------
(* copy().                                                                 *)

(* A call that has not reached its unlock has no copier, so the copier's   *)
(* name may change.                                                        *)
LEMMA CallStep == ASSUME IInv, Call PROVE IInv'
<1> USE DEF IInv
<1>1. call' \in 0 .. MaxCopies /\ call' \in Copies
  BY CopyAssumption DEF Call, TypeOK, Copies
<1>2. TypeOK'
  BY <1>1, Zenon DEF Call, TypeOK, fileVars
<1>3. cpc = "gone" /\ Flow'
  BY <1>1, CopyAssumption DEF Call, Flow, fileVars, TypeOK, Copies
<1>4. OwnerPlaced' /\ InsideOwns'
  BY <1>3 DEF Call, OwnerPlaced, InsideOwns, CopierInside
<1> QED BY <1>2, <1>3, <1>4

(* The unlock takes the mutex from nobody who is inside, unless the step   *)
(* is recorded as dirty.                                                   *)
LEMMA StartStep == ASSUME IInv, Start PROVE IInv'
<1> USE DEF IInv
<1>1. TypeOK'
  <2>1. copied' \in 0 .. file'.full
    BY CopyAssumption DEF Start
  <2>2. dirty' \in BOOLEAN /\ owner' = Free /\ percent' \in Percents
    BY Zenon DEF Start, Percents
  <2> QED BY <2>1, <2>2, Zenon DEF Start, TypeOK
<1>2. Flow' /\ OwnerPlaced'
  BY DEF Start, Flow, OwnerPlaced
<1>3. ~ dirty' => \A n \in Copies : ppc[n] \in {"none", "dead"}
  BY Zenon DEF Start
<1>4. InsideOwns'
  BY <1>3 DEF Start, InsideOwns, CopierInside
<1> QED BY <1>1, <1>2, <1>4

(* The return finds no copier.                                             *)
LEMMA ReturnStep == ASSUME IInv, Return PROVE IInv'
<1> USE DEF IInv
<1>1. TypeOK'
  BY Zenon DEF Return, TypeOK, fileVars
<1>2. Flow' /\ OwnerPlaced' /\ InsideOwns'
  BY DEF Return, Flow, OwnerPlaced, InsideOwns, CopierInside, Copier, fileVars
<1> QED BY <1>1, <1>2

-----------------------------------------------------------------------------
(* _copy().                                                                *)

(* Steps of the copier that do not touch the mutex.                        *)
LEMMA CopierQuietStep ==
  ASSUME IInv, Create \/ Open \/ Read \/ Write \/ Close
  PROVE  IInv'
<1> USE DEF IInv
<1>1. call \in Copies /\ ~ CopierInside /\ ~ CopierInside'
  BY DEF Create, Open, Read, Write, Close, Flow, CopierInside
<1>2. UNCHANGED <<call, mainpc, owner, dirty, percent, shown, spurious, file>>
  BY DEF Create, Open, Read, Write, Close, fileVars
<1>3. /\ ppc' \in [Copies -> ProgressPcs]
      /\ \A n \in Copies : \/ ppc'[n] = ppc[n]
                           \/ n = call /\ ppc[n] = "none" /\ ppc'[n] = "lock" /\ cpc' = "open"
  BY <1>1 DEF Create, Open, Read, Write, Close, TypeOK, Flow, ProgressPcs
<1>4. cancel' \in [Copies -> BOOLEAN]
  BY <1>1, Zenon DEF Create, Open, Read, Write, Close, TypeOK, fileVars
<1>5. copied' \in 0 .. file.full
  BY CopyAssumption DEF Create, Open, Read, Write, Close, TypeOK, Flow, fileVars
<1>6. cpc' \in {"open", "read", "gone", "write", "finlock", "lock"}
  BY DEF Create, Open, Read, Write, Close
<1>7. TypeOK'
  <2>1. cpc' \in {"gone", "create", "open", "read", "write", "lock", "update",
                  "unlock", "finlock", "finish", "finunlock", "close"}
    BY <1>6
  <2> QED BY <1>2, <1>3, <1>4, <1>5, <2>1, Zenon DEF TypeOK, ProgressPcs
<1>8. Flow'
  <2>1. mainpc = "join" /\ call' \in Copies
    BY <1>1, <1>2 DEF Flow, Create, Open, Read, Write, Close
  <2>2. cpc' = "write" => copied' < file'.full
    BY DEF Create, Open, Read, Write, Close, fileVars
  <2>3. \A n \in Copies : ppc'[n] # "none" => n <= call
    BY <1>1, <1>3 DEF Flow, Copies, TypeOK
  <2> QED BY <1>2, <1>6, <2>1, <2>2, <2>3 DEF Flow
<1>9. OwnerPlaced'
  BY <1>1, <1>2, <1>3 DEF OwnerPlaced, Progress
<1>10. InsideOwns'
  BY <1>1, <1>2, <1>3 DEF InsideOwns, Progress
<1> QED BY <1>7, <1>8, <1>9, <1>10

(* The copier takes a free mutex.                                          *)
LEMMA LockStep == ASSUME IInv, Lock PROVE IInv'
<1> USE DEF IInv
<1>1. call \in Copies /\ mainpc = "join" /\ owner = Free
  BY DEF Lock, Flow
<1>2. /\ UNCHANGED <<call, mainpc, file, copied, percent, ppc, cancel,
                     shown, spurious, dirty>>
      /\ owner' = Copier /\ cpc' \in {"update", "finish"}
  BY DEF Lock, fileVars
<1>3. Copier \in {"copier", "progress"} \X Copies
  BY <1>1 DEF Copier
<1>4. cpc' \in {"gone", "create", "open", "read", "write", "lock", "update",
                "unlock", "finlock", "finish", "finunlock", "close"}
  BY <1>2
<1>5. TypeOK'
  BY <1>2, <1>3, <1>4, Zenon DEF TypeOK
<1>6. Flow'
  BY <1>1, <1>2 DEF Flow
<1>7. OwnerPlaced'
  BY <1>2 DEF OwnerPlaced, CopierInside, Copier
<1>8. InsideOwns'
  BY <1>1, <1>2, Names DEF InsideOwns, CopierInside, Copier
<1> QED BY <1>5, <1>6, <1>7, <1>8

(* The signal moves a waiting thread, which holds nothing.                 *)
LEMMA UpdateStep == ASSUME IInv, Update PROVE IInv'
<1> USE DEF IInv
<1>1. /\ UNCHANGED <<call, mainpc, file, copied, cancel, shown, owner,
                     spurious, dirty>>
      /\ cpc' \in {"unlock", "finunlock"} /\ percent' \in Percents
  BY DEF Update, fileVars, Percents
<1>2. /\ ppc' \in [Copies -> ProgressPcs]
      /\ \A n \in Copies : \/ ppc'[n] = ppc[n]
                           \/ ppc[n] = "wait" /\ ppc'[n] = "woken"
  BY DEF Update, SignalOne, Waiting, TypeOK, ProgressPcs
<1>3. cpc' \in {"gone", "create", "open", "read", "write", "lock", "update",
                "unlock", "finlock", "finish", "finunlock", "close"}
  BY <1>1
<1>4. TypeOK'
  BY <1>1, <1>2, <1>3, Zenon DEF TypeOK, ProgressPcs
<1>5. call \in Copies /\ mainpc = "join" /\ CopierInside /\ CopierInside'
  BY <1>1 DEF Update, Flow, CopierInside
<1>6. Flow'
  BY <1>1, <1>2, <1>5 DEF Flow
<1>7. OwnerPlaced'
  BY <1>1, <1>2, <1>5 DEF OwnerPlaced, Copier, Progress
<1>8. InsideOwns'
  BY <1>1, <1>2, <1>5 DEF InsideOwns, Copier, Progress
<1> QED BY <1>4, <1>6, <1>7, <1>8

(* The copier unlocks whoever holds the mutex: itself, if not dirty.       *)
LEMMA UnlockStep == ASSUME IInv, Unlock PROVE IInv'
<1> USE DEF IInv
<1>1. /\ UNCHANGED <<call, mainpc, file, copied, percent, ppc, cancel,
                     shown, spurious, dirty>>
      /\ owner' = Free /\ cpc' \in {"read", "close"} /\ CopierInside
  BY DEF Unlock, fileVars, CopierInside
<1>2. cpc' \in {"gone", "create", "open", "read", "write", "lock", "update",
                "unlock", "finlock", "finish", "finunlock", "close"}
  BY <1>1
<1>3. TypeOK'
  BY <1>1, <1>2, Zenon DEF TypeOK
<1>4. call \in Copies /\ mainpc = "join"
  BY <1>1 DEF Flow, CopierInside
<1>5. Flow' /\ OwnerPlaced'
  BY <1>1, <1>4 DEF Flow, OwnerPlaced
<1>6. InsideOwns'
  BY <1>1, Names DEF InsideOwns, CopierInside
<1> QED BY <1>3, <1>5, <1>6

-----------------------------------------------------------------------------
(* show_progress().                                                        *)

(* What the steps of progress thread n leave alone: the rest of the system *)
(* and every other progress thread. With its own new place, that keeps the *)
(* types and the flow.                                                     *)
LEMMA ProgressFrame ==
  ASSUME IInv, NEW n \in Copies, NEW new \in ProgressPcs, ppc[n] # "none",
         ppc' = [ppc EXCEPT ![n] = new],
         UNCHANGED <<call, mainpc, cpc, fileVars, percent, cancel, dirty>>,
         shown' \in [Copies -> Percents \cup {"nothing", "dangling"}],
         spurious' \in 0 .. MaxSpurious,
         owner' \in {owner, Free, Progress(n)}
  PROVE  TypeOK' /\ Flow'
<1> USE DEF IInv
<1>1. ppc' \in [Copies -> ProgressPcs] /\ ppc'[n] = new
      /\ \A m \in Copies : m # n => ppc'[m] = ppc[m]
  BY DEF TypeOK, ProgressPcs
<1>2. owner' \in {Free} \cup ({"copier", "progress"} \X Copies)
  BY DEF TypeOK, Progress
<1>3. TypeOK'
  BY <1>1, <1>2, Zenon DEF TypeOK, ProgressPcs, fileVars
<1>4. Flow'
  BY <1>1 DEF Flow, fileVars
<1> QED BY <1>3, <1>4

(* A thread that takes the free mutex, to be inside or to die with it.     *)
LEMMA TakeStep ==
  ASSUME IInv, NEW n \in Copies, ProgressLock(n) \/ Wake(n) \/ DieInWait(n)
  PROVE  IInv'
<1> USE DEF IInv
<1>1. PICK new \in {"enter", "print", "dead"} : ppc' = [ppc EXCEPT ![n] = new]
  BY DEF ProgressLock, Wake, DieInWait
<1>2. /\ owner = Free /\ owner' = Progress(n) /\ ppc[n] # "none"
      /\ UNCHANGED <<call, mainpc, cpc, fileVars, percent, cancel, dirty, spurious>>
  BY DEF ProgressLock, Wake, DieInWait
<1>3. shown' \in [Copies -> Percents \cup {"nothing", "dangling"}]
  BY DEF ProgressLock, Wake, DieInWait, TypeOK
<1>4. spurious' \in 0 .. MaxSpurious /\ new \in ProgressPcs
  BY <1>2 DEF TypeOK, ProgressPcs
<1>5. TypeOK' /\ Flow'
  BY <1>1, <1>2, <1>3, <1>4, ProgressFrame
<1>6. ppc'[n] = new /\ \A m \in Copies : m # n => ppc'[m] = ppc[m]
  BY <1>1 DEF TypeOK
<1>7. OwnerPlaced'
  BY <1>1, <1>2, <1>6 DEF OwnerPlaced, Progress
<1>8. InsideOwns'
  BY <1>2, <1>6, Names DEF InsideOwns, CopierInside, Copier
<1> QED BY <1>5, <1>7, <1>8

(* Into the wait: the mutex is released, the thread's own if not dirty.    *)
LEMMA CondWaitStep ==
  ASSUME IInv, NEW n \in Copies, CondWait(n)
  PROVE  IInv'
<1> USE DEF IInv
<1>1. /\ ppc' = [ppc EXCEPT ![n] = "wait"] /\ "wait" \in ProgressPcs
      /\ owner' = Free /\ ppc[n] \in {"enter", "print"} /\ ppc[n] # "none"
      /\ UNCHANGED <<call, mainpc, cpc, fileVars, percent, cancel, dirty, shown, spurious>>
  BY DEF CondWait, ProgressPcs
<1>2. /\ shown' \in [Copies -> Percents \cup {"nothing", "dangling"}]
      /\ spurious' \in 0 .. MaxSpurious
  BY <1>1 DEF TypeOK
<1>3. TypeOK' /\ Flow'
  BY <1>1, <1>2, ProgressFrame
<1>4. ppc'[n] = "wait" /\ \A m \in Copies : m # n => ppc'[m] = ppc[m]
  BY <1>1 DEF TypeOK
<1>5. OwnerPlaced'
  BY <1>1 DEF OwnerPlaced
<1>6. InsideOwns'
  BY <1>1, <1>4, Names DEF InsideOwns, CopierInside, Copier
<1> QED BY <1>3, <1>5, <1>6

(* Steps of a progress thread that leave the mutex as it is: it dies with  *)
(* it, or was not inside.                                                  *)
LEMMA KeepStep ==
  ASSUME IInv, NEW n \in Copies,
         DieInRefresh(n) \/ CancelledInWait(n) \/ SpuriousWake(n)
  PROVE  IInv'
<1> USE DEF IInv
<1>1. PICK new \in {"dead", "reacquire", "woken"} :
        /\ ppc' = [ppc EXCEPT ![n] = new]
        /\ ppc[n] = "wait" \/ (ppc[n] = "print" /\ new = "dead")
  BY DEF DieInRefresh, CancelledInWait, SpuriousWake
<1>2. UNCHANGED <<call, mainpc, cpc, fileVars, percent, cancel, dirty, shown, owner>>
  BY DEF DieInRefresh, CancelledInWait, SpuriousWake
<1>3. /\ shown' \in [Copies -> Percents \cup {"nothing", "dangling"}]
      /\ spurious' \in 0 .. MaxSpurious
      /\ new \in ProgressPcs
  BY <1>2, CopyAssumption DEF TypeOK, DieInRefresh, CancelledInWait, SpuriousWake, ProgressPcs
<1>4. TypeOK' /\ Flow'
  BY <1>1, <1>2, <1>3, ProgressFrame
<1>5. ppc'[n] = new /\ \A m \in Copies : m # n => ppc'[m] = ppc[m]
  BY <1>1 DEF TypeOK
<1>6. OwnerPlaced'
  BY <1>1, <1>2, <1>5 DEF OwnerPlaced, Progress, CopierInside, Copier
<1>7. InsideOwns'
  BY <1>1, <1>2, <1>5 DEF InsideOwns, Progress, CopierInside, Copier
<1> QED BY <1>4, <1>6, <1>7

-----------------------------------------------------------------------------
(* The inductive step.                                                     *)
LEMMA NextIInv == ASSUME IInv, [Next]_vars PROVE IInv'
<1>1. CASE Next
  <2>1. ASSUME NEW n \in Copies, ProgressStep(n) \/ SpuriousWake(n) PROVE IInv'
    BY <2>1, TakeStep, CondWaitStep, KeepStep DEF ProgressStep
  <2>2. CASE CopierStep
    BY <2>2, CopierQuietStep, LockStep, UpdateStep, UnlockStep DEF CopierStep
  <2> QED BY <1>1, <2>1, <2>2, CallStep, StartStep, ReturnStep DEF Next
<1>2. CASE UNCHANGED vars
  <2>1. UNCHANGED <<call, mainpc, cpc, file, copied, percent, ppc, cancel,
                    shown, owner, spurious, dirty>>
    BY <1>2 DEF vars, fileVars
  <2>2. TypeOK'
    BY <2>1, Zenon DEF IInv, TypeOK
  <2> QED BY <2>1, <2>2 DEF IInv, Flow, OwnerPlaced, InsideOwns, CopierInside, Copier,
                            Progress
<1> QED BY <1>1, <1>2

(* The inductive invariant holds in every reachable state.                 *)
THEOREM Invariance == Spec => []IInv
BY InitIInv, NextIInv, PTL DEF Spec

(* Every variable of copy() and its threads keeps its type; in particular  *)
(* no more blocks are written than the source has.                         *)
THEOREM TypeCorrect == Spec => []TypeOK
<1>1. IInv => TypeOK
  BY DEF IInv
<1> QED BY <1>1, Invariance, PTL

(* Until a copy() starts beside a living progress thread, whoever draws or *)
(* updates struct print_window holds print_window_mutex, in spite of the   *)
(* unlock by a thread that does not hold it.                               *)
THEOREM WindowExclusive == Spec => []ExclusiveWindow
<1>1. ASSUME IInv PROVE ExclusiveWindow
  <2> SUFFICES ASSUME ~ dirty, NEW t \in Inside PROVE t = owner
    BY DEF ExclusiveWindow
  <2>1. CASE \E n \in Copies : t = Progress(n) /\ ppc[n] \in {"enter", "print"}
    BY <1>1, <2>1 DEF IInv, InsideOwns
  <2>2. CASE CopierInside /\ t = Copier
    BY <1>1, <2>2 DEF IInv, InsideOwns
  <2> QED BY <2>1, <2>2 DEF Inside, CopierInside
<1> QED BY <1>1, Invariance, PTL

(* At any time, dirty or not, the mutex is free, held by a thread that is  *)
(* inside, or lost with a dead progress thread: nothing else can keep the  *)
(* copier waiting.                                                         *)
THEOREM MutexNeverStray == Spec => []OwnerInsideOrDead
<1>1. ASSUME IInv PROVE OwnerInsideOrDead
  <2>1. CASE owner = Free \/ (owner = Copier /\ CopierInside)
    BY <2>1 DEF OwnerInsideOrDead, Inside, CopierInside
  <2>2. ASSUME NEW n \in Copies, owner = Progress(n), ppc[n] \in {"enter", "print", "dead"}
        PROVE  OwnerInsideOrDead
    BY <2>2 DEF OwnerInsideOrDead, Inside, Orphaned
  <2> QED BY <1>1, <2>1, <2>2 DEF IInv, OwnerPlaced
<1> QED BY <1>1, Invariance, PTL
=============================================================================
