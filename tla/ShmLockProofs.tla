---------------------------- MODULE ShmLockProofs ----------------------------
(***************************************************************************)
(* What the write lock guarantees for every number of processes and        *)
(* threads.  MutexInv is about the threads of one process, FlockInv about  *)
(* processes whose threads do not meet at the lock; MutualExclusion as     *)
(* such fails (SL_MutualExclusion.cfg).                                    *)
(***************************************************************************)
EXTENDS ShmLock, TLAPS

(* The places between a successful flock and LOCK_UN.                      *)
Locked == {"write", "set", "ucheck", "uopen", "funlock"}

(* A step of thread t leaves every other thread in its place, lock_fd of   *)
(* other processes alone and, unless t enters, shared as it is.            *)
LEMMA StepFrame ==
  ASSUME TypeOK, NEW t \in WorkerThreads, Worker(t)
  PROVE  /\ \A u \in WorkerThreads : u # t => pc'[u] = pc[u]
         /\ \A p \in Procs : p # ProcOf[t] => lockFd'[p] = lockFd[p]
         /\ shared \subseteq shared' /\ shared' \subseteq shared \cup {ProcOf[t]}
         /\ pc[t] # "idle" => shared' = shared
         /\ pc'[t] # pc[t]
BY ProcOfAssumption
   DEF TypeOK, Worker, TryLockShm, Check, Open, OpenFails, Flock, FlockFails,
       MutexLock, MutexUnlock, WriteFails, Funlock, Go

(* Types are kept by every step.                                           *)
LEMMA StepTypeOK == TypeOK /\ [LockNext]_lockVars => TypeOK'
<1> SUFFICES ASSUME TypeOK, [LockNext]_lockVars PROVE TypeOK'
  OBVIOUS
<1> USE ProcOfAssumption, MaxOpenAssumption DEF TypeOK, Go, Ofd
<1>1. ASSUME NEW t \in WorkerThreads, Worker(t) PROVE TypeOK'
  <2> USE DEF OfdOf, FdOf
  <2>1. CASE TryLockShm(t) BY <2>1 DEF TryLockShm
  <2>2. CASE Check(t, "check", "open", "flock") BY <2>2 DEF Check
  <2>3. CASE Check(t, "ucheck", "uopen", "funlock") BY <2>3 DEF Check
  <2>4. ASSUME NEW f \in {"open", "uopen"}, NEW g \in {"flock", "funlock"}, Open(t, f, g)
        PROVE  TypeOK'
    BY <2>4 DEF Open
  <2>5. ASSUME NEW f \in {"open", "uopen"}, NEW g \in {"flock", "funlock"}, OpenFails(t, f, g)
        PROVE  TypeOK'
    BY <2>5 DEF OpenFails
  <2>6. CASE Flock(t) BY <2>6 DEF Flock
  <2>7. CASE FlockFails(t) BY <2>7 DEF FlockFails
  <2>8. CASE MutexLock(t) BY <2>8 DEF MutexLock
  <2>9. CASE MutexUnlock(t) BY <2>9 DEF MutexUnlock
  <2>10. CASE WriteFails(t) BY <2>10 DEF WriteFails
  <2>11. CASE Funlock(t) BY <2>11 DEF Funlock
  <2> QED
    BY <1>1, <2>1, <2>2, <2>3, <2>4, <2>5, <2>6, <2>7, <2>8, <2>9, <2>10, <2>11 DEF Worker
<1>2. ASSUME NEW p \in Procs, Restart(p) PROVE TypeOK'
  BY <1>2 DEF Restart
<1>3. CASE UNCHANGED lockVars
  BY <1>3 DEF lockVars
<1> QED
  BY <1>1, <1>2, <1>3 DEF LockNext

(* Types: lock_fd and the holder of the flock are open files of their      *)
(* process, whatever the threads race for and whoever is restarted.        *)
THEOREM TypeCorrect == LockSpec => []TypeOK
<1>1. LockInit => TypeOK
  BY ProcOfAssumption, MaxOpenAssumption DEF LockInit, TypeOK
<1> QED
  BY <1>1, StepTypeOK, PTL DEF LockSpec
-----------------------------------------------------------------------------
(* Inside one process the mutex is enough: a thread in SetData is its only *)
(* holder.                                                                 *)
MutexInv ==
  \A t \in WorkerThreads : pc[t] = "set" => mutex[ProcOf[t]] = {t}

LEMMA StepMutexInv == TypeOK /\ MutexInv /\ [LockNext]_lockVars => MutexInv'
<1> SUFFICES ASSUME TypeOK, MutexInv, [LockNext]_lockVars,
                    NEW u \in WorkerThreads, pc'[u] = "set"
             PROVE  mutex'[ProcOf[u]] = {u}
  BY DEF MutexInv
<1> USE ProcOfAssumption DEF TypeOK, MutexInv, Go
<1>1. ASSUME NEW t \in WorkerThreads, Worker(t) PROVE mutex'[ProcOf[u]] = {u}
  <2>1. CASE MutexLock(t) BY <2>1 DEF MutexLock
  <2>2. CASE MutexUnlock(t) BY <2>2 DEF MutexUnlock
  <2>3. CASE ~MutexLock(t) /\ ~MutexUnlock(t)
    <3>1. mutex' = mutex
      BY <1>1, <2>3 DEF Worker, TryLockShm, Check, Open, OpenFails, Flock, FlockFails,
                        WriteFails, Funlock
    <3>2. pc[u] = "set"
      BY <1>1, <2>3 DEF Worker, TryLockShm, Check, Open, OpenFails, Flock, FlockFails,
                        WriteFails, Funlock
    <3> QED
      BY <3>1, <3>2
  <2> QED
    BY <2>1, <2>2, <2>3
<1>2. ASSUME NEW p \in Procs, Restart(p) PROVE mutex'[ProcOf[u]] = {u}
  BY <1>2 DEF Restart
<1>3. CASE UNCHANGED lockVars
  BY <1>3 DEF lockVars
<1> QED
  BY <1>1, <1>2, <1>3 DEF LockNext

-----------------------------------------------------------------------------
(* Between processes the flock is enough as long as one thread at a time   *)
(* is on its way: then from flock to LOCK_UN its lock_fd is the file that  *)
(* holds the lock, and UnlockShm need not open it again.                   *)
Alone ==
  \A t, u \in WorkerThreads :
    ProcOf[t] = ProcOf[u] /\ t # u /\ pc[t] # "idle" /\ pc[u] # "idle"
    => ProcOf[t] \in shared
Holding ==
  \A t \in WorkerThreads : ProcOf[t] \notin shared =>
    /\ pc[t] # "uopen"
    /\ pc[t] \in Locked => FdOf(t) # 0 /\ lock = {OfdOf(t)}
FlockInv == Alone /\ Holding /\ LockHasWriter

(* WorkerThreads of different processes use different open files.                *)
LEMMA OneFileEach ==
  ASSUME NEW t \in WorkerThreads, NEW u \in WorkerThreads, OfdOf(u) \in {OfdOf(t)}
  PROVE  ProcOf[u] = ProcOf[t]
<1>1. <<ProcOf[u], FdOf(u)>> = <<ProcOf[t], FdOf(t)>>
  BY DEF OfdOf
<1> QED
  BY <1>1

LEMMA StepAlone ==
  ASSUME TypeOK, Alone, NEW t \in WorkerThreads, Worker(t)
  PROVE  Alone'
<1>1. CASE TryLockShm(t)
  BY <1>1, StepFrame, ProcOfAssumption DEF TryLockShm, Go, Alone, TypeOK
<1>2. CASE ~TryLockShm(t)
  <2>1. pc[t] # "idle"
    BY <1>2 DEF Worker, Check, Open, OpenFails, Flock, FlockFails, MutexLock,
                MutexUnlock, WriteFails, Funlock, Go
  <2> QED
    BY <2>1, StepFrame DEF Alone
<1> QED
  BY <1>1, <1>2

LEMMA StepFlockInv == TypeOK /\ FlockInv /\ [LockNext]_lockVars => FlockInv'
<1> SUFFICES ASSUME TypeOK, FlockInv, [LockNext]_lockVars PROVE FlockInv'
  OBVIOUS
<1> USE ProcOfAssumption DEF TypeOK, Locked, Go
<1>1. ASSUME NEW t \in WorkerThreads, Worker(t) PROVE FlockInv'
  <2>1. Alone'
    BY <1>1, StepAlone DEF FlockInv
  <2>2. ASSUME lock' = lock, pc'[t] # "uopen" \/ ProcOf[t] \in shared,
               pc[t] \in Locked => pc'[t] \in Locked,
               pc'[t] \in Locked => pc[t] \in Locked,
               pc[t] \in Locked => lockFd' = lockFd \/ ProcOf[t] \in shared
        PROVE  FlockInv'
    <3>1. ASSUME NEW u \in WorkerThreads, u # t, ProcOf[u] \notin shared', pc[u] # "idle"
          PROVE  ProcOf[u] # ProcOf[t]
      BY <1>1, <2>1, <3>1, StepFrame DEF FlockInv, Alone
    <3>2. ASSUME NEW u \in WorkerThreads, ProcOf[u] \notin shared'
          PROVE  /\ pc'[u] # "uopen"
                 /\ pc'[u] \in Locked => FdOf(u)' # 0 /\ lock' = {OfdOf(u)'}
      <4>1. CASE u = t
        BY <1>1, <2>2, <3>2, <4>1, StepFrame DEF FlockInv, Holding, OfdOf, FdOf
      <4>2. CASE u # t
        BY <1>1, <2>2, <3>1, <3>2, <4>2, StepFrame DEF FlockInv, Holding, OfdOf, FdOf
      <4> QED
        BY <4>1, <4>2
    <3>3. LockHasWriter'
      BY <1>1, <2>2, StepFrame DEF FlockInv, LockHasWriter
    <3> QED
      BY <2>1, <3>2, <3>3 DEF FlockInv, Holding
  <2>3. CASE TryLockShm(t) BY <2>2, <2>3 DEF TryLockShm
  <2>4. CASE Check(t, "check", "open", "flock") BY <2>2, <2>4 DEF Check
  <2>5. CASE Check(t, "ucheck", "uopen", "funlock")
    BY <2>2, <2>5 DEF Check, FlockInv, Holding
  <2>6. CASE Open(t, "open", "flock") \/ OpenFails(t, "open", "flock")
    BY <2>2, <2>6 DEF Open, OpenFails
  <2>7. CASE Open(t, "uopen", "funlock") \/ OpenFails(t, "uopen", "funlock")
    BY <2>2, <2>7 DEF Open, OpenFails, FlockInv, Holding
  <2>8. CASE Flock(t)
    <3>1. ASSUME NEW u \in WorkerThreads, ProcOf[u] # ProcOf[t], ProcOf[u] \notin shared
          PROVE  pc[u] \notin Locked
      <4> SUFFICES ASSUME pc[u] \in Locked PROVE FALSE
        OBVIOUS
      <4>1. OfdOf(u) \in {OfdOf(t)}
        BY <2>8, <3>1 DEF Flock, FlockInv, Holding
      <4> QED
        BY <3>1, <4>1, OneFileEach
    <3>2. ASSUME NEW u \in WorkerThreads, ProcOf[u] = ProcOf[t], ProcOf[u] \notin shared, u # t
          PROVE  pc[u] = "idle"
      BY <2>8, <3>2 DEF Flock, FlockInv, Alone
    <3>3. pc'[t] = "write" /\ FdOf(t) # 0 /\ FdOf(t)' = FdOf(t)
          /\ lock' = {OfdOf(t)} /\ OfdOf(t)' = OfdOf(t) /\ shared' = shared
      BY <2>8 DEF Flock, OfdOf, FdOf
    <3>4. Holding'
      BY <1>1, <3>1, <3>2, <3>3, StepFrame DEF FlockInv, Holding
    <3>5. LockHasWriter'
      BY <3>3 DEF LockHasWriter, OfdOf
    <3> QED
      BY <2>1, <3>4, <3>5 DEF FlockInv
  <2>9. CASE FlockFails(t) BY <2>2, <2>9 DEF FlockFails
  <2>10. CASE MutexLock(t) BY <2>2, <2>10 DEF MutexLock
  <2>11. CASE MutexUnlock(t) BY <2>2, <2>11 DEF MutexUnlock
  <2>12. CASE WriteFails(t) BY <2>2, <2>12 DEF WriteFails
  <2>13. CASE Funlock(t)
    <3>1. ASSUME NEW u \in WorkerThreads, ProcOf[u] # ProcOf[t]
          PROVE  OfdOf(u) # OfdOf(t)
      BY <3>1, OneFileEach
    <3>2. ASSUME NEW u \in WorkerThreads, ProcOf[u] = ProcOf[t], ProcOf[u] \notin shared, u # t
          PROVE  pc[u] = "idle"
      BY <2>13, <3>2 DEF Funlock, FlockInv, Alone
    <3>3. pc'[t] = "idle" /\ lockFd' = lockFd /\ lock' = lock \ {OfdOf(t)} /\ shared' = shared
      BY <2>13 DEF Funlock
    <3>4. Holding'
      BY <1>1, <3>1, <3>2, <3>3, StepFrame DEF FlockInv, Holding, OfdOf, FdOf
    <3>5. LockHasWriter'
      BY <1>1, <2>13, <3>3, StepFrame DEF Funlock, FlockInv, Holding, LockHasWriter
    <3> QED
      BY <2>1, <3>4, <3>5 DEF FlockInv
  <2> QED
    BY <1>1, <2>3, <2>4, <2>5, <2>6, <2>7, <2>8, <2>9, <2>10, <2>11, <2>12, <2>13
    DEF Worker
<1>2. ASSUME NEW p \in Procs, Restart(p) PROVE FlockInv'
  <2>1. Alone'
    BY <1>2 DEF Restart, FlockInv, Alone
  <2>2. Holding'
    BY <1>2 DEF Restart, FlockInv, Holding, OfdOf, FdOf
  <2>3. LockHasWriter'
    BY <1>2 DEF Restart, FlockInv, LockHasWriter
  <2> QED
    BY <2>1, <2>2, <2>3 DEF FlockInv
<1>3. CASE UNCHANGED lockVars
  BY <1>3 DEF lockVars, FlockInv, Alone, Holding, LockHasWriter, OfdOf, FdOf
<1> QED
  BY <1>1, <1>2, <1>3 DEF LockNext
-----------------------------------------------------------------------------
LockInv == TypeOK /\ MutexInv /\ FlockInv

LEMMA LockInvariant == LockSpec => []LockInv
<1>1. LockInit => LockInv
  BY ProcOfAssumption, MaxOpenAssumption
  DEF LockInit, LockInv, TypeOK, MutexInv, FlockInv, Alone, Holding, Locked, LockHasWriter
<1>2. LockInv /\ [LockNext]_lockVars => LockInv'
  BY StepTypeOK, StepMutexInv, StepFlockInv DEF LockInv
<1> QED
  BY <1>1, <1>2, PTL DEF LockSpec

(* Two threads are inside SetData at once only in two processes, one of    *)
(* which let two of its threads use lock_fd at the same time.              *)
THEOREM Exclusive == LockSpec => []ExclusiveUnlessShared
<1>1. LockInv => ExclusiveUnlessShared
  <2> SUFFICES ASSUME LockInv, NEW t \in WorkerThreads, NEW u \in WorkerThreads,
                      pc[t] = "set", pc[u] = "set", t # u,
                      ProcOf[t] \notin shared, ProcOf[u] \notin shared
               PROVE  FALSE
    <3>1. ASSUME NEW t \in WorkerThreads, NEW u \in WorkerThreads, LockInv,
                 pc[t] = "set", pc[u] = "set", ProcOf[t] = ProcOf[u]
          PROVE  t = u
      BY <3>1 DEF LockInv, MutexInv
    <3> QED
      BY <3>1 DEF ExclusiveUnlessShared
  <2>1. OfdOf(u) \in {OfdOf(t)}
    BY DEF LockInv, FlockInv, Holding, Locked
  <2>2. ProcOf[u] = ProcOf[t]
    BY <2>1, OneFileEach
  <2> QED
    BY <2>2 DEF LockInv, MutexInv
<1> QED
  BY <1>1, LockInvariant, PTL

(* A process whose threads take turns never leaves the flock behind.       *)
THEOREM LockNotLeaked == LockSpec => []LockHasWriter
<1>1. LockInv => LockHasWriter
  BY DEF LockInv, FlockInv
<1> QED
  BY <1>1, LockInvariant, PTL
=============================================================================
