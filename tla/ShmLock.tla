------------------------------- MODULE ShmLock -------------------------------
(***************************************************************************)
(* Who may write the shared-memory cache: UcStorage::ShmLock               *)
(* (src/storage.cc), as ProcessRequest (src/mysql_proxy_server.cpp) uses   *)
(* it around MultiHashTable::SetData.                                      *)
(*                                                                         *)
(* A proxy is several processes of several threads.  Between processes the *)
(* lock is flock on a file that each process opens on first use; lock_fd   *)
(* is one static variable per process, which its threads share.  Inside a  *)
(* process SetData takes a mutex that other processes do not see.          *)
(* LinkTable and MultiHashTable are modelled with one writer at a time:    *)
(* MutualExclusion is what they need; ExclusiveUnlessShared what they get. *)
(***************************************************************************)
EXTENDS Naturals, FiniteSets

CONSTANTS
  Procs,          \* the child processes
  WorkerThreads,  \* the Worker threads of all of them
  ProcOf,         \* ProcOf[t]: the process thread t is of
  MaxOpen         \* bound: how often one process opens the lock file

ASSUME ProcOfAssumption == ProcOf \in [WorkerThreads -> Procs]
ASSUME MaxOpenAssumption == MaxOpen \in Nat

VARIABLES
  lockFd,  \* UcStorage::lock_fd of each process; 0 stands for none (-1)
  opened,  \* how many open files of the lock file each process has
  lock,    \* the open file that holds the flock, as a set of at most one
  mutex,   \* MultiHashTable::mutex of each process: the threads holding it
  pc,      \* where each thread is
  shared   \* history: the processes that had two threads on the way from
           \* TryLockShm to UnlockShm at once

lockVars == <<lockFd, opened, lock, mutex, pc, shared>>

Ofd == Procs \X (1 .. MaxOpen)          \* open file descriptions
FdOf(t) == lockFd[ProcOf[t]]
OfdOf(t) == <<ProcOf[t], FdOf(t)>>      \* what flock(lock_fd) acts on

LockInit ==
  /\ lockFd = [p \in Procs |-> 0] /\ opened = [p \in Procs |-> 0]
  /\ lock = {}
  /\ mutex = [p \in Procs |-> {}]
  /\ pc = [t \in WorkerThreads |-> "idle"]
  /\ shared = {}

Go(t, from, to) == pc[t] = from /\ pc' = [pc EXCEPT ![t] = to]

(* ProcessRequest has a result to cache: TryLockShm.                       *)
TryLockShm(t) ==
  /\ Go(t, "idle", "check")
  /\ shared' = IF \E u \in WorkerThreads : ProcOf[u] = ProcOf[t] /\ pc[u] # "idle"
               THEN shared \cup {ProcOf[t]} ELSE shared
  /\ UNCHANGED <<lockFd, opened, lock, mutex>>

(* ShmLock, for locking and for unlocking: is the file open?               *)
Check(t, from, open, flock) ==
  /\ Go(t, from, IF FdOf(t) = 0 THEN open ELSE flock)
  /\ UNCHANGED <<lockFd, opened, lock, mutex, shared>>

(* open: lock_fd is replaced whatever other threads have put there since.  *)
Open(t, from, flock) ==
  LET p == ProcOf[t] IN
  /\ Go(t, from, flock)
  /\ opened[p] < MaxOpen
  /\ opened' = [opened EXCEPT ![p] = @ + 1]
  /\ lockFd' = [lockFd EXCEPT ![p] = opened[p] + 1]
  /\ UNCHANGED <<lock, mutex, shared>>
OpenFails(t, from, flock) ==
  /\ Go(t, from, flock)
  /\ lockFd' = [lockFd EXCEPT ![ProcOf[t]] = 0]
  /\ UNCHANGED <<opened, lock, mutex, shared>>

(* Mutant of Flock: the result of flock is not looked at.                  *)
FlockIgnored(t) ==
  /\ Go(t, "flock", "write")
  /\ FdOf(t) # 0
  /\ lock' = IF lock = {} THEN {OfdOf(t)} ELSE lock
  /\ UNCHANGED <<lockFd, opened, mutex, shared>>

(* flock(LOCK_EX | LOCK_NB): granted unless another open file holds it; to *)
(* the threads of a process, one file, it is granted again and again.      *)
Flock(t) ==
  /\ Go(t, "flock", "write")
  /\ FdOf(t) # 0 /\ lock \subseteq {OfdOf(t)}
  /\ lock' = {OfdOf(t)}
  /\ UNCHANGED <<lockFd, opened, mutex, shared>>
FlockFails(t) ==
  /\ Go(t, "flock", "idle")
  /\ FdOf(t) = 0 \/ ~(lock \subseteq {OfdOf(t)})
  /\ UNCHANGED <<lockFd, opened, lock, mutex, shared>>

(* UcStorage::Write: SetData under the mutex ("set" is its whole body), or *)
(* no SetData at all when the tree cannot be serialised.                   *)
MutexLock(t) ==
  /\ Go(t, "write", "set")
  /\ mutex[ProcOf[t]] = {}
  /\ mutex' = [mutex EXCEPT ![ProcOf[t]] = {t}]
  /\ UNCHANGED <<lockFd, opened, lock, shared>>
MutexUnlock(t) ==
  /\ Go(t, "set", "ucheck")
  /\ mutex' = [mutex EXCEPT ![ProcOf[t]] = {}]
  /\ UNCHANGED <<lockFd, opened, lock, shared>>

WriteFails(t) == Go(t, "write", "ucheck") /\ UNCHANGED <<lockFd, opened, lock, mutex, shared>>

(* UnlockShm: LOCK_UN on what lock_fd is by now.                           *)
Funlock(t) ==
  /\ Go(t, "funlock", "idle")
  /\ lock' = lock \ {OfdOf(t)}
  /\ UNCHANGED <<lockFd, opened, mutex, shared>>

(* A process dies, at any point, and ForkChildren starts another: its open *)
(* files are closed, which drops their lock, and its memory starts afresh. *)
Restart(p) ==
  /\ lockFd' = [lockFd EXCEPT ![p] = 0] /\ opened' = [opened EXCEPT ![p] = 0]
  /\ lock' = {o \in lock : o[1] # p}
  /\ mutex' = [mutex EXCEPT ![p] = {}]
  /\ pc' = [t \in WorkerThreads |-> IF ProcOf[t] = p THEN "idle" ELSE pc[t]]
  /\ shared' = shared \ {p}

Worker(t) ==
  \/ TryLockShm(t)
  \/ Check(t, "check", "open", "flock")
  \/ Open(t, "open", "flock") \/ OpenFails(t, "open", "flock")
  \/ Flock(t) \/ FlockFails(t)
  \/ MutexLock(t) \/ MutexUnlock(t) \/ WriteFails(t)
  \/ Check(t, "ucheck", "uopen", "funlock")
  \/ Open(t, "uopen", "funlock") \/ OpenFails(t, "uopen", "funlock")
  \/ Funlock(t)
LockNext == (\E t \in WorkerThreads : Worker(t)) \/ (\E p \in Procs : Restart(p))

LockSpec == LockInit /\ [][LockNext]_lockVars
-----------------------------------------------------------------------------
(* Properties.                                                             *)

(* Types; lock_fd is an open file of its process, and so is the holder of  *)
(* the flock.                                                              *)
TypeOK ==
  /\ opened \in [Procs -> 0 .. MaxOpen]
  /\ lockFd \in [Procs -> 0 .. MaxOpen] /\ \A p \in Procs : lockFd[p] <= opened[p]
  /\ lock \subseteq Ofd /\ \A o \in lock : o[2] <= opened[o[1]]
  /\ mutex \in [Procs -> SUBSET WorkerThreads]
  /\ shared \subseteq Procs
  /\ pc \in [WorkerThreads -> {"idle", "check", "open", "flock", "write", "set",
                         "ucheck", "uopen", "funlock"}]

(* "for multi process/thread writing" (storage.h:50): TryLockShm and       *)
(* UnlockShm leave at most one thread of one process inside SetData.       *)
MutualExclusion ==
  \A t, u \in WorkerThreads : pc[t] = "set" /\ pc[u] = "set" => t = u

(* What holds of it: no two threads of one process are inside SetData, and *)
(* no two processes in which threads never were at the lock together,      *)
(* whatever becomes of the lock file and whoever is killed and restarted.  *)
ExclusiveUnlessShared ==
  \A t, u \in WorkerThreads : pc[t] = "set" /\ pc[u] = "set" =>
    \/ t = u
    \/ ProcOf[t] # ProcOf[u] /\ (ProcOf[t] \in shared \/ ProcOf[u] \in shared)

(* Nor do such processes leave the lock behind: while one holds the flock, *)
(* some thread of it is between TryLockShm and UnlockShm.                  *)
LockHasWriter ==
  \A o \in lock : o[1] \in shared \/ \E t \in WorkerThreads :
    ProcOf[t] = o[1] /\ pc[t] \in {"write", "set", "ucheck", "uopen", "funlock"}
=============================================================================
