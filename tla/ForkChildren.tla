----------------------------- MODULE ForkChildren -----------------------------
(***************************************************************************)
(* ForkChildren (comm/fork_children.c): the parent forks childNum workers, *)
(* then restarts the ones that die.  The signal handler DealSigChld runs   *)
(* between any two statements of the parent, and tells it which worker     *)
(* died through pidArray and chldFlagArr, with no lock.                    *)
(*                                                                         *)
(* Time is only ever the question whether a worker was started in the      *)
(* second of curTime: a full sleep(1) moves curTime to a later second, one *)
(* cut short by a signal may not.                                          *)
(*                                                                         *)
(* A process id is not given again while pidArray still holds it.          *)
(***************************************************************************)
EXTENDS Naturals, FiniteSets

CONSTANTS
  childNum,   \* the number of workers
  Pids,       \* process ids
  NoPid       \* 0 in pidArray, or no resPid

ASSUME ForkAssumption == childNum \in Nat \ {0} /\ NoPid \notin Pids

(* ForkChildren returns -1, before it forks, for more workers than         *)
(* pidArray has places.                                                    *)
ASSUME PidArrayAssumption == childNum <= 1024

VARIABLES
  parent,       \* where the parent is
  child,        \* its loop index
  resPid,       \* the worker it has just forked again
  handler,      \* whether DealSigChld is installed; SIGCHLD is ignored before
  pidArray,     \* the process id of each worker
  chldFlagArr,  \* the workers that wait for a restart
  recent,       \* the workers whose preTimeArr is in the second of curTime
  cut,          \* whether a signal has cut the current sleep(1) short
  live, zombie, \* the processes that run, and the dead ones to be waited for
  num,          \* the number ForkChildren returned in each process
  lost          \* history: the numbers one of whose deaths nobody noted

forkVars == <<parent, child, resPid, handler, pidArray, chldFlagArr, recent,
              cut, live, zombie, num, lost>>

Numbers == 0 .. childNum - 1
Recorded == {pidArray[n] : n \in Numbers}
Running(n) == {p \in live : num[p] = n}
ParentGone == parent \in {"quit", "failed"}
FreshPid(p) == p \in Pids /\ p \notin live \cup zombie \cup Recorded

(* gettimeofday at the start stands for every worker's starting time.      *)
ForkInit ==
  /\ parent = "fork" /\ child = 0 /\ resPid = NoPid /\ handler = FALSE
  /\ pidArray = [n \in Numbers |-> NoPid]
  /\ chldFlagArr = {} /\ recent = Numbers /\ cut = FALSE
  /\ live = {} /\ zombie = {} /\ num = [p \in Pids |-> 0] /\ lost = {}

-----------------------------------------------------------------------------
(* The first forks.  One that fails leaves pidArray[child] empty.          *)
Fork(p) ==
  /\ parent = "fork" /\ child < childNum /\ FreshPid(p)
  /\ live' = live \cup {p} /\ num' = [num EXCEPT ![p] = child]
  /\ pidArray' = [pidArray EXCEPT ![child] = p]
  /\ child' = child + 1
  /\ UNCHANGED <<parent, resPid, handler, chldFlagArr, recent, cut, zombie, lost>>

ForkFails ==
  /\ parent = "fork" /\ child < childNum /\ child' = child + 1
  /\ UNCHANGED <<parent, resPid, handler, pidArray, chldFlagArr, recent, cut,
                 live, zombie, num, lost>>

(* Fewer than childNum: the parent kills the workers it has and gives up.  *)
(* SIGCHLD is ignored, so that they leave no zombies.                      *)
KillAll ==
  /\ parent = "fork" /\ child = childNum /\ NoPid \in Recorded
  /\ parent' = "failed" /\ live' = live \ Recorded
  /\ UNCHANGED <<child, resPid, handler, pidArray, chldFlagArr, recent, cut,
                 zombie, num, lost>>

Install ==
  /\ parent = "fork" /\ child = childNum /\ NoPid \notin Recorded
  /\ handler' = TRUE /\ parent' = "sleep"
  /\ UNCHANGED <<child, resPid, pidArray, chldFlagArr, recent, cut, live, zombie,
                 num, lost>>

-----------------------------------------------------------------------------
(* The supervising loop.                                                   *)
Wake ==
  /\ parent = "sleep"
  /\ parent' = "scan" /\ child' = 0 /\ cut' = FALSE
  /\ \/ recent' = {}
     \/ cut /\ recent' = recent
  /\ UNCHANGED <<resPid, handler, pidArray, chldFlagArr, live, zombie, num, lost>>

(* Mutant of NextChild: the flag is dropped with the restart.              *)
NextChildForgets ==
  /\ parent = "scan" /\ child < childNum
  /\ child \notin chldFlagArr \/ child \in recent
  /\ child' = child + 1 /\ chldFlagArr' = chldFlagArr \ {child}
  /\ UNCHANGED <<parent, resPid, handler, pidArray, recent, cut, live, zombie, num,
                 lost>>

(* The worker runs, or it died in the second it was started in.            *)
NextChild ==
  /\ parent = "scan" /\ child < childNum
  /\ child \notin chldFlagArr \/ child \in recent
  /\ child' = child + 1
  /\ UNCHANGED <<parent, resPid, handler, pidArray, chldFlagArr, recent, cut,
                 live, zombie, num, lost>>

Refork(p) ==
  /\ parent = "scan" /\ child < childNum /\ child \in chldFlagArr \ recent /\ FreshPid(p)
  /\ live' = live \cup {p} /\ num' = [num EXCEPT ![p] = child]
  /\ resPid' = p /\ parent' = "clear"
  /\ UNCHANGED <<child, handler, pidArray, chldFlagArr, recent, cut, zombie, lost>>

ReforkFails ==
  /\ parent = "scan" /\ child < childNum /\ child \in chldFlagArr \ recent
  /\ child' = child + 1
  /\ UNCHANGED <<parent, resPid, handler, pidArray, chldFlagArr, recent, cut,
                 live, zombie, num, lost>>

(* Mutant of Clear: the flag stays.                                        *)
ClearNothing ==
  /\ parent = "clear" /\ parent' = "record"
  /\ UNCHANGED <<child, resPid, handler, pidArray, chldFlagArr, recent, cut, live,
                 zombie, num, lost>>

Clear ==
  /\ parent = "clear" /\ parent' = "record"
  /\ chldFlagArr' = chldFlagArr \ {child}
  /\ UNCHANGED <<child, resPid, handler, pidArray, recent, cut, live, zombie, num, lost>>

Record ==
  /\ parent = "record" /\ parent' = "scan"
  /\ pidArray' = [pidArray EXCEPT ![child] = resPid]
  /\ recent' = recent \cup {child} /\ child' = child + 1 /\ resPid' = NoPid
  /\ UNCHANGED <<handler, chldFlagArr, cut, live, zombie, num, lost>>

ScanEnds ==
  /\ parent = "scan" /\ child = childNum /\ parent' = "sleep"
  /\ UNCHANGED <<child, resPid, handler, pidArray, chldFlagArr, recent, cut, live,
                 zombie, num, lost>>

-----------------------------------------------------------------------------
(* Mutant of Noted: the last worker is left out of the search.             *)
NotedButLast == {n \in 0 .. childNum - 2 : pidArray[n] \in zombie}

(* DealSigChld waits for every zombie and looks each up in pidArray.  The  *)
(* signal is pending as long as there are zombies.                         *)
Noted == {n \in Numbers : pidArray[n] \in zombie}
DealSigChld ==
  /\ handler /\ ~ ParentGone /\ zombie # {}
  /\ chldFlagArr' = chldFlagArr \cup Noted
  /\ lost' = lost \cup ({num[p] : p \in zombie} \ Noted)
  /\ zombie' = {} /\ cut' = (cut \/ parent = "sleep")
  /\ UNCHANGED <<parent, child, resPid, handler, pidArray, recent, live, num>>

(* NormalQuit: SIGQUIT or SIGTERM ends the parent and leaves the workers.  *)
NormalQuit ==
  /\ ~ ParentGone /\ parent' = "quit" /\ zombie' = {}
  /\ UNCHANGED <<child, resPid, handler, pidArray, chldFlagArr, recent, cut, live,
                 num, lost>>

(* A worker dies: a zombie once there is a handler, otherwise just gone.   *)
Die(p) ==
  /\ p \in live /\ live' = live \ {p}
  /\ IF handler /\ ~ ParentGone
     THEN zombie' = zombie \cup {p} /\ lost' = lost
     ELSE zombie' = zombie /\ lost' = lost \cup {num[p]}
  /\ UNCHANGED <<parent, child, resPid, handler, pidArray, chldFlagArr, recent, cut, num>>

Parent ==
  \/ \E p \in Pids : Fork(p) \/ Refork(p)
  \/ ForkFails \/ KillAll \/ Install
  \/ Wake \/ NextChild \/ ReforkFails \/ Clear \/ Record \/ ScanEnds
ForkNext ==
  \/ Parent \/ DealSigChld \/ NormalQuit
  \/ \E p \in Pids : Die(p)

ForkSpec == ForkInit /\ [][ForkNext]_forkVars

(* What the scheduling guarantees: the parent runs, its signals are        *)
(* delivered, and fork does not fail for ever (the last is strong: between *)
(* two attempts at a worker the parent is elsewhere).                      *)
Restart(n) == child = n /\ \E p \in Pids : Refork(p)
ForkFairSpec ==
  /\ ForkSpec /\ WF_forkVars(Parent) /\ WF_forkVars(DealSigChld)
  /\ \A n \in Numbers : SF_forkVars(Restart(n))

-----------------------------------------------------------------------------
ForkTypeOK ==
  /\ parent \in {"fork", "sleep", "scan", "clear", "record", "quit", "failed"}
  /\ child \in 0 .. childNum /\ resPid \in Pids \cup {NoPid}
  /\ handler \in BOOLEAN /\ cut \in BOOLEAN
  /\ pidArray \in [Numbers -> Pids \cup {NoPid}]
  /\ chldFlagArr \subseteq Numbers /\ recent \subseteq Numbers
  /\ live \subseteq Pids /\ zombie \subseteq Pids
  /\ num \in [Pids -> Numbers] /\ lost \subseteq Numbers

(* No two running workers have the same number (the return value of        *)
(* ForkChildren): a restart happens only when the worker it replaces is    *)
(* dead, wherever the handler interrupts the loop.                         *)
OneWorkerPerNumber ==
  \A p, q \in live : num[p] = num[q] => p = q

(* When ForkChildren gives up with -2 it leaves no worker behind, those    *)
(* that died in the meantime included.                                     *)
FailureLeavesNone == parent = "failed" => live = {}

(* The handler overlooks a death in two places only: while SIGCHLD is      *)
(* still ignored, and between the fork of a replacement and the statement  *)
(* that records its process id.                                            *)
LostOnlyUnrecorded ==
  [][\A n \in lost' \ lost :
       \/ ~ handler \/ ParentGone
       \/ parent \in {"clear", "record"} /\ child = n]_forkVars

(* A worker that died is restarted, if the parent is not told to quit and  *)
(* the death was not overlooked: chldFlagArr keeps a death that falls into *)
(* a restart, a failed fork or the minimum interval until a later scan.    *)
Restarted ==
  \A n \in Numbers :
    (handler /\ Running(n) = {})
      ~> (Running(n) # {} \/ n \in lost \/ ParentGone)
=============================================================================
