------------------------- MODULE ForkChildrenProofs -------------------------
(***************************************************************************)
(* What ForkChildren promises for every number of workers and every set of *)
(* process ids: the properties that the client run checks for two workers  *)
(* and four process ids, and that a start that fails leaves no worker.     *)
(*                                                                         *)
(* The number of a process says where pidArray holds it, but for the one   *)
(* process between its fork and its recording; a flag says that what       *)
(* pidArray holds is dead.  Together they make a restart safe.             *)
(***************************************************************************)
EXTENDS ForkChildren, TLAPS

Procs == live \cup zombie
Replacing == parent \in {"clear", "record"}

TypeInv == ForkTypeOK /\ (Replacing => child < childNum)

(* A process is where pidArray has its number, or it is the replacement    *)
(* that is not recorded yet.                                               *)
Found ==
  \A p \in Procs :
    pidArray[num[p]] = p \/ (Replacing /\ p = resPid /\ num[p] = child)

(* What a restart rests on.                                                *)
FlagsSound == \A n \in chldFlagArr : pidArray[n] \notin Procs
Replaced == Replacing => pidArray[child] \notin Procs
Cleared == parent = "record" => child \notin chldFlagArr

(* Before the handler is installed.                                        *)
Starting ==
  parent = "fork" => /\ ~ handler /\ zombie = {} /\ chldFlagArr = {}
                     /\ \A p \in live : num[p] < child

Supervised ==
  ~ ParentGone => /\ Found /\ FlagsSound /\ Replaced /\ Cleared /\ Starting
                  /\ live \cap zombie = {}

ForkInv ==
  /\ TypeInv /\ OneWorkerPerNumber /\ FailureLeavesNone /\ Supervised

-----------------------------------------------------------------------------
(* The type invariant of ForkChildren's variables is inductive: the parent *)
(* is within its arrays whatever interrupts it.                            *)
LEMMA ForkTypeStep == TypeInv /\ [ForkNext]_forkVars => TypeInv'
<1> SUFFICES ASSUME TypeInv, [ForkNext]_forkVars PROVE TypeInv'
  OBVIOUS
<1> USE ForkAssumption DEF TypeInv, ForkTypeOK, Numbers, Replacing
<1>1. ASSUME NEW p \in Pids, Fork(p) PROVE TypeInv'
  BY <1>1 DEF Fork
<1>2. ASSUME NEW p \in Pids, Refork(p) PROVE TypeInv'
  BY <1>2 DEF Refork
<1>3. CASE ForkFails
  BY <1>3 DEF ForkFails
<1>4. CASE KillAll
  BY <1>4 DEF KillAll
<1>5. CASE Install
  BY <1>5 DEF Install
<1>6. CASE Wake
  <2>1. recent' \subseteq Numbers
    BY <1>6 DEF Wake
  <2>2. cut' \in BOOLEAN
    BY <1>6, Zenon DEF Wake
  <2>3. /\ parent' = "scan" /\ child' = 0
        /\ UNCHANGED <<resPid, handler, pidArray, chldFlagArr, live, zombie, num, lost>>
    BY <1>6 DEF Wake
  <2> QED BY <2>1, <2>2, <2>3
<1>7. CASE NextChild
  BY <1>7 DEF NextChild
<1>8. CASE ReforkFails
  BY <1>8 DEF ReforkFails
<1>9. CASE Clear
  BY <1>9 DEF Clear
<1>10. CASE Record
  BY <1>10 DEF Record
<1>11. CASE ScanEnds
  BY <1>11 DEF ScanEnds
<1>12. CASE DealSigChld
  BY <1>12 DEF DealSigChld, Noted
<1>13. CASE NormalQuit
  BY <1>13 DEF NormalQuit
<1>14. ASSUME NEW p \in Pids, Die(p) PROVE TypeInv'
  <2>1. live' \subseteq Pids /\ zombie' \subseteq Pids /\ lost' \subseteq Numbers
    <3>1. CASE handler /\ ~ ParentGone
      BY <1>14, <3>1 DEF Die
    <3>2. CASE ~ (handler /\ ~ ParentGone)
      BY <1>14, <3>2 DEF Die
    <3> QED BY <3>1, <3>2
  <2>2. UNCHANGED <<parent, child, resPid, handler, pidArray, chldFlagArr, recent,
                    cut, num>>
    BY <1>14 DEF Die
  <2> QED BY <2>1, <2>2
<1>15. CASE UNCHANGED forkVars
  BY <1>15 DEF forkVars
<1> QED
  BY <1>1, <1>2, <1>3, <1>4, <1>5, <1>6, <1>7, <1>8, <1>9, <1>10, <1>11, <1>12,
     <1>13, <1>14, <1>15 DEF ForkNext, Parent

(* What the start and every step of ForkChildren keep.                     *)
LEMMA ForkInvStep == ForkInv /\ [ForkNext]_forkVars => ForkInv'
<1> SUFFICES ASSUME ForkInv, [ForkNext]_forkVars PROVE ForkInv'
  OBVIOUS
<1>t. TypeInv /\ TypeInv'
  BY ForkTypeStep DEF ForkInv
<1> USE ForkAssumption DEF Numbers
<1> DEFINE Details == Found /\ FlagsSound /\ Replaced /\ Cleared /\ Starting
                      /\ live \cap zombie = {}
(* A step of a parent that is there and stays: what is left to show.       *)
<1>k. ASSUME ~ ParentGone, Details', parent' # "failed" PROVE ForkInv'
  <2>1. OneWorkerPerNumber'
    BY <1>t, <1>k DEF OneWorkerPerNumber, Found, Replaced, Procs, Replacing,
                      TypeInv, ForkTypeOK
  <2> QED BY <1>t, <1>k, <2>1 DEF ForkInv, Supervised, FailureLeavesNone
(* A step that changes none of the processes.                              *)
<1>d. ASSUME ~ ParentGone PROVE Details
  BY <1>d DEF ForkInv, Supervised
<1>1. ASSUME NEW p \in Pids, Fork(p) PROVE ForkInv'
  <2>1. ~ ParentGone /\ parent' = "fork" /\ parent = "fork"
    BY <1>1 DEF Fork, ParentGone
  <2>2. Details
    BY <1>d, <2>1
  <2>3. Details'
    <3>1. Found'
      BY <1>1, <1>t, <2>1, <2>2 DEF Fork, FreshPid, Found, Starting, Procs, Replacing,
                                    TypeInv, ForkTypeOK
    <3>2. FlagsSound' /\ Replaced' /\ Cleared' /\ (live \cap zombie = {})'
      BY <1>1, <2>1, <2>2 DEF Fork, FlagsSound, Replaced, Cleared, Starting, Replacing
    <3>3. Starting'
      BY <1>1, <1>t, <2>1, <2>2 DEF Fork, FreshPid, Starting, TypeInv, ForkTypeOK
    <3> QED BY <3>1, <3>2, <3>3
  <2> QED BY <1>k, <2>1, <2>3
<1>2. CASE ForkFails
  <2>1. ~ ParentGone /\ parent' = "fork" /\ parent = "fork"
    BY <1>2 DEF ForkFails, ParentGone
  <2>2. Details
    BY <1>d, <2>1
  <2>3. Details'
    <3>1. Found' /\ FlagsSound' /\ Replaced' /\ Cleared' /\ (live \cap zombie = {})'
      BY <1>2, <2>1, <2>2 DEF ForkFails, Found, FlagsSound, Replaced, Cleared, Procs, Replacing
    <3>2. Starting'
      BY <1>2, <1>t, <2>1, <2>2 DEF ForkFails, Starting, TypeInv, ForkTypeOK
    <3> QED BY <3>1, <3>2
  <2> QED BY <1>k, <2>1, <2>3
<1>3. CASE KillAll
  <2>1. ~ ParentGone /\ parent' = "failed" /\ parent = "fork"
    BY <1>3 DEF KillAll, ParentGone
  <2>2. Details
    BY <1>d, <2>1
  <2>3. live' = {}
    BY <1>3, <1>t, <2>1, <2>2 DEF KillAll, Recorded, Found, Procs, Replacing, TypeInv, ForkTypeOK
  <2> QED BY <1>t, <2>1, <2>3 DEF ForkInv, Supervised, ParentGone, OneWorkerPerNumber,
                                  FailureLeavesNone
(* Steps of the parent that leave the processes, the array and the flags.  *)
<1>4. CASE Install \/ Wake \/ NextChild \/ ReforkFails \/ ScanEnds
  <2>1. /\ ~ ParentGone /\ ~ Replacing /\ parent' \in {"sleep", "scan"}
        /\ UNCHANGED <<pidArray, chldFlagArr, live, zombie, num>>
    BY <1>4 DEF Install, Wake, NextChild, ReforkFails, ScanEnds, ParentGone, Replacing
  <2>2. Details
    BY <1>d, <2>1
  <2>3. Details'
    BY <2>1, <2>2 DEF Found, FlagsSound, Replaced, Cleared, Starting, Procs, Replacing
  <2> QED BY <1>k, <2>1, <2>3
<1>5. ASSUME NEW p \in Pids, Refork(p) PROVE ForkInv'
  <2>1. ~ ParentGone /\ parent = "scan" /\ parent' = "clear" /\ ~ Replacing
    BY <1>5 DEF Refork, ParentGone, Replacing
  <2>2. Details
    BY <1>d, <2>1
  <2>3. Details'
    <3>1. Found'
      BY <1>5, <1>t, <2>1, <2>2 DEF Refork, FreshPid, Found, Procs, Replacing, TypeInv, ForkTypeOK
    <3>2. FlagsSound'
      BY <1>5, <1>t, <2>1, <2>2 DEF Refork, FreshPid, Recorded, FlagsSound, Procs, TypeInv, ForkTypeOK
    <3>3. Replaced'
      BY <1>5, <1>t, <2>1, <2>2 DEF Refork, FreshPid, Recorded, FlagsSound, Replaced, Procs, TypeInv, ForkTypeOK
    <3>4. Cleared' /\ Starting' /\ (live \cap zombie = {})'
      BY <1>5, <2>1, <2>2 DEF Refork, FreshPid, Cleared, Starting
    <3> QED BY <3>1, <3>2, <3>3, <3>4
  <2> QED BY <1>k, <2>1, <2>3
<1>6. CASE Clear
  <2>1. /\ ~ ParentGone /\ Replacing /\ parent' = "record" /\ child' = child
        /\ chldFlagArr' = chldFlagArr \ {child}
        /\ UNCHANGED <<resPid, pidArray, live, zombie, num>>
    BY <1>6 DEF Clear, ParentGone, Replacing
  <2>2. Details
    BY <1>d, <2>1
  <2>3. Details'
    BY <2>1, <2>2 DEF Found, FlagsSound, Replaced, Cleared, Starting, Procs, Replacing
  <2> QED BY <1>k, <2>1, <2>3
<1>7. CASE Record
  <2>1. /\ ~ ParentGone /\ parent = "record" /\ parent' = "scan"
        /\ pidArray' = [pidArray EXCEPT ![child] = resPid]
        /\ UNCHANGED <<chldFlagArr, live, zombie, num>>
    BY <1>7 DEF Record, ParentGone
  <2>2. Details
    BY <1>d, <2>1
  <2>3. child \in Numbers /\ pidArray[child] \notin Procs
    BY <1>t, <2>1, <2>2 DEF Replaced, Replacing, TypeInv, ForkTypeOK
  <2>4. Details'
    <3>1. Found'
      BY <1>t, <2>1, <2>2, <2>3 DEF Found, Procs, Replacing, TypeInv, ForkTypeOK
    <3>2. FlagsSound'
      BY <1>t, <2>1, <2>2, <2>3 DEF FlagsSound, Cleared, Procs, TypeInv, ForkTypeOK
    <3>3. Replaced' /\ Cleared' /\ Starting' /\ (live \cap zombie = {})'
      BY <2>1, <2>2 DEF Replaced, Cleared, Starting, Replacing
    <3> QED BY <3>1, <3>2, <3>3
  <2> QED BY <1>k, <2>1, <2>4
<1>8. CASE DealSigChld
  <2>1. /\ ~ ParentGone /\ zombie' = {} /\ chldFlagArr' = chldFlagArr \cup Noted
        /\ UNCHANGED <<parent, child, resPid, handler, pidArray, live, num>>
    BY <1>8 DEF DealSigChld
  <2>2. Details
    BY <1>d, <2>1
  <2>3. Details'
    <3>1. Found' /\ Replaced' /\ (live \cap zombie = {})'
      BY <2>1, <2>2 DEF Found, Replaced, Procs, Replacing
    <3>2. FlagsSound'
      BY <2>1, <2>2 DEF FlagsSound, Noted, Procs
    <3>3. Cleared'
      BY <2>1, <2>2 DEF Cleared, Replaced, Replacing, Noted, Procs
    <3>4. Starting'
      BY <2>1, <2>2 DEF Starting, Noted
    <3> QED BY <3>1, <3>2, <3>3, <3>4
  <2>4. parent' # "failed"
    BY <2>1 DEF ParentGone
  <2> QED BY <1>k, <2>1, <2>3, <2>4
<1>9. CASE NormalQuit
  BY <1>9, <1>t DEF NormalQuit, ParentGone, ForkInv, Supervised, OneWorkerPerNumber,
                    FailureLeavesNone
<1>10. ASSUME NEW p \in Pids, Die(p) PROVE ForkInv'
  <2>1. /\ p \in live /\ live' = live \ {p}
        /\ UNCHANGED <<parent, child, resPid, handler, pidArray, chldFlagArr, num>>
        /\ zombie' = IF handler /\ ~ ParentGone THEN zombie \cup {p} ELSE zombie
    BY <1>10 DEF Die
  <2>2. OneWorkerPerNumber' /\ FailureLeavesNone'
    BY <2>1 DEF ForkInv, OneWorkerPerNumber, FailureLeavesNone
  <2>3. ASSUME ~ ParentGone PROVE Details'
    <3>1. Details
      BY <1>d, <2>3
    <3>2. Procs' \subseteq Procs
      BY <2>1 DEF Procs
    <3>3. Found' /\ FlagsSound' /\ Replaced' /\ Cleared' /\ (live \cap zombie = {})'
      BY <2>1, <3>1, <3>2 DEF Found, FlagsSound, Replaced, Cleared, Replacing
    <3>4. Starting'
      BY <2>1, <3>1 DEF Starting
    <3> QED BY <3>3, <3>4
  <2> QED BY <1>t, <2>1, <2>2, <2>3 DEF ForkInv, Supervised, ParentGone
<1>11. CASE UNCHANGED forkVars
  BY <1>11, <1>t DEF forkVars, ForkInv, Supervised, ParentGone, OneWorkerPerNumber,
     FailureLeavesNone, Found, FlagsSound, Replaced, Cleared, Starting, Procs, Replacing
<1> QED
  BY <1>1, <1>2, <1>3, <1>4, <1>5, <1>6, <1>7, <1>8, <1>9, <1>10, <1>11
     DEF ForkNext, Parent

-----------------------------------------------------------------------------
(* ForkInv holds in every state of ForkChildren.                           *)
LEMMA ForkInvariant == ForkSpec => []ForkInv
<1>1. ForkInit => ForkInv
  <2> SUFFICES ASSUME ForkInit PROVE ForkInv
    OBVIOUS
  <2>1. handler \in BOOLEAN /\ cut \in BOOLEAN /\ ~ handler
    BY Zenon DEF ForkInit
  <2>2. TypeInv
    BY ForkAssumption, <2>1 DEF ForkInit, TypeInv, ForkTypeOK, Numbers, Replacing
  <2>3. Procs = {} /\ chldFlagArr = {} /\ parent = "fork" /\ live = {} /\ zombie = {}
    BY DEF ForkInit, Procs
  <2>4. OneWorkerPerNumber /\ FailureLeavesNone
    BY <2>3 DEF OneWorkerPerNumber, FailureLeavesNone
  <2>5. Supervised
    BY <2>1, <2>3 DEF Supervised, Found, FlagsSound, Replaced, Cleared, Starting, Replacing
  <2> QED BY <2>2, <2>4, <2>5 DEF ForkInv
<1> QED BY <1>1, ForkInvStep, PTL DEF ForkSpec

(* At no time do two workers run with the number that ForkChildren         *)
(* returned to both, wherever the handler interrupts the supervising loop. *)
THEOREM OneWorker == ForkSpec => []OneWorkerPerNumber
<1>1. ForkInv => OneWorkerPerNumber
  BY DEF ForkInv
<1> QED BY <1>1, ForkInvariant, PTL

(* When ForkChildren returns -2, the workers it had started are gone.      *)
THEOREM NoneLeft == ForkSpec => []FailureLeavesNone
<1>1. ForkInv => FailureLeavesNone
  BY DEF ForkInv
<1> QED BY <1>1, ForkInvariant, PTL

(* The handler overlooks a death only while it is not installed, after the *)
(* parent's end, or between a replacement's fork and its recording.        *)
THEOREM OnlyUnrecorded == ForkSpec => LostOnlyUnrecorded
<1> DEFINE A == \A n \in lost' \ lost :
                  \/ ~ handler \/ ParentGone
                  \/ parent \in {"clear", "record"} /\ child = n
<1>1. ForkInv /\ [ForkNext]_forkVars => [A]_forkVars
  <2> SUFFICES ASSUME ForkInv, ForkNext, NEW n \in lost' \ lost
               PROVE  \/ ~ handler \/ ParentGone
                      \/ parent \in {"clear", "record"} /\ child = n
    BY DEF forkVars
  <2>1. CASE DealSigChld
    <3>1. PICK p \in zombie : num[p] = n /\ n \notin Noted
      BY <2>1 DEF DealSigChld
    <3>2. ~ ParentGone
      BY <2>1 DEF DealSigChld
    <3>3. p \in Pids /\ n \in Numbers
      BY <3>1 DEF ForkInv, TypeInv, ForkTypeOK
    <3>4. pidArray[n] # p
      BY <3>1, <3>3 DEF Noted
    <3> QED BY <3>1, <3>2, <3>4 DEF ForkInv, Supervised, Found, Procs, Replacing
  <2>2. ASSUME NEW p \in Pids, Die(p) PROVE ~ handler \/ ParentGone
    BY <2>2 DEF Die
  <2>3. ASSUME NEW p \in Pids, Fork(p) \/ Refork(p) PROVE lost' = lost
    BY <2>3 DEF Fork, Refork
  <2>4. ASSUME ForkFails \/ KillAll \/ Install \/ Wake \/ NextChild \/ ReforkFails
                 \/ Clear \/ Record \/ ScanEnds \/ NormalQuit
        PROVE  lost' = lost
    BY <2>4 DEF ForkFails, KillAll, Install, Wake, NextChild, ReforkFails, Clear, Record,
                ScanEnds, NormalQuit
  <2> QED BY <2>1, <2>2, <2>3, <2>4 DEF ForkNext, Parent
<1> QED BY <1>1, ForkInvariant, PTL DEF ForkSpec, LostOnlyUnrecorded
=============================================================================
