-------------------------- MODULE ProxyServerProofs --------------------------
(***************************************************************************)
(* What holds of request processing for any number of processes, threads,  *)
(* connections, retries and keys: types, that a MySQL connection has one   *)
(* user at a time and none is lost, and that no answer is too old.         *)
(***************************************************************************)
EXTENDS ProxyServer, FiniteSetTheorems, TLAPS

(* What is known of a thread's locals at each place.                       *)
Placed(h) ==
  /\ h.pc \in {"query", "pack"} <=> h.conn # None
  /\ h.pc \notin {"recv", "send"} => h.q \in Queries
  /\ h.pc \in {"test", "write"} => h.entry \in Entry
  /\ h.pc # "send" => h.err = "none"
  /\ h.err = "ok" => h.entry \in Entry
TypeInv == TypeOK /\ \A t \in Threads : Placed(th[t])

(* Assigning one local at a time keeps a thread's record well typed.       *)
LEMMA Assign ==
  ASSUME NEW r \in ThreadState
  PROVE  /\ \A x \in Place : [r EXCEPT !.pc = x] \in ThreadState
         /\ \A x \in Outcome : [r EXCEPT !.err = x] \in ThreadState
         /\ \A x \in Queries \cup {None} : [r EXCEPT !.q = x] \in ThreadState
         /\ \A x \in Conns \cup {None} : [r EXCEPT !.conn = x] \in ThreadState
         /\ \A x \in Entry \cup {None} : [r EXCEPT !.entry = x] \in ThreadState
         /\ \A x \in 0 .. MaxTry : [r EXCEPT !.try = x] \in ThreadState
         /\ \A x \in 0 .. MaxTime : [r EXCEPT !.at = x] \in ThreadState
         /\ \A x \in 0 .. MaxTry + 1 : [r EXCEPT !.losses = x] \in ThreadState
  BY DEF ThreadState

LEMMA IdleThreadType == IdleThread \in ThreadState
  BY NumbersAssumption DEF IdleThread, ThreadState, Place, Outcome

LEMMA UpToType == \A n \in Nat : UpTo(n) \in 0 .. MaxTry + 1
  BY NumbersAssumption DEF UpTo

(* An answer is well typed, and has given up its connection.               *)
LEMMA AnswerType ==
  ASSUME TypeInv, NEW t \in Threads, NEW err \in Outcome,
         err = "ok" => th[t].entry \in Entry
  PROVE  /\ Answer(t, err) \in ThreadState /\ Placed(Answer(t, err))
         /\ Answer(t, err).pc = "send" /\ Answer(t, err).err = err
         /\ Answer(t, err).conn = None
         /\ Answer(t, err).entry = th[t].entry /\ Answer(t, err).at = th[t].at
<1>1. th[t] \in ThreadState
  BY DEF TypeInv, TypeOK
<1>2. 0 \in 0 .. MaxTry /\ "send" \in Place /\ None \in Conns \cup {None}
  BY NumbersAssumption DEF Place
<1>3. Answer(t, err) \in ThreadState
  BY <1>1, <1>2, Assign DEF Answer
<1>4. /\ Answer(t, err).pc = "send" /\ Answer(t, err).err = err
      /\ Answer(t, err).conn = None
      /\ Answer(t, err).entry = th[t].entry /\ Answer(t, err).at = th[t].at
  BY <1>1 DEF Answer, ThreadState
<1> QED BY <1>3, <1>4 DEF Placed

(* A step of thread t touches no other thread.                             *)
LEMMA GotoFrame ==
  ASSUME TypeOK, NEW t \in Threads, NEW from, NEW rec \in ThreadState, Goto(t, from, rec)
  PROVE  /\ th' \in [Threads -> ThreadState] /\ th'[t] = rec
         /\ \A u \in Threads \ {t} : th'[u] = th[u]
  BY DEF TypeOK, Goto

LEMMA GotoInv ==
  ASSUME TypeInv, NEW t \in Threads, NEW from, NEW rec \in ThreadState,
         Goto(t, from, rec), Placed(rec)
  PROVE  th' \in [Threads -> ThreadState] /\ \A u \in Threads : Placed(th'[u])
  BY GotoFrame DEF TypeInv

LEMMA InitTypeInv == Init => TypeInv
<1> SUFFICES ASSUME Init PROVE TypeInv
  OBVIOUS
<1>1. PICK c \in Conns :
        /\ pool = [p \in Procs |-> IF Procs = {p} THEN <<c>> ELSE << >>]
        /\ open = [p \in Procs |-> IF Procs = {p} THEN {c} ELSE {}]
  BY DEF Init
<1>2. pool \in [Procs -> Seq(Conns)] /\ open \in [Procs -> SUBSET Conns]
  BY <1>1
<1>3. clock \in 0 .. MaxTime /\ cache \in [Keys -> Entry \cup {None}]
      /\ dead \in [Procs -> SUBSET Conns]
  BY NumbersAssumption DEF Init
<1>4. th \in [Threads -> ThreadState]
  BY IdleThreadType DEF Init
<1>5. \A t \in Threads : Placed(th[t])
  BY DEF Init, Placed, IdleThread
<1> QED BY <1>2, <1>3, <1>4, <1>5 DEF TypeInv, TypeOK

(* The parts of the type invariant besides the threads.                    *)
LEMMA PoolTypes ==
  ASSUME TypeOK, NEW p \in Procs, NEW c \in Conns,
         FreeMySQL(p, c) \/ RealFreeMySQL(p, c)
  PROVE  /\ pool' \in [Procs -> Seq(Conns)]
         /\ open' \in [Procs -> SUBSET Conns] /\ dead' \in [Procs -> SUBSET Conns]
<1>1. CASE FreeMySQL(p, c)
  <2>1. Append(pool[p], c) \in Seq(Conns)
    BY DEF TypeOK
  <2> QED BY <1>1, <2>1 DEF TypeOK, FreeMySQL
<1>2. CASE RealFreeMySQL(p, c)
  BY <1>2 DEF TypeOK, RealFreeMySQL
<1> QED BY <1>1, <1>2

LEMMA StepTypeInv == TypeInv /\ [Next]_vars => TypeInv'
<1> SUFFICES ASSUME TypeInv, [Next]_vars PROVE TypeInv'
  OBVIOUS
<1> USE NumbersAssumption, ConnsAssumption, KeyOfAssumption, ProcOfAssumption
<1> DEFINE ThreadsOK == th' \in [Threads -> ThreadState] /\ \A u \in Threads : Placed(th'[u])
<1>t. TypeOK /\ \A t \in Threads : th[t] \in ThreadState /\ Placed(th[t])
  BY DEF TypeInv, TypeOK
<1>c. Place = Place \cup {"read", "test", "alloc", "connect", "query", "pack", "write"}
      /\ None \in Conns \cup {None} /\ None \in Entry \cup {None}
      /\ Outcome = Outcome \cup {"ok", "refused", "server", "client", "norows", "gone", "memory"}
  BY DEF Place, Outcome
<1>1. ASSUME NEW t \in Threads, NEW q \in Queries, Receive(t, q) PROVE TypeInv'
  <2> DEFINE n == UpTo(Cardinality(dead[ProcOf[t]]))
             rec == [IdleThread EXCEPT !.pc = "read", !.q = q, !.at = clock, !.losses = n]
  <2>1. Cardinality(dead[ProcOf[t]]) \in Nat
    BY <1>t, FS_Subset, FS_CardinalityType DEF TypeOK
  <2>2. n \in 0 .. MaxTry + 1 /\ clock \in 0 .. MaxTime
    BY <2>1, <1>t, UpToType DEF TypeOK
  <2>3. rec \in ThreadState
    BY <2>2, <1>c, IdleThreadType, Assign
  <2>4. Placed(rec)
    BY DEF Placed, IdleThread
  <2>5. ThreadsOK
    BY <2>3, <2>4, <1>1, GotoInv DEF Receive
  <2> QED BY <2>5, <1>1, <1>t DEF Receive, TypeInv, TypeOK
<1>2. ASSUME NEW t \in Threads, Refuse(t) PROVE TypeInv'
  <2>1. ThreadsOK
    BY <1>2, <1>c, GotoInv, AnswerType DEF Refuse
  <2> QED BY <2>1, <1>2, <1>t DEF Refuse, TypeInv, TypeOK
<1>3. ASSUME NEW t \in Threads, ReadHit(t) PROVE TypeInv'
  <2> DEFINE e == cache[KeyOf[th[t].q]]
             rec == [th[t] EXCEPT !.pc = "test", !.entry = e]
  <2>1. th[t].pc = "read" /\ th[t].q \in Queries /\ th[t].conn = None /\ th[t].err = "none"
    BY <1>3, <1>t DEF ReadHit, Placed
  <2>2. e \in Entry
    BY <2>1, <1>3, <1>t DEF ReadHit, TypeOK
  <2>3. rec \in ThreadState
    BY <2>2, <1>c, <1>t, Assign
  <2>4. Placed(rec)
    BY <2>1, <2>2, <1>t DEF Placed, ThreadState
  <2>5. ThreadsOK
    BY <2>3, <2>4, <1>3, GotoInv DEF ReadHit
  <2> QED BY <2>5, <1>3, <1>t DEF ReadHit, TypeInv, TypeOK
<1>4. ASSUME NEW t \in Threads, ReadMiss(t) PROVE TypeInv'
  <2> DEFINE rec == [th[t] EXCEPT !.pc = "alloc"]
  <2>1. th[t].pc = "read" /\ th[t].q \in Queries /\ th[t].conn = None /\ th[t].err = "none"
    BY <1>4, <1>t DEF ReadMiss, Goto, Placed
  <2>2. rec \in ThreadState
    BY <1>c, <1>t, Assign
  <2>3. Placed(rec)
    BY <2>1, <1>t DEF Placed, ThreadState
  <2>4. ThreadsOK
    BY <2>2, <2>3, <1>4, GotoInv DEF ReadMiss
  <2> QED BY <2>4, <1>4, <1>t DEF ReadMiss, TypeInv, TypeOK
<1>5. ASSUME NEW t \in Threads, Test(t) PROVE TypeInv'
  <2> DEFINE rec == [th[t] EXCEPT !.pc = "alloc", !.entry = None]
  <2>1. /\ th[t].pc = "test" /\ th[t].q \in Queries /\ th[t].conn = None
        /\ th[t].err = "none" /\ th[t].entry \in Entry
    BY <1>5, <1>t DEF Test, Placed
  <2>2. rec \in ThreadState
    BY <1>c, <1>t, Assign
  <2>3. Placed(rec)
    BY <2>1, <1>t DEF Placed, ThreadState
  <2>4. ASSUME Goto(t, "test", rec) PROVE ThreadsOK
    BY <2>2, <2>3, <2>4, GotoInv
  <2>5. ASSUME Goto(t, "test", Answer(t, "ok")) PROVE ThreadsOK
    BY <2>1, <2>5, <1>c, GotoInv, AnswerType
  <2>6. ThreadsOK
    BY <2>4, <2>5, <1>5 DEF Test
  <2> QED BY <2>6, <1>5, <1>t DEF Test, TypeInv, TypeOK
<1>6. ASSUME NEW t \in Threads, AllocPooled(t) PROVE TypeInv'
  <2> DEFINE p == ProcOf[t]
             c == Head(pool[p])
             rec == [th[t] EXCEPT !.pc = "query", !.conn = c]
  <2>1. th[t].pc = "alloc" /\ th[t].q \in Queries /\ th[t].err = "none"
    BY <1>6, <1>t DEF AllocPooled, Goto, Placed
  <2>2. pool[p] \in Seq(Conns) /\ pool[p] # << >>
    BY <1>6, <1>t DEF AllocPooled, TypeOK
  <2>3. c \in Conns /\ Tail(pool[p]) \in Seq(Conns)
    BY <2>2
  <2>4. rec \in ThreadState
    BY <2>3, <1>c, <1>t, Assign
  <2>5. Placed(rec)
    BY <2>1, <2>3, <1>t DEF Placed, ThreadState
  <2>6. ThreadsOK
    BY <2>4, <2>5, <1>6, GotoInv DEF AllocPooled
  <2>7. pool' \in [Procs -> Seq(Conns)]
    BY <2>3, <1>6, <1>t DEF AllocPooled, TypeOK
  <2> QED BY <2>6, <2>7, <1>6, <1>t DEF AllocPooled, TypeInv, TypeOK
<1>7. ASSUME NEW t \in Threads, AllocNew(t) PROVE TypeInv'
  <2> DEFINE rec == [th[t] EXCEPT !.pc = "connect"]
  <2>1. th[t].pc = "alloc" /\ th[t].q \in Queries /\ th[t].conn = None /\ th[t].err = "none"
    BY <1>7, <1>t DEF AllocNew, Goto, Placed
  <2>2. rec \in ThreadState
    BY <1>c, <1>t, Assign
  <2>3. Placed(rec)
    BY <2>1, <1>t DEF Placed, ThreadState
  <2>4. ThreadsOK
    BY <2>2, <2>3, <1>7, GotoInv DEF AllocNew
  <2> QED BY <2>4, <1>7, <1>t DEF AllocNew, TypeInv, TypeOK
<1>8. ASSUME NEW t \in Threads, InitMySQL(t) PROVE TypeInv'
  <2> DEFINE p == ProcOf[t]
             Rec(c) == [th[t] EXCEPT !.pc = "query", !.conn = c]
  <2>1. PICK c \in Conns \ open[p] :
          /\ Goto(t, "connect", Rec(c))
          /\ open' = [open EXCEPT ![p] = @ \cup {c}]
          /\ UNCHANGED <<clock, cache, pool, dead>>
    BY <1>8 DEF InitMySQL
  <2>2. th[t].pc = "connect" /\ th[t].q \in Queries /\ th[t].err = "none"
    BY <2>1, <1>t DEF Goto, Placed
  <2>3. Rec(c) \in ThreadState
    BY <1>c, <1>t, Assign
  <2>4. Placed(Rec(c))
    BY <2>2, <1>t DEF Placed, ThreadState
  <2>5. ThreadsOK
    BY <2>1, <2>3, <2>4, GotoInv
  <2> QED BY <2>1, <2>5, <1>t DEF TypeInv, TypeOK
<1>9. ASSUME NEW t \in Threads, InitMySQLFails(t) PROVE TypeInv'
  <2>1. ThreadsOK
    BY <1>9, <1>c, GotoInv, AnswerType DEF InitMySQLFails
  <2> QED BY <2>1, <1>9, <1>t DEF InitMySQLFails, TypeInv, TypeOK
<1>10. ASSUME NEW t \in Threads, QueryRows(t) PROVE TypeInv'
  <2> DEFINE rec == [th[t] EXCEPT !.pc = "pack"]
  <2>1. th[t].pc = "query" /\ th[t].q \in Queries /\ th[t].conn # None /\ th[t].err = "none"
    BY <1>10, <1>t DEF QueryRows, Goto, Placed
  <2>2. rec \in ThreadState
    BY <1>c, <1>t, Assign
  <2>3. Placed(rec)
    BY <2>1, <1>t DEF Placed, ThreadState
  <2>4. ThreadsOK
    BY <2>2, <2>3, <1>10, GotoInv DEF QueryRows
  <2> QED BY <2>4, <1>10, <1>t DEF QueryRows, TypeInv, TypeOK
<1>11. ASSUME NEW t \in Threads, QueryError(t) PROVE TypeInv'
  <2>1. ThreadsOK
    BY <1>11, <1>c, GotoInv, AnswerType DEF QueryError
  <2>2. th[t].conn \in Conns
    BY <1>11, <1>t DEF QueryError, Goto, Placed, ThreadState
  <2>3. /\ pool' \in [Procs -> Seq(Conns)]
        /\ open' \in [Procs -> SUBSET Conns] /\ dead' \in [Procs -> SUBSET Conns]
    BY <2>2, <1>11, <1>t, PoolTypes DEF QueryError
  <2> QED BY <2>1, <2>3, <1>11, <1>t DEF QueryError, TypeInv, TypeOK
<1>12. ASSUME NEW t \in Threads, QueryNoRows(t) PROVE TypeInv'
  <2>1. ThreadsOK
    BY <1>12, <1>c, GotoInv, AnswerType DEF QueryNoRows
  <2>2. th[t].conn \in Conns
    BY <1>12, <1>t DEF QueryNoRows, Goto, Placed, ThreadState
  <2>3. /\ pool' \in [Procs -> Seq(Conns)]
        /\ open' \in [Procs -> SUBSET Conns] /\ dead' \in [Procs -> SUBSET Conns]
    BY <2>2, <1>12, <1>t, PoolTypes DEF QueryNoRows
  <2> QED BY <2>1, <2>3, <1>12, <1>t DEF QueryNoRows, TypeInv, TypeOK
<1>13. ASSUME NEW t \in Threads, QueryGone(t) PROVE TypeInv'
  <2>1. th[t].pc = "query" /\ th[t].q \in Queries /\ th[t].conn \in Conns /\ th[t].err = "none"
    BY <1>13, <1>t DEF QueryGone, Goto, Placed, ThreadState
  <2>2. ASSUME Goto(t, "query", Retry(t)), th[t].try < MaxTry PROVE ThreadsOK
    <3>1. th[t].try + 1 \in 0 .. MaxTry
      BY <2>2, <1>t DEF ThreadState
    <3>2. Retry(t) = [th[t] EXCEPT !.pc = "alloc", !.conn = None, !.try = th[t].try + 1]
      BY <1>t DEF Retry, ThreadState
    <3> DEFINE r1 == [th[t] EXCEPT !.pc = "alloc"]
               r2 == [r1 EXCEPT !.conn = None]
    <3>3. Retry(t) \in ThreadState
      <4>1. r1 \in ThreadState
        BY <1>c, <1>t, Assign
      <4>2. r2 \in ThreadState
        BY <4>1, <1>c, Assign
      <4> HIDE DEF r1
      <4>3. [r2 EXCEPT !.try = th[t].try + 1] \in ThreadState
        BY <4>2, <3>1, Assign
      <4>4. Retry(t) = [r2 EXCEPT !.try = th[t].try + 1]
        BY <3>2 DEF r1
      <4> QED BY <4>3, <4>4
    <3>4. Placed(Retry(t))
      BY <2>1, <3>2, <1>t DEF Placed, ThreadState
    <3> QED BY <2>2, <3>3, <3>4, GotoInv
  <2>3. ASSUME Goto(t, "query", Answer(t, "gone")) PROVE ThreadsOK
    BY <2>3, <1>c, GotoInv, AnswerType
  <2>4. ThreadsOK
    BY <2>2, <2>3, <1>13 DEF QueryGone
  <2>5. /\ pool' \in [Procs -> Seq(Conns)]
        /\ open' \in [Procs -> SUBSET Conns] /\ dead' \in [Procs -> SUBSET Conns]
    BY <2>1, <1>13, <1>t, PoolTypes DEF QueryGone
  <2> QED BY <2>4, <2>5, <1>13, <1>t DEF QueryGone, TypeInv, TypeOK
<1>14. ASSUME NEW t \in Threads, Pack(t) PROVE TypeInv'
  <2> DEFINE e == [q |-> th[t].q, time |-> clock]
             rec == [th[t] EXCEPT !.pc = "write", !.conn = None, !.entry = e]
  <2>1. th[t].pc = "pack" /\ th[t].q \in Queries /\ th[t].conn \in Conns /\ th[t].err = "none"
    BY <1>14, <1>t DEF Pack, Goto, Placed, ThreadState
  <2>2. e \in Entry
    BY <2>1, <1>t DEF Entry, TypeOK
  <2>3. rec \in ThreadState
    BY <2>2, <1>c, <1>t, Assign
  <2>4. Placed(rec)
    BY <2>1, <2>2, <1>t DEF Placed, ThreadState
  <2>5. ThreadsOK
    BY <2>3, <2>4, <1>14, GotoInv DEF Pack
  <2>6. /\ pool' \in [Procs -> Seq(Conns)]
        /\ open' \in [Procs -> SUBSET Conns] /\ dead' \in [Procs -> SUBSET Conns]
    BY <2>1, <1>14, <1>t, PoolTypes DEF Pack
  <2> QED BY <2>5, <2>6, <1>14, <1>t DEF Pack, TypeInv, TypeOK
<1>15. ASSUME NEW t \in Threads, PackFails(t) PROVE TypeInv'
  <2>1. ThreadsOK
    BY <1>15, <1>c, GotoInv, AnswerType DEF PackFails
  <2>2. th[t].conn \in Conns
    BY <1>15, <1>t DEF PackFails, Goto, Placed, ThreadState
  <2>3. /\ pool' \in [Procs -> Seq(Conns)]
        /\ open' \in [Procs -> SUBSET Conns] /\ dead' \in [Procs -> SUBSET Conns]
    BY <2>2, <1>15, <1>t, PoolTypes DEF PackFails
  <2> QED BY <2>1, <2>3, <1>15, <1>t DEF PackFails, TypeInv, TypeOK
<1>16. ASSUME NEW t \in Threads, WriteSkipped(t) PROVE TypeInv'
  <2>1. th[t].entry \in Entry
    BY <1>16, <1>t DEF WriteSkipped, Goto, Placed
  <2>2. ThreadsOK
    BY <2>1, <1>16, <1>c, GotoInv, AnswerType DEF WriteSkipped
  <2> QED BY <2>2, <1>16, <1>t DEF WriteSkipped, TypeInv, TypeOK
<1>17. ASSUME NEW t \in Threads, Write(t) PROVE TypeInv'
  <2>1. th[t].pc = "write" /\ th[t].entry \in Entry /\ th[t].q \in Queries
    BY <1>17, <1>t DEF Write, Goto, Placed
  <2>2. ThreadsOK
    BY <2>1, <1>17, <1>c, GotoInv, AnswerType DEF Write
  <2>3. cache' \in [Keys -> Entry \cup {None}]
    BY <2>1, <1>17, <1>t DEF Write, TypeOK
  <2> QED BY <2>2, <2>3, <1>17, <1>t DEF Write, TypeInv, TypeOK
<1>18. ASSUME NEW t \in Threads, SendResponse(t) PROVE TypeInv'
  <2>1. Placed(IdleThread)
    BY DEF Placed, IdleThread
  <2>2. ThreadsOK
    BY <2>1, <1>18, GotoInv, IdleThreadType DEF SendResponse
  <2> QED BY <2>2, <1>18, <1>t DEF SendResponse, TypeInv, TypeOK
<1>19. ASSUME NEW p \in Procs, NEW c \in Conns, Drop(p, c) PROVE TypeInv'
  <2>1. ASSUME NEW t \in Threads
        PROVE  /\ th'[t] \in ThreadState /\ Placed(th'[t])
    <3> DEFINE n == UpTo(th[t].losses + 1)
    <3>1. n \in 0 .. MaxTry + 1
      BY <1>t, UpToType DEF ThreadState
    <3>2. CASE th'[t] = [th[t] EXCEPT !.losses = n]
      BY <3>1, <3>2, <1>t, Assign DEF ThreadState, Placed
    <3>3. CASE th'[t] = th[t]
      BY <3>3, <1>t
    <3>4. th'[t] = th[t] \/ th'[t] = [th[t] EXCEPT !.losses = UpTo(@ + 1)]
      BY <1>19 DEF Drop
    <3> QED BY <3>2, <3>3, <3>4, <1>t DEF ThreadState
  <2>2. th' = [t \in Threads |-> th'[t]]
    BY <1>19 DEF Drop
  <2>3. ThreadsOK
    BY <2>1, <2>2
  <2> QED BY <2>3, <1>19, <1>t DEF Drop, TypeInv, TypeOK
<1>20. CASE Tick
  BY <1>20 DEF Tick, TypeInv, TypeOK
<1>21. CASE UNCHANGED vars
  BY <1>21 DEF vars, TypeInv, TypeOK
<1> QED
  BY <1>1, <1>2, <1>3, <1>4, <1>5, <1>6, <1>7, <1>8, <1>9, <1>10, <1>11, <1>12, <1>13,
     <1>14, <1>15, <1>16, <1>17, <1>18, <1>19, <1>20, <1>21 DEF Next, Step

(* No thread uses a handle or an entry that is not one, at any place of    *)
(* ProcessRequest, and no request tries more than MaxTry times again.      *)
THEOREM TypeCorrect == Spec => []TypeOK
<1>1. TypeInv => TypeOK
  BY DEF TypeInv
<1> QED BY <1>1, InitTypeInv, StepTypeInv, PTL DEF Spec

-----------------------------------------------------------------------------
(* Freshness.  What AnswerFresh needs to be inductive: a request arrives   *)
(* in the past, and rows that are about to be written were packed after    *)
(* the request of their thread arrived.                                    *)
FreshAt(h) ==
  /\ h.at <= clock
  /\ h.pc = "write" => h.entry.time >= h.at
  /\ h.err = "ok" => h.entry.time + ValidSeconds >= h.at
FreshInv == \A t \in Threads : FreshAt(th[t])

LEMMA StepFresh == TypeInv /\ TypeInv' /\ FreshInv /\ [Next]_vars => FreshInv'
<1> SUFFICES ASSUME TypeInv, TypeInv', FreshInv, [Next]_vars PROVE FreshInv'
  OBVIOUS
<1> USE NumbersAssumption
<1>t. /\ clock \in 0 .. MaxTime /\ th \in [Threads -> ThreadState]
      /\ \A t \in Threads : th[t] \in ThreadState /\ Placed(th[t]) /\ FreshAt(th[t])
      /\ th' \in [Threads -> ThreadState] /\ \A t \in Threads : Placed(th'[t])
  BY DEF TypeInv, TypeOK, FreshInv
(* It is enough that the thread that moves is fresh. *)
<1>f. ASSUME NEW t \in Threads, clock' = clock, FreshAt(th'[t]),
             \A u \in Threads \ {t} : th'[u] = th[u]
      PROVE  FreshInv'
  BY <1>f, <1>t DEF FreshInv, FreshAt
(* A thread that has neither rows to write nor rows to send is fresh. *)
<1>m. ASSUME NEW t \in Threads, NEW from, NEW rec, Goto(t, from, rec), clock' = clock,
             rec.at <= clock, rec.pc # "write", rec.err # "ok"
      PROVE  FreshInv'
  <2>1. th'[t] = rec /\ \A u \in Threads \ {t} : th'[u] = th[u]
    BY <1>m, <1>t DEF Goto
  <2> QED BY <2>1, <1>m, <1>f DEF FreshAt
(* An answer. *)
<1>a. ASSUME NEW t \in Threads, NEW from, NEW err, Goto(t, from, Answer(t, err)),
             clock' = clock,
             err = "ok" => th[t].entry.time + ValidSeconds >= th[t].at
      PROVE  FreshInv'
  <2>1. th'[t] = Answer(t, err) /\ \A u \in Threads \ {t} : th'[u] = th[u]
    BY <1>a, <1>t DEF Goto
  <2>2. /\ Answer(t, err).pc = "send" /\ Answer(t, err).err = err
        /\ Answer(t, err).entry = th[t].entry /\ Answer(t, err).at = th[t].at
    BY <1>t DEF Answer, ThreadState
  <2>3. FreshAt(th'[t])
    BY <2>1, <2>2, <1>a, <1>t DEF FreshAt
  <2> QED BY <2>1, <2>3, <1>a, <1>f
<1>1. ASSUME NEW t \in Threads, NEW q \in Queries, Receive(t, q) PROVE FreshInv'
  <2> DEFINE rec == [IdleThread EXCEPT !.pc = "read", !.q = q, !.at = clock,
                       !.losses = UpTo(Cardinality(dead[ProcOf[t]]))]
  <2>1. rec.at = clock /\ rec.pc = "read" /\ rec.err = "none"
    BY DEF IdleThread
  <2>2. Goto(t, "recv", rec) /\ clock' = clock
    BY <1>1 DEF Receive
  <2> HIDE DEF rec
  <2> QED BY <2>1, <2>2, <1>m, <1>t
<1>2. ASSUME NEW t \in Threads,
             \/ Refuse(t) \/ InitMySQLFails(t) \/ QueryError(t) \/ QueryNoRows(t) \/ PackFails(t)
      PROVE  FreshInv'
  BY <1>2, <1>a DEF Refuse, InitMySQLFails, QueryError, QueryNoRows, PackFails
<1>3. ASSUME NEW t \in Threads,
             ReadHit(t) \/ ReadMiss(t) \/ AllocPooled(t) \/ AllocNew(t) \/ QueryRows(t)
      PROVE  FreshInv'
  <2>1. th[t].err = "none" /\ th[t].at <= clock
    BY <1>3, <1>t DEF ReadHit, ReadMiss, AllocPooled, AllocNew, QueryRows, Goto, Placed, FreshAt
  <2>2. CASE ReadHit(t)
    BY <2>1, <2>2, <1>m, <1>t DEF ReadHit, ThreadState
  <2>3. CASE ReadMiss(t)
    BY <2>1, <2>3, <1>m, <1>t DEF ReadMiss, ThreadState
  <2>4. CASE AllocPooled(t)
    BY <2>1, <2>4, <1>m, <1>t DEF AllocPooled, ThreadState
  <2>5. CASE AllocNew(t)
    BY <2>1, <2>5, <1>m, <1>t DEF AllocNew, ThreadState
  <2>6. CASE QueryRows(t)
    BY <2>1, <2>6, <1>m, <1>t DEF QueryRows, ThreadState
  <2> QED BY <1>3, <2>2, <2>3, <2>4, <2>5, <2>6
<1>4. ASSUME NEW t \in Threads, InitMySQL(t) PROVE FreshInv'
  <2>1. th[t].err = "none" /\ th[t].at <= clock
    BY <1>4, <1>t DEF InitMySQL, Goto, Placed, FreshAt
  <2> DEFINE Rec(c) == [th[t] EXCEPT !.pc = "query", !.conn = c]
  <2>2. PICK c \in Conns : Goto(t, "connect", Rec(c)) /\ clock' = clock
    BY <1>4 DEF InitMySQL
  <2>3. Rec(c).pc = "query" /\ Rec(c).err = th[t].err /\ Rec(c).at = th[t].at
    BY <1>t DEF ThreadState
  <2> HIDE DEF Rec
  <2> QED BY <2>1, <2>2, <2>3, <1>m
<1>5. ASSUME NEW t \in Threads, Test(t) PROVE FreshInv'
  <2>1. th[t].err = "none" /\ th[t].at <= clock /\ th[t].entry \in Entry
    BY <1>5, <1>t DEF Test, Placed, FreshAt
  <2>2. CASE Outdated(th[t].entry)
    BY <2>1, <2>2, <1>5, <1>m, <1>t DEF Test, ThreadState
  <2>3. CASE ~Outdated(th[t].entry)
    <3>1. th[t].entry.time + ValidSeconds >= th[t].at
      BY <2>1, <2>3, <1>t DEF Outdated, Entry, ThreadState
    <3> QED BY <3>1, <2>3, <1>5, <1>a DEF Test
  <2> QED BY <2>2, <2>3
<1>6. ASSUME NEW t \in Threads, QueryGone(t) PROVE FreshInv'
  <2>1. th[t].err = "none" /\ th[t].at <= clock
    BY <1>6, <1>t DEF QueryGone, Goto, Placed, FreshAt
  <2>2. CASE th[t].try < MaxTry
    BY <2>1, <2>2, <1>6, <1>m, <1>t DEF QueryGone, Retry, ThreadState
  <2>3. CASE ~(th[t].try < MaxTry)
    BY <2>3, <1>6, <1>a DEF QueryGone
  <2> QED BY <2>2, <2>3
<1>7. ASSUME NEW t \in Threads, Pack(t) PROVE FreshInv'
  <2>1. th[t].err = "none" /\ th[t].at <= clock
    BY <1>7, <1>t DEF Pack, Goto, Placed, FreshAt
  <2>2. /\ th'[t].err = "none" /\ th'[t].at = th[t].at /\ th'[t].entry.time = clock
        /\ \A u \in Threads \ {t} : th'[u] = th[u]
    BY <2>1, <1>7, <1>t DEF Pack, Goto, ThreadState
  <2>3. FreshAt(th'[t])
    BY <2>1, <2>2, <1>t DEF FreshAt, ThreadState
  <2> QED BY <2>2, <2>3, <1>7, <1>f DEF Pack
<1>8. ASSUME NEW t \in Threads, WriteSkipped(t) \/ Write(t) PROVE FreshInv'
  <2>1. th[t].pc = "write" /\ th[t].entry \in Entry
    BY <1>8, <1>t DEF WriteSkipped, Write, Goto, Placed
  <2>2. th[t].entry.time + ValidSeconds >= th[t].at
    BY <2>1, <1>t DEF FreshAt, Entry, ThreadState
  <2> QED BY <2>2, <1>8, <1>a DEF WriteSkipped, Write
<1>9. ASSUME NEW t \in Threads, SendResponse(t) PROVE FreshInv'
  BY <1>9, <1>m, <1>t DEF SendResponse, IdleThread
<1>10. ASSUME NEW p \in Procs, NEW c \in Conns, Drop(p, c) PROVE FreshInv'
  <2>1. \A t \in Threads : /\ th'[t].pc = th[t].pc /\ th'[t].err = th[t].err
                           /\ th'[t].at = th[t].at /\ th'[t].entry = th[t].entry
    BY <1>10, <1>t DEF Drop, ThreadState
  <2> QED BY <2>1, <1>10, <1>t DEF Drop, FreshInv, FreshAt
<1>11. CASE Tick
  BY <1>11, <1>t DEF Tick, FreshInv, FreshAt, ThreadState
<1>12. CASE UNCHANGED vars
  BY <1>12 DEF vars, FreshInv, FreshAt
<1> QED
  BY <1>1, <1>2, <1>3, <1>4, <1>5, <1>6, <1>7, <1>8, <1>9, <1>10, <1>11, <1>12
     DEF Next, Step

(* Rows are sent only if they were packed at most CACHE_VALID_SECONDS      *)
(* before the request arrived: the test of ProcessRequest and the order    *)
(* pack, write, send give this however the threads interleave.             *)
THEOREM AnswersFresh == Spec => []AnswerFresh
<1>1. Init => FreshInv
  BY NumbersAssumption DEF Init, FreshInv, FreshAt, IdleThread
<1>2. FreshInv => AnswerFresh
  BY DEF FreshInv, FreshAt, AnswerFresh
<1> QED BY <1>1, <1>2, InitTypeInv, StepTypeInv, StepFresh, PTL DEF Spec

-----------------------------------------------------------------------------
(* Sequences without duplicates.                                           *)
Elems(s) == {s[i] : i \in 1 .. Len(s)}
Distinct(s) == \A i, j \in 1 .. Len(s) : s[i] = s[j] => i = j

LEMMA TailDistinct ==
  ASSUME NEW S, NEW s \in Seq(S), s # << >>, Distinct(s)
  PROVE  /\ Distinct(Tail(s)) /\ Head(s) \in S
         /\ Elems(s) = Elems(Tail(s)) \cup {Head(s)} /\ Head(s) \notin Elems(Tail(s))
<1>1. /\ Len(s) \in Nat \ {0} /\ Len(Tail(s)) = Len(s) - 1 /\ Head(s) = s[1] /\ Head(s) \in S
      /\ \A i \in 1 .. Len(Tail(s)) : i + 1 \in 1 .. Len(s) /\ Tail(s)[i] = s[i + 1]
  OBVIOUS
<1>2. Distinct(Tail(s))
  <2> SUFFICES ASSUME NEW i \in 1 .. Len(Tail(s)), NEW j \in 1 .. Len(Tail(s)),
                      Tail(s)[i] = Tail(s)[j]
               PROVE  i = j
    BY DEF Distinct
  <2>1. i + 1 = j + 1
    BY <1>1 DEF Distinct
  <2> QED BY <2>1, <1>1
<1>3. ASSUME NEW c \in Elems(Tail(s)) PROVE c \in Elems(s) /\ c # Head(s)
  <2>1. PICK i \in 1 .. Len(Tail(s)) : c = s[i + 1] /\ i + 1 \in 1 .. Len(s)
    BY <1>1, <1>3 DEF Elems
  <2>2. 1 \in 1 .. Len(s) /\ i + 1 # 1
    BY <1>1
  <2> QED BY <2>1, <2>2, <1>1 DEF Elems, Distinct
<1>4. ASSUME NEW c \in Elems(s) PROVE c \in Elems(Tail(s)) \cup {Head(s)}
  <2>1. PICK i \in 1 .. Len(s) : c = s[i]
    BY <1>4 DEF Elems
  <2>2. CASE i = 1
    BY <2>1, <2>2, <1>1
  <2>3. CASE i # 1
    <3>1. i - 1 \in 1 .. Len(Tail(s)) /\ Tail(s)[i - 1] = s[i]
      BY <2>3, <1>1
    <3> QED BY <3>1, <2>1 DEF Elems
  <2> QED BY <2>2, <2>3
<1>5. Head(s) \in Elems(s)
  <2>1. 1 \in 1 .. Len(s)
    BY <1>1
  <2> QED BY <2>1, <1>1 DEF Elems
<1> QED BY <1>1, <1>2, <1>3, <1>4, <1>5

LEMMA AppendDistinct ==
  ASSUME NEW S, NEW s \in Seq(S), NEW c \in S, Distinct(s), c \notin Elems(s)
  PROVE  Distinct(Append(s, c)) /\ Elems(Append(s, c)) = Elems(s) \cup {c}
<1> DEFINE a == Append(s, c)
<1>1. /\ Len(s) \in Nat /\ Len(a) = Len(s) + 1 /\ a[Len(a)] = c
      /\ \A i \in 1 .. Len(s) : a[i] = s[i] /\ i \in 1 .. Len(a)
      /\ \A i \in 1 .. Len(a) : i \in 1 .. Len(s) \/ i = Len(a)
      /\ Len(a) \in 1 .. Len(a)
  OBVIOUS
<1> HIDE DEF a
<1>2. Distinct(a)
  BY <1>1 DEF Distinct, Elems
<1>3. Elems(a) = Elems(s) \cup {c}
  BY <1>1 DEF Elems
<1> QED BY <1>2, <1>3 DEF a

-----------------------------------------------------------------------------
(* Connections.  ConnectionsSound is inductive given the types.  It speaks *)
(* of one process at a time; here it is in terms of the pool's sequence.   *)
Sound(p, s, o, h) ==
  /\ o = Elems(s) \cup {c \in Conns : \E t \in ThreadsOf(p) : h[t].conn = c}
  /\ Distinct(s)
  /\ \A t \in ThreadsOf(p) : h[t].conn \notin Elems(s)
  /\ \A t, u \in ThreadsOf(p) : h[t].conn = h[u].conn /\ h[t].conn # None => t = u
PoolsSound == \A p \in Procs : Sound(p, pool[p], open[p], th)

LEMMA PoolsSoundDef == ConnectionsSound <=> PoolsSound
  BY DEF ConnectionsSound, PoolsSound, Sound, Elems, Distinct, Pooled, Holds

(* The steps that touch a connection are of four kinds, one lemma each:    *)
(* thread t takes a connection from the pool, opens one, puts one back, or *)
(* closes one.                                                             *)
OnlyConnOf(t, h) == \A u \in Threads \ {t} : h[u].conn = th[u].conn

LEMMA TakeSound ==
  ASSUME NEW t \in Threads, NEW p \in Procs, NEW s \in Seq(Conns), NEW o, NEW h,
         ProcOf[t] = p, Sound(p, s, o, th), OnlyConnOf(t, h), th[t].conn = None,
         s # << >>, h[t].conn = Head(s)
  PROVE  Sound(p, Tail(s), o, h)
<1>1. /\ Distinct(Tail(s)) /\ Head(s) \in Conns
      /\ Elems(s) = Elems(Tail(s)) \cup {Head(s)} /\ Head(s) \notin Elems(Tail(s))
  BY TailDistinct DEF Sound
<1>2. t \in ThreadsOf(p) /\ ThreadsOf(p) \subseteq Threads
  BY DEF ThreadsOf
<1>3. \A u \in ThreadsOf(p) \ {t} : h[u].conn = th[u].conn /\ h[u].conn # Head(s)
  BY <1>1, <1>2 DEF Sound, OnlyConnOf
<1>4. o = Elems(Tail(s)) \cup {c \in Conns : \E u \in ThreadsOf(p) : h[u].conn = c}
  BY <1>1, <1>2, <1>3, ConnsAssumption DEF Sound
<1> QED BY <1>1, <1>2, <1>3, <1>4 DEF Sound

LEMMA OpenSound ==
  ASSUME NEW t \in Threads, NEW p \in Procs, NEW s \in Seq(Conns), NEW o, NEW h,
         ProcOf[t] = p, Sound(p, s, o, th), OnlyConnOf(t, h), th[t].conn = None,
         NEW c \in Conns \ o, h[t].conn = c
  PROVE  Sound(p, s, o \cup {c}, h)
<1>1. t \in ThreadsOf(p) /\ ThreadsOf(p) \subseteq Threads
  BY DEF ThreadsOf
<1>2. c \notin Elems(s) /\ \A u \in ThreadsOf(p) : th[u].conn # c
  BY DEF Sound
<1>3. \A u \in ThreadsOf(p) \ {t} : h[u].conn = th[u].conn
  BY <1>1 DEF OnlyConnOf
<1>4. o \cup {c} = Elems(s) \cup {d \in Conns : \E u \in ThreadsOf(p) : h[u].conn = d}
  BY <1>1, <1>3, ConnsAssumption DEF Sound
<1> QED BY <1>1, <1>2, <1>3, <1>4 DEF Sound

LEMMA FreeSound ==
  ASSUME NEW t \in Threads, NEW p \in Procs, NEW s \in Seq(Conns), NEW o, NEW h,
         ProcOf[t] = p, Sound(p, s, o, th), OnlyConnOf(t, h),
         th[t].conn \in Conns, h[t].conn = None
  PROVE  Sound(p, Append(s, th[t].conn), o, h)
<1> DEFINE c == th[t].conn
<1>1. t \in ThreadsOf(p) /\ ThreadsOf(p) \subseteq Threads
  BY DEF ThreadsOf
<1>2. Distinct(Append(s, c)) /\ Elems(Append(s, c)) = Elems(s) \cup {c}
  <2>1. Distinct(s) /\ c \notin Elems(s)
    BY <1>1 DEF Sound
  <2> QED BY <2>1, AppendDistinct
<1>3. \A u \in ThreadsOf(p) \ {t} : h[u].conn = th[u].conn /\ h[u].conn # c
  <2>1. \A u \in ThreadsOf(p) \ {t} : h[u].conn = th[u].conn
    BY <1>1 DEF OnlyConnOf
  <2>2. \A u \in ThreadsOf(p) \ {t} : th[u].conn # c
    BY <1>1, ConnsAssumption DEF Sound
  <2> QED BY <2>1, <2>2
<1>4. None \notin Elems(s)
  BY ConnsAssumption DEF Elems
<1>5. o = Elems(Append(s, c)) \cup {d \in Conns : \E u \in ThreadsOf(p) : h[u].conn = d}
  <2>1. {d \in Conns : \E u \in ThreadsOf(p) : th[u].conn = d}
          = {d \in Conns : \E u \in ThreadsOf(p) : h[u].conn = d} \cup {c}
    BY <1>1, <1>3, ConnsAssumption
  <2>2. o = Elems(s) \cup {d \in Conns : \E u \in ThreadsOf(p) : th[u].conn = d}
    BY DEF Sound
  <2> QED BY <2>1, <2>2, <1>2
<1>6. \A u \in ThreadsOf(p) : h[u].conn \notin Elems(Append(s, c))
  BY <1>2, <1>3, <1>4, ConnsAssumption DEF Sound
<1>7. \A u, v \in ThreadsOf(p) : h[u].conn = h[v].conn /\ h[u].conn # None => u = v
  BY <1>3 DEF Sound
<1> QED BY <1>2, <1>5, <1>6, <1>7 DEF Sound

LEMMA RealFreeSound ==
  ASSUME NEW t \in Threads, NEW p \in Procs, NEW s \in Seq(Conns), NEW o, NEW h,
         ProcOf[t] = p, Sound(p, s, o, th), OnlyConnOf(t, h),
         th[t].conn \in Conns, h[t].conn = None
  PROVE  Sound(p, s, o \ {th[t].conn}, h)
<1> DEFINE c == th[t].conn
<1>1. t \in ThreadsOf(p) /\ ThreadsOf(p) \subseteq Threads
  BY DEF ThreadsOf
<1>2. c \notin Elems(s) /\ None \notin Elems(s)
  <2>1. c \notin Elems(s)
    BY <1>1 DEF Sound
  <2>2. None \notin Elems(s)
    BY ConnsAssumption DEF Elems
  <2> QED BY <2>1, <2>2
<1>3. \A u \in ThreadsOf(p) \ {t} : h[u].conn = th[u].conn /\ h[u].conn # c
  <2>1. \A u \in ThreadsOf(p) \ {t} : h[u].conn = th[u].conn
    BY <1>1 DEF OnlyConnOf
  <2>2. \A u \in ThreadsOf(p) \ {t} : th[u].conn # c
    BY <1>1, ConnsAssumption DEF Sound
  <2> QED BY <2>1, <2>2
<1>4. o \ {c} = Elems(s) \cup {d \in Conns : \E u \in ThreadsOf(p) : h[u].conn = d}
  BY <1>1, <1>2, <1>3, ConnsAssumption DEF Sound
<1>5. \A u \in ThreadsOf(p) : h[u].conn \notin Elems(s)
  BY <1>2, <1>3 DEF Sound
<1>6. \A u, v \in ThreadsOf(p) : h[u].conn = h[v].conn /\ h[u].conn # None => u = v
  BY <1>3 DEF Sound
<1> QED BY <1>4, <1>5, <1>6 DEF Sound

(* A process none of whose threads moves a connection stays as it is.      *)
LEMMA SameSound ==
  ASSUME NEW p, NEW s, NEW o, NEW h, Sound(p, s, o, th),
         \A u \in ThreadsOf(p) : h[u].conn = th[u].conn
  PROVE  Sound(p, s, o, h)
  BY DEF Sound

LEMMA StepSound == TypeInv /\ TypeInv' /\ PoolsSound /\ [Next]_vars => PoolsSound'
<1> SUFFICES ASSUME TypeInv, TypeInv', PoolsSound, [Next]_vars PROVE PoolsSound'
  OBVIOUS
<1> USE ProcOfAssumption
<1>t. /\ pool \in [Procs -> Seq(Conns)] /\ open \in [Procs -> SUBSET Conns]
      /\ th \in [Threads -> ThreadState] /\ th' \in [Threads -> ThreadState]
      /\ \A t \in Threads : /\ th[t] \in ThreadState /\ Placed(th[t]) /\ Placed(th'[t])
                           /\ th[t].conn \in Conns \cup {None}
  BY DEF TypeInv, TypeOK, ThreadState
(* The other processes do not notice what the pool and the handles of p do. *)
<1>p. ASSUME NEW t \in Threads, NEW p, p = ProcOf[t],
             OnlyConnOf(t, th'), Sound(p, pool'[p], open'[p], th'),
             \A r \in Procs \ {p} : pool'[r] = pool[r] /\ open'[r] = open[r]
      PROVE  PoolsSound'
  <2>1. ASSUME NEW r \in Procs \ {p} PROVE Sound(r, pool'[r], open'[r], th')
    <3>1. \A u \in ThreadsOf(r) : th'[u].conn = th[u].conn
      BY <1>p DEF ThreadsOf, OnlyConnOf
    <3> QED BY <3>1, <1>p, SameSound DEF PoolsSound
  <2>2. \A r \in Procs : Sound(r, pool'[r], open'[r], th')
    BY <2>1, <1>p
  <2> QED BY <2>2 DEF PoolsSound, Sound, ThreadsOf
<1>g. ASSUME NEW t \in Threads, NEW from, NEW rec, Goto(t, from, rec)
      PROVE  /\ th[t].pc = from /\ th'[t] = rec /\ OnlyConnOf(t, th')
             /\ ProcOf[t] \in Procs /\ Sound(ProcOf[t], pool[ProcOf[t]], open[ProcOf[t]], th)
             /\ pool[ProcOf[t]] \in Seq(Conns)
  BY <1>g, <1>t DEF Goto, OnlyConnOf, PoolsSound
(* No connection moves. *)
<1>k. ASSUME \A u \in Threads : th'[u].conn = th[u].conn, UNCHANGED <<pool, open>>
      PROVE  PoolsSound'
  <2>1. \A r \in Procs : Sound(r, pool'[r], open'[r], th')
    BY <1>k, SameSound DEF PoolsSound, ThreadsOf
  <2> QED BY <2>1 DEF PoolsSound, Sound, ThreadsOf
(* A thread that has no connection before and none after. *)
<1>n. ASSUME NEW t \in Threads, NEW from, NEW rec, Goto(t, from, rec),
             from \notin {"query", "pack"}, rec.pc \notin {"query", "pack"},
             UNCHANGED <<pool, open>>
      PROVE  PoolsSound'
  <2>1. th[t].pc = from /\ th'[t] = rec /\ OnlyConnOf(t, th')
    BY <1>n, <1>g
  <2>2. Placed(th[t]) /\ Placed(th'[t])
    BY <1>t
  <2>3. th[t].conn = None /\ th'[t].conn = None
    BY <2>1, <2>2, <1>n DEF Placed
  <2> QED BY <2>1, <2>3, <1>n, <1>k DEF OnlyConnOf
<1>s. \A t \in Threads : \A err : Answer(t, err).pc = "send" /\ Answer(t, err).conn = None
  BY <1>t DEF Answer, ThreadState
(* A connection goes back to the pool, or is closed. *)
<1>b. ASSUME NEW t \in Threads, NEW from, NEW rec, Goto(t, from, rec),
             from \in {"query", "pack"}, rec.conn = None,
             FreeMySQL(ProcOf[t], th[t].conn) \/ RealFreeMySQL(ProcOf[t], th[t].conn)
      PROVE  PoolsSound'
  <2> DEFINE p == ProcOf[t]
             c == th[t].conn
  <2>1. c \in Conns /\ th'[t].conn = None /\ p \in Procs
    BY <1>b, <1>g, <1>t DEF Placed
  <2>2. CASE FreeMySQL(p, c)
    <3>1. /\ pool'[p] = Append(pool[p], c) /\ open'[p] = open[p]
          /\ \A r \in Procs \ {p} : pool'[r] = pool[r] /\ open'[r] = open[r]
      BY <2>1, <2>2, <1>t DEF FreeMySQL
    <3>2. Sound(p, Append(pool[p], c), open[p], th')
      BY <2>1, <1>b, <1>g, FreeSound
    <3>3. Sound(p, pool'[p], open'[p], th') /\ OnlyConnOf(t, th')
      BY <3>1, <3>2, <1>b, <1>g
    <3> QED BY <3>1, <3>3, <1>p
  <2>3. CASE RealFreeMySQL(p, c)
    <3>1. /\ pool'[p] = pool[p] /\ open'[p] = open[p] \ {c}
          /\ \A r \in Procs \ {p} : pool'[r] = pool[r] /\ open'[r] = open[r]
      BY <2>1, <2>3, <1>t DEF RealFreeMySQL
    <3>2. Sound(p, pool[p], open[p] \ {c}, th')
      BY <2>1, <1>b, <1>g, RealFreeSound
    <3>3. Sound(p, pool'[p], open'[p], th') /\ OnlyConnOf(t, th')
      BY <3>1, <3>2, <1>b, <1>g
    <3> QED BY <3>1, <3>3, <1>p
  <2> QED BY <1>b, <2>2, <2>3
<1>1. ASSUME NEW t \in Threads, NEW q \in Queries, Receive(t, q) PROVE PoolsSound'
  <2> DEFINE rec == [IdleThread EXCEPT !.pc = "read", !.q = q, !.at = clock,
                       !.losses = UpTo(Cardinality(dead[ProcOf[t]]))]
  <2>1. rec.pc = "read"
    BY DEF IdleThread
  <2>2. Goto(t, "recv", rec) /\ UNCHANGED <<pool, open>>
    BY <1>1 DEF Receive
  <2> HIDE DEF rec
  <2> QED BY <2>1, <2>2, <1>n
<1>2. ASSUME NEW t \in Threads,
             Refuse(t) \/ InitMySQLFails(t) \/ WriteSkipped(t) \/ Write(t)
      PROVE  PoolsSound'
  <2>1. PICK from \in {"recv", "connect", "write"}, err \in {"refused", "ok"} :
          Goto(t, from, Answer(t, err))
    BY <1>2 DEF Refuse, InitMySQLFails, WriteSkipped, Write
  <2>2. UNCHANGED <<pool, open>>
    BY <1>2 DEF Refuse, InitMySQLFails, WriteSkipped, Write
  <2>3. Answer(t, err).pc = "send"
    BY <1>s
  <2> QED BY <2>1, <2>2, <2>3, <1>n
<1>3. ASSUME NEW t \in Threads, ReadHit(t) \/ ReadMiss(t) PROVE PoolsSound'
  <2> DEFINE hit == [th[t] EXCEPT !.pc = "test", !.entry = cache[KeyOf[th[t].q]]]
             miss == [th[t] EXCEPT !.pc = "alloc"]
  <2>1. hit.pc = "test" /\ miss.pc = "alloc"
    BY <1>t DEF ThreadState
  <2>2. UNCHANGED <<pool, open>> /\ (Goto(t, "read", hit) \/ Goto(t, "read", miss))
    BY <1>3 DEF ReadHit, ReadMiss
  <2> HIDE DEF hit, miss
  <2> QED BY <2>1, <2>2, <1>n
<1>4. ASSUME NEW t \in Threads, AllocNew(t) PROVE PoolsSound'
  <2> DEFINE rec == [th[t] EXCEPT !.pc = "connect"]
  <2>1. rec.pc = "connect"
    BY <1>t DEF ThreadState
  <2>2. Goto(t, "alloc", rec) /\ UNCHANGED <<pool, open>>
    BY <1>4 DEF AllocNew
  <2> HIDE DEF rec
  <2> QED BY <2>1, <2>2, <1>n
<1>5. ASSUME NEW t \in Threads, Test(t) PROVE PoolsSound'
  <2> DEFINE rec == [th[t] EXCEPT !.pc = "alloc", !.entry = None]
  <2>1. rec.pc = "alloc" /\ Answer(t, "ok").pc = "send"
    BY <1>s, <1>t DEF ThreadState
  <2>2. UNCHANGED <<pool, open>> /\ (Goto(t, "test", rec) \/ Goto(t, "test", Answer(t, "ok")))
    BY <1>5 DEF Test
  <2> HIDE DEF rec
  <2> QED BY <2>1, <2>2, <1>n
<1>6. ASSUME NEW t \in Threads, QueryRows(t) PROVE PoolsSound'
  <2>1. th'[t].conn = th[t].conn /\ OnlyConnOf(t, th') /\ UNCHANGED <<pool, open>>
    BY <1>6, <1>g, <1>t DEF QueryRows, ThreadState
  <2> QED BY <2>1, <1>k DEF OnlyConnOf
<1>7. ASSUME NEW t \in Threads, AllocPooled(t) PROVE PoolsSound'
  <2> DEFINE p == ProcOf[t]
             rec == [th[t] EXCEPT !.pc = "query", !.conn = Head(pool[p])]
  <2>1. Goto(t, "alloc", rec) /\ pool[p] # << >>
        /\ pool' = [pool EXCEPT ![p] = Tail(@)] /\ open' = open
    BY <1>7 DEF AllocPooled
  <2>2. rec.conn = Head(pool[p])
    BY <1>t DEF ThreadState
  <2>3. th[t].conn = None /\ th'[t].conn = Head(pool[p])
    <3>1. th[t].pc = "alloc" /\ th'[t] = rec
      BY <2>1, <1>g
    <3>2. Placed(th[t])
      BY <1>t
    <3> QED BY <3>1, <3>2, <2>2 DEF Placed
  <2>4. /\ pool'[p] = Tail(pool[p]) /\ open'[p] = open[p]
        /\ \A r \in Procs \ {p} : pool'[r] = pool[r] /\ open'[r] = open[r]
    BY <2>1, <1>t
  <2>5. Sound(p, Tail(pool[p]), open[p], th')
    BY <2>1, <2>3, <1>g, TakeSound
  <2>6. Sound(p, pool'[p], open'[p], th') /\ OnlyConnOf(t, th')
    BY <2>1, <2>4, <2>5, <1>g
  <2> QED BY <2>4, <2>6, <1>p
<1>8. ASSUME NEW t \in Threads, InitMySQL(t) PROVE PoolsSound'
  <2> DEFINE p == ProcOf[t]
             Rec(c) == [th[t] EXCEPT !.pc = "query", !.conn = c]
  <2>1. PICK c \in Conns \ open[p] :
          /\ Goto(t, "connect", Rec(c))
          /\ open' = [open EXCEPT ![p] = @ \cup {c}] /\ pool' = pool
    BY <1>8 DEF InitMySQL
  <2>2. Rec(c).conn = c
    BY <1>t DEF ThreadState
  <2>3. th[t].conn = None /\ th'[t].conn = c
    <3>1. th[t].pc = "connect" /\ th'[t] = Rec(c)
      BY <2>1, <1>g
    <3>2. Placed(th[t])
      BY <1>t
    <3> QED BY <3>1, <3>2, <2>2 DEF Placed
  <2>4. /\ pool'[p] = pool[p] /\ open'[p] = open[p] \cup {c}
        /\ \A r \in Procs \ {p} : pool'[r] = pool[r] /\ open'[r] = open[r]
    BY <2>1, <1>t
  <2>5. Sound(p, pool[p], open[p] \cup {c}, th')
    BY <2>1, <2>3, <1>g, OpenSound
  <2>6. Sound(p, pool'[p], open'[p], th') /\ OnlyConnOf(t, th')
    BY <2>1, <2>4, <2>5, <1>g
  <2> QED BY <2>4, <2>6, <1>p
<1>9. ASSUME NEW t \in Threads, QueryError(t) \/ QueryNoRows(t) \/ PackFails(t)
      PROVE  PoolsSound'
  BY <1>9, <1>b, <1>s DEF QueryError, QueryNoRows, PackFails
<1>10. ASSUME NEW t \in Threads, QueryGone(t) PROVE PoolsSound'
  <2>1. Retry(t).conn = None
    BY <1>t DEF Retry, ThreadState
  <2> QED BY <2>1, <1>10, <1>b, <1>s DEF QueryGone
<1>11. ASSUME NEW t \in Threads, Pack(t) PROVE PoolsSound'
  <2> DEFINE rec == [th[t] EXCEPT !.pc = "write", !.conn = None,
                       !.entry = [q |-> th[t].q, time |-> clock]]
  <2>1. rec.conn = None
    BY <1>t DEF ThreadState
  <2>2. Goto(t, "pack", rec) /\ FreeMySQL(ProcOf[t], th[t].conn)
    BY <1>11 DEF Pack
  <2> HIDE DEF rec
  <2> QED BY <2>1, <2>2, <1>b
<1>12. ASSUME NEW t \in Threads, SendResponse(t) PROVE PoolsSound'
  <2>1. IdleThread.pc = "recv"
    BY DEF IdleThread
  <2> QED BY <2>1, <1>12, <1>n DEF SendResponse
<1>13. ASSUME NEW p \in Procs, NEW c \in Conns, Drop(p, c) PROVE PoolsSound'
  <2>1. \A t \in Threads : th'[t].conn = th[t].conn
    BY <1>13, <1>t DEF Drop, ThreadState
  <2> QED BY <2>1, <1>13, <1>k DEF Drop
<1>14. CASE Tick \/ UNCHANGED vars
  BY <1>14, <1>k DEF Tick, vars
<1> QED
  BY <1>1, <1>2, <1>3, <1>4, <1>5, <1>6, <1>7, <1>8, <1>9, <1>10, <1>11, <1>12, <1>13, <1>14
     DEF Next, Step

(* No MySQL connection has two users, is pooled twice, or is lost, however *)
(* AllocMySQL, FreeMySQL and RealFreeMySQL of the threads interleave and   *)
(* on whichever of its ways out ProcessRequest leaves.                     *)
THEOREM ConnectionsStaySound == Spec => []ConnectionsSound
<1>1. Init => PoolsSound
  <2> SUFFICES ASSUME Init, NEW p \in Procs PROVE Sound(p, pool[p], open[p], th)
    BY DEF PoolsSound
  <2>1. PICK c \in Conns :
          /\ pool = [r \in Procs |-> IF Procs = {r} THEN <<c>> ELSE << >>]
          /\ open = [r \in Procs |-> IF Procs = {r} THEN {c} ELSE {}]
    BY DEF Init
  <2>2. \A t \in ThreadsOf(p) : th[t].conn = None
    BY DEF Init, IdleThread, ThreadsOf
  <2>3. Elems(<<c>>) = {c} /\ Distinct(<<c>>) /\ Elems(<< >>) = {} /\ Distinct(<< >>)
    BY DEF Elems, Distinct
  <2>4. /\ open[p] = Elems(pool[p]) /\ Distinct(pool[p]) /\ open[p] \subseteq Conns
    BY <2>1, <2>3
  <2> QED BY <2>2, <2>4, ConnsAssumption DEF Sound
<1>2. PoolsSound => ConnectionsSound
  BY PoolsSoundDef
<1> QED BY <1>1, <1>2, InitTypeInv, StepTypeInv, StepSound, PTL DEF Spec

-----------------------------------------------------------------------------
(* Lost connections.  Why LossesSurvived holds: each retry has closed a    *)
(* dead connection, so the retries made and the dead connections that are  *)
(* left are together no more than the losses the request has met.          *)
Dead(t) == Cardinality(dead[ProcOf[t]])
LossesMet(h, n) ==
  /\ h.pc \notin {"recv", "send"} => UpTo(h.try + n) <= h.losses
  /\ h.err = "gone" => h.losses > MaxTry
LossInv == \A t \in Threads : LossesMet(th[t], Dead(t))

LEMMA UpToMono == \A m, n \in Nat : m <= n => UpTo(m) <= UpTo(n)
  BY NumbersAssumption DEF UpTo

LEMMA LossesMetMono ==
  ASSUME NEW h \in ThreadState, NEW m \in Nat, NEW n \in Nat, m <= n, LossesMet(h, n)
  PROVE  LossesMet(h, m)
<1>1. h.try \in Nat /\ h.try + m \in Nat /\ h.try + n \in Nat /\ h.losses \in Nat
      /\ h.try + m <= h.try + n
  BY NumbersAssumption DEF ThreadState
<1>2. UpTo(h.try + m) <= UpTo(h.try + n) /\ UpTo(h.try + m) \in Nat /\ UpTo(h.try + n) \in Nat
  BY <1>1, UpToMono, UpToType, NumbersAssumption
<1> QED BY <1>1, <1>2 DEF LossesMet

LEMMA StepLosses == TypeInv /\ TypeInv' /\ LossInv /\ [Next]_vars => LossInv'
<1> SUFFICES ASSUME TypeInv, TypeInv', LossInv, [Next]_vars PROVE LossInv'
  OBVIOUS
<1> USE NumbersAssumption, ProcOfAssumption
<1>t. /\ dead \in [Procs -> SUBSET Conns] /\ dead' \in [Procs -> SUBSET Conns]
      /\ th \in [Threads -> ThreadState] /\ th' \in [Threads -> ThreadState]
      /\ \A t \in Threads : /\ th[t] \in ThreadState /\ Placed(th[t])
                           /\ LossesMet(th[t], Dead(t))
                           /\ th[t].try \in 0 .. MaxTry /\ th[t].losses \in 0 .. MaxTry + 1
  BY DEF TypeInv, TypeOK, LossInv, ThreadState
<1>d. \A p \in Procs : IsFiniteSet(dead[p]) /\ Cardinality(dead[p]) \in Nat
  BY <1>t, ConnsAssumption, FS_Subset, FS_CardinalityType
<1>i. (\A t \in Threads : LossesMet(th'[t], Cardinality(dead'[ProcOf[t]]))) => LossInv'
  BY DEF LossInv, LossesMet, Dead, UpTo
(* The dead connections stay the same; the counts of the thread that moves *)
(* do too. *)
<1>k. ASSUME NEW t \in Threads, NEW from, NEW rec, Goto(t, from, rec), dead' = dead,
             rec.try = th[t].try, rec.losses = th[t].losses, rec.err = th[t].err,
             from \notin {"recv", "send"}
      PROVE  LossInv'
  <2>1. th[t].pc = from /\ th'[t] = rec /\ \A u \in Threads \ {t} : th'[u] = th[u]
    BY <1>k, <1>t DEF Goto
  <2>2. LossesMet(rec, Dead(t))
    BY <2>1, <1>k, <1>t DEF LossesMet
  <2> QED BY <2>1, <2>2, <1>k, <1>t, <1>i DEF Dead
(* It does not matter how many connections of a process are no longer dead. *)
<1>o. ASSUME NEW t \in Threads, NEW from, NEW rec, Goto(t, from, rec),
             \A p \in Procs : dead'[p] \subseteq dead[p],
             LossesMet(rec, Cardinality(dead'[ProcOf[t]]))
      PROVE  LossInv'
  <2>1. th'[t] = rec /\ \A u \in Threads \ {t} : th'[u] = th[u]
    BY <1>o, <1>t DEF Goto
  <2>2. ASSUME NEW u \in Threads \ {t}
        PROVE  LossesMet(th'[u], Cardinality(dead'[ProcOf[u]]))
    <3>1. /\ Cardinality(dead'[ProcOf[u]]) \in Nat
          /\ Cardinality(dead'[ProcOf[u]]) <= Cardinality(dead[ProcOf[u]])
      BY <1>o, <1>d, FS_Subset, FS_CardinalityType
    <3> QED BY <3>1, <2>1, <1>t, <1>d, LossesMetMono DEF Dead
  <2> QED BY <2>1, <2>2, <1>o, <1>i
<1>r. ASSUME NEW p \in Procs, NEW c, FreeMySQL(p, c) \/ RealFreeMySQL(p, c)
      PROVE  \A r \in Procs : dead'[r] \subseteq dead[r]
  <2>1. CASE FreeMySQL(p, c)
    BY <2>1 DEF FreeMySQL
  <2>2. CASE RealFreeMySQL(p, c)
    BY <2>2, <1>t DEF RealFreeMySQL
  <2> QED BY <1>r, <2>1, <2>2
<1>s. \A t \in Threads : \A err : /\ Answer(t, err).pc = "send" /\ Answer(t, err).err = err
                                 /\ Answer(t, err).losses = th[t].losses
  BY <1>t DEF Answer, ThreadState
(* An answer of another kind. *)
<1>a. ASSUME NEW t \in Threads, NEW from, NEW err, Goto(t, from, Answer(t, err)), err # "gone",
             \A p \in Procs : dead'[p] \subseteq dead[p]
      PROVE  LossInv'
  <2>1. \A n : LossesMet(Answer(t, err), n)
    BY <1>a, <1>s DEF LossesMet
  <2> QED BY <2>1, <1>a, <1>o
<1>1. ASSUME NEW t \in Threads, NEW q \in Queries, Receive(t, q) PROVE LossInv'
  <2> DEFINE n == Cardinality(dead[ProcOf[t]])
             rec == [IdleThread EXCEPT !.pc = "read", !.q = q, !.at = clock, !.losses = UpTo(n)]
  <2>1. rec.try = 0 /\ rec.losses = UpTo(n) /\ rec.err = "none"
    BY DEF IdleThread
  <2>2. Goto(t, "recv", rec) /\ dead' = dead
    BY <1>1 DEF Receive
  <2>3. n \in Nat /\ UpTo(n) \in Nat /\ 0 + n = n
    BY <1>d, UpToType
  <2> HIDE DEF rec, n
  <2>4. LossesMet(rec, n)
    BY <2>1, <2>3 DEF LossesMet
  <2> QED BY <2>2, <2>4, <1>o DEF n
<1>2. ASSUME NEW t \in Threads,
             Refuse(t) \/ InitMySQLFails(t) \/ WriteSkipped(t) \/ Write(t)
      PROVE  LossInv'
  BY <1>2, <1>a DEF Refuse, InitMySQLFails, WriteSkipped, Write
<1>3. ASSUME NEW t \in Threads, QueryError(t) \/ QueryNoRows(t) \/ PackFails(t)
      PROVE  LossInv'
  BY <1>3, <1>a, <1>r DEF QueryError, QueryNoRows, PackFails
<1>4. ASSUME NEW t \in Threads, ReadHit(t) PROVE LossInv'
  <2> DEFINE rec == [th[t] EXCEPT !.pc = "test", !.entry = cache[KeyOf[th[t].q]]]
  <2>1. rec.try = th[t].try /\ rec.losses = th[t].losses /\ rec.err = th[t].err
    BY <1>t DEF ThreadState
  <2>2. Goto(t, "read", rec) /\ dead' = dead
    BY <1>4 DEF ReadHit
  <2> HIDE DEF rec
  <2> QED BY <2>1, <2>2, <1>k
<1>5. ASSUME NEW t \in Threads, ReadMiss(t) PROVE LossInv'
  <2> DEFINE rec == [th[t] EXCEPT !.pc = "alloc"]
  <2>1. rec.try = th[t].try /\ rec.losses = th[t].losses /\ rec.err = th[t].err
    BY <1>t DEF ThreadState
  <2>2. Goto(t, "read", rec) /\ dead' = dead
    BY <1>5 DEF ReadMiss
  <2> HIDE DEF rec
  <2> QED BY <2>1, <2>2, <1>k
<1>6. ASSUME NEW t \in Threads, Test(t) PROVE LossInv'
  <2> DEFINE rec == [th[t] EXCEPT !.pc = "alloc", !.entry = None]
  <2>1. rec.try = th[t].try /\ rec.losses = th[t].losses /\ rec.err = th[t].err
    BY <1>t DEF ThreadState
  <2>2. dead' = dead /\ (Goto(t, "test", rec) \/ Goto(t, "test", Answer(t, "ok")))
    BY <1>6 DEF Test
  <2> HIDE DEF rec
  <2> QED BY <2>1, <2>2, <1>k, <1>a
<1>7. ASSUME NEW t \in Threads, AllocPooled(t) PROVE LossInv'
  <2> DEFINE rec == [th[t] EXCEPT !.pc = "query", !.conn = Head(pool[ProcOf[t]])]
  <2>1. rec.try = th[t].try /\ rec.losses = th[t].losses /\ rec.err = th[t].err
    BY <1>t DEF ThreadState
  <2>2. Goto(t, "alloc", rec) /\ dead' = dead
    BY <1>7 DEF AllocPooled
  <2> HIDE DEF rec
  <2> QED BY <2>1, <2>2, <1>k
<1>8. ASSUME NEW t \in Threads, AllocNew(t) PROVE LossInv'
  <2> DEFINE rec == [th[t] EXCEPT !.pc = "connect"]
  <2>1. rec.try = th[t].try /\ rec.losses = th[t].losses /\ rec.err = th[t].err
    BY <1>t DEF ThreadState
  <2>2. Goto(t, "alloc", rec) /\ dead' = dead
    BY <1>8 DEF AllocNew
  <2> HIDE DEF rec
  <2> QED BY <2>1, <2>2, <1>k
<1>9. ASSUME NEW t \in Threads, InitMySQL(t) PROVE LossInv'
  <2> DEFINE Rec(c) == [th[t] EXCEPT !.pc = "query", !.conn = c]
  <2>1. PICK c \in Conns : Goto(t, "connect", Rec(c)) /\ dead' = dead
    BY <1>9 DEF InitMySQL
  <2>2. Rec(c).try = th[t].try /\ Rec(c).losses = th[t].losses /\ Rec(c).err = th[t].err
    BY <1>t DEF ThreadState
  <2> HIDE DEF Rec
  <2> QED BY <2>1, <2>2, <1>k
<1>10. ASSUME NEW t \in Threads, QueryRows(t) PROVE LossInv'
  <2> DEFINE rec == [th[t] EXCEPT !.pc = "pack"]
  <2>1. rec.try = th[t].try /\ rec.losses = th[t].losses /\ rec.err = th[t].err
    BY <1>t DEF ThreadState
  <2>2. Goto(t, "query", rec) /\ dead' = dead
    BY <1>10 DEF QueryRows
  <2> HIDE DEF rec
  <2> QED BY <2>1, <2>2, <1>k
<1>11. ASSUME NEW t \in Threads, QueryGone(t) PROVE LossInv'
  <2> DEFINE p == ProcOf[t]
             c == th[t].conn
  <2>1. /\ th[t].pc = "query" /\ th[t].err = "none" /\ c \in dead[p] /\ p \in Procs
        /\ dead' = [dead EXCEPT ![p] = @ \ {c}]
    BY <1>11, <1>t DEF QueryGone, RealFreeMySQL, Alive, Goto, Placed
  <2>2. /\ Cardinality(dead'[p]) = Dead(t) - 1 /\ Cardinality(dead'[p]) \in Nat
        /\ Dead(t) \in Nat \ {0}
    <3>1. dead'[p] = dead[p] \ {c}
      BY <2>1, <1>t
    <3>2. IsFiniteSet(dead'[p]) /\ Cardinality(dead'[p]) \in Nat
      <4>1. IsFiniteSet(dead[p]) /\ dead'[p] \subseteq dead[p]
        BY <3>1, <2>1, <1>d
      <4>2. IsFiniteSet(dead'[p])
        BY <4>1, FS_Subset
      <4> QED BY <4>2, FS_CardinalityType
    <3>3. dead[p] = dead'[p] \cup {c} /\ c \notin dead'[p]
      BY <3>1, <2>1
    <3>4. Cardinality(dead[p]) = Cardinality(dead'[p]) + 1
      BY <3>2, <3>3, FS_AddElement
    <3> QED BY <3>2, <3>4 DEF Dead
  <2>3. UpTo(th[t].try + Dead(t)) <= th[t].losses
    BY <2>1, <1>t DEF LossesMet
  <2>4. \A r \in Procs : dead'[r] \subseteq dead[r]
    BY <2>1, <1>11, <1>r DEF QueryGone
  <2>5. CASE th[t].try < MaxTry
    <3>1. /\ Retry(t).pc = "alloc" /\ Retry(t).try = th[t].try + 1
          /\ Retry(t).losses = th[t].losses /\ Retry(t).err = th[t].err
      BY <1>t DEF Retry, ThreadState
    <3>2. Retry(t).try + Cardinality(dead'[p]) = th[t].try + Dead(t)
      <4>1. th[t].try \in Nat /\ Dead(t) \in Nat
        BY <2>2, <1>t
      <4>2. \A x, y, z \in Nat : z = y - 1 => (x + 1) + z = x + y
        OBVIOUS
      <4>3. Cardinality(dead'[p]) = Dead(t) - 1 /\ Cardinality(dead'[p]) \in Nat
        BY <2>2
      <4>4. (th[t].try + 1) + Cardinality(dead'[p]) = th[t].try + Dead(t)
        BY <4>1, <4>2, <4>3
      <4> QED BY <4>4, <3>1
    <3>3. LossesMet(Retry(t), Cardinality(dead'[p]))
      BY <3>1, <3>2, <2>1, <2>3 DEF LossesMet
    <3>4. Goto(t, "query", Retry(t))
      BY <2>5, <1>11 DEF QueryGone
    <3> QED BY <3>3, <3>4, <2>4, <1>o
  <2>6. CASE ~(th[t].try < MaxTry)
    <3>1. th[t].losses > MaxTry
      BY <2>2, <2>3, <2>6, <1>t DEF UpTo
    <3>2. LossesMet(Answer(t, "gone"), Cardinality(dead'[p]))
      BY <3>1, <1>s DEF LossesMet
    <3>3. Goto(t, "query", Answer(t, "gone"))
      BY <2>6, <1>11 DEF QueryGone
    <3> QED BY <3>2, <3>3, <2>4, <1>o
  <2> QED BY <2>5, <2>6
<1>12. ASSUME NEW t \in Threads, Pack(t) PROVE LossInv'
  <2> DEFINE rec == [th[t] EXCEPT !.pc = "write", !.conn = None,
                       !.entry = [q |-> th[t].q, time |-> clock]]
  <2>1. rec.try = th[t].try /\ rec.losses = th[t].losses /\ rec.err = th[t].err
    BY <1>t DEF ThreadState
  <2>2. Goto(t, "pack", rec) /\ dead' = dead
    BY <1>12 DEF Pack, FreeMySQL
  <2> HIDE DEF rec
  <2> QED BY <2>1, <2>2, <1>k
<1>13. ASSUME NEW t \in Threads, SendResponse(t) PROVE LossInv'
  <2>1. \A n : LossesMet(IdleThread, n)
    BY DEF LossesMet, IdleThread
  <2>2. Goto(t, "send", IdleThread) /\ dead' = dead
    BY <1>13 DEF SendResponse
  <2> QED BY <2>1, <2>2, <1>o
<1>14. ASSUME NEW p \in Procs, NEW c \in Conns, Drop(p, c) PROVE LossInv'
  <2>1. /\ dead'[p] = dead[p] \cup {c} /\ c \notin dead[p]
        /\ \A r \in Procs \ {p} : dead'[r] = dead[r]
    BY <1>14, <1>t DEF Drop
  <2>2. Cardinality(dead'[p]) = Cardinality(dead[p]) + 1
    <3>1. IsFiniteSet(dead[p])
      BY <1>d
    <3>2. c \notin dead[p] /\ dead'[p] = dead[p] \cup {c}
      BY <2>1
    <3>3. Cardinality(dead[p] \cup {c}) = Cardinality(dead[p]) + 1
      BY <3>1, <3>2, FS_AddElement, Zenon
    <3> QED BY <3>2, <3>3
  <2>3. ASSUME NEW t \in Threads PROVE LossesMet(th'[t], Cardinality(dead'[ProcOf[t]]))
    <3>1. CASE ProcOf[t] = p /\ th[t].pc # "recv"
      <4>1. th'[t] = [th[t] EXCEPT !.losses = UpTo(th[t].losses + 1)]
        BY <3>1, <1>14 DEF Drop
      <4>2. /\ th'[t].pc = th[t].pc /\ th'[t].err = th[t].err /\ th'[t].try = th[t].try
            /\ th'[t].losses = UpTo(th[t].losses + 1)
        BY <4>1, <1>t DEF ThreadState
      <4>3. th[t].losses > MaxTry => UpTo(th[t].losses + 1) > MaxTry
        BY <1>t DEF UpTo
      <4>4. /\ Dead(t) \in Nat /\ Cardinality(dead'[ProcOf[t]]) = Dead(t) + 1
        BY <3>1, <2>2, <1>d DEF Dead
      <4>5. UpTo(th[t].try + Dead(t)) <= th[t].losses
              => UpTo(th[t].try + (Dead(t) + 1)) <= UpTo(th[t].losses + 1)
        BY <4>4, <1>t DEF UpTo
      <4> QED BY <4>2, <4>3, <4>4, <4>5, <1>t DEF LossesMet
    <3>2. CASE ProcOf[t] # p
      BY <3>2, <2>1, <1>14, <1>t DEF Drop, Dead
    <3>3. CASE ProcOf[t] = p /\ th[t].pc = "recv"
      BY <3>3, <1>14, <1>t DEF Drop, LossesMet
    <3> QED BY <3>1, <3>2, <3>3
  <2> QED BY <2>3, <1>i
<1>15. CASE Tick \/ UNCHANGED vars
  <2>1. th' = th /\ dead' = dead
    BY <1>15 DEF Tick, vars
  <2> QED BY <2>1, <1>t, <1>i DEF Dead
<1> QED
  BY <1>1, <1>2, <1>3, <1>4, <1>5, <1>6, <1>7, <1>8, <1>9, <1>10, <1>11, <1>12, <1>13, <1>14,
     <1>15 DEF Next, Step

(* A request gives up for a lost connection only after more losses than    *)
(* max_try_num: the retries of ProcessRequest are not used up by anything  *)
(* else, whatever the other threads do with the pool.                      *)
THEOREM RetriesSuffice == Spec => []LossesSurvived
<1>1. Init => LossInv
  BY DEF Init, LossInv, LossesMet, IdleThread
<1>2. LossInv => LossesSurvived
  BY DEF LossInv, LossesMet, LossesSurvived
<1> QED BY <1>1, <1>2, InitTypeInv, StepTypeInv, StepLosses, PTL DEF Spec
=============================================================================
