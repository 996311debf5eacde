----------------------------- MODULE ProxyServer -----------------------------
(***************************************************************************)
(* How the proxy handles requests: ProcessRequest and the pool of MySQL    *)
(* connections (src/mysql_proxy_server.cpp), over the shared cache.        *)
(*                                                                         *)
(* A thread serves one client connection, one request after the other: it  *)
(* looks in the cache, and unless it finds a result that is young enough   *)
(* it takes a connection from the pool of its process or opens one, runs   *)
(* the query, packs and caches the rows, and answers.  The MySQL server    *)
(* may drop any connection at any time; a request that meets a dropped     *)
(* connection discards it and tries again.                                 *)
(*                                                                         *)
(* The cache is what its users see of it: an entry may be missed, be       *)
(* evicted by any write, or not be written at all, because the lock is     *)
(* taken (ShmLock) or because SetData fails or does not store              *)
(* (MultiHashTable).  A hit is an entry of its own key: the moment in      *)
(* which a reader meets another key's value (the exception in              *)
(* TakeoverNoticed of MultiHashTable) is left out.                         *)
(***************************************************************************)
EXTENDS Naturals, Sequences, FiniteSets

CONSTANTS
  Procs, Threads,
  ProcOf,        \* ProcOf[t]: the child process thread t is of
  Queries,       \* SELECT, SHOW and DESC statements
  Keys, KeyOf,   \* KeyOf[q]: GetReqHashKey(q), the statement cut to a length
  Conns,         \* MYSQL handles
  MaxTry,        \* max_try_num (10 in the code)
  ValidSeconds,  \* stConfig.iCacheValidSeconds
  MaxTime,       \* bound of the clock
  None           \* no handle, no cache entry

ASSUME ProcOfAssumption == ProcOf \in [Threads -> Procs]
ASSUME KeyOfAssumption == KeyOf \in [Queries -> Keys]
ASSUME NumbersAssumption == MaxTry \in Nat /\ ValidSeconds \in Nat /\ MaxTime \in Nat \ {0}
ASSUME ConnsAssumption == IsFiniteSet(Conns) /\ None \notin Conns

VARIABLES
  clock,  \* time(NULL)
  cache,  \* cache[k]: the entry under k
  pool,   \* vstMySQLPool of each process
  open,   \* the handles of each process that are connected
  dead,   \* those of them whose connection the server has dropped
  th      \* the threads: their place in ProcessRequest and their locals

vars == <<clock, cache, pool, open, dead, th>>

ThreadsOf(p) == {t \in Threads : ProcOf[t] = p}
Pooled(p) == {pool[p][i] : i \in 1 .. Len(pool[p])}

(* A packed result: the statement it answers and the time in its field 2.  *)
Entry == [q : Queries, time : 0 .. MaxTime]

(* at and losses are history: when the request arrived, and how many       *)
(* connections of the process were dead then or have died since (counted   *)
(* up to MaxTry + 1).                                                      *)
IdleThread ==
  [pc |-> "recv", q |-> None, conn |-> None, try |-> 0, entry |-> None,
   err |-> "none", at |-> 0, losses |-> 0]
UpTo(n) == IF n > MaxTry THEN MaxTry + 1 ELSE n

(* ProxyInit connects once to test the configuration; a single child       *)
(* inherits the connection, several children start without any.            *)
Init ==
  /\ clock = 1 /\ cache = [k \in Keys |-> None]
  /\ \E c \in Conns :
       /\ pool = [p \in Procs |-> IF Procs = {p} THEN <<c>> ELSE << >>]
       /\ open = [p \in Procs |-> IF Procs = {p} THEN {c} ELSE {}]
  /\ dead = [p \in Procs |-> {}]
  /\ th = [t \in Threads |-> IdleThread]

-----------------------------------------------------------------------------
(* The pool.  Put and Get of ConcurrentQueue hold its mutex.               *)
FreeMySQL(p, c) ==
  /\ pool' = [pool EXCEPT ![p] = Append(@, c)]
  /\ UNCHANGED <<open, dead>>

RealFreeMySQL(p, c) ==
  /\ open' = [open EXCEPT ![p] = @ \ {c}]
  /\ dead' = [dead EXCEPT ![p] = @ \ {c}]
  /\ UNCHANGED pool

-----------------------------------------------------------------------------
(* A request.                                                              *)
Goto(t, from, rec) == th[t].pc = from /\ th' = [th EXCEPT ![t] = rec]
Answer(t, err) ==
  [th[t] EXCEPT !.pc = "send", !.err = err, !.conn = None, !.try = 0]

(* ParsePacket passes on the request of a registered application.          *)
Receive(t, q) ==
  /\ Goto(t, "recv", [IdleThread EXCEPT !.pc = "read", !.q = q, !.at = clock,
       !.losses = UpTo(Cardinality(dead[ProcOf[t]]))])
  /\ UNCHANGED <<clock, cache, pool, open, dead>>

(* Refused with error 1: an unregistered application, a text that does not *)
(* decrypt, a statement of another kind.                                   *)
Refuse(t) ==
  /\ Goto(t, "recv", Answer(t, "refused"))
  /\ UNCHANGED <<clock, cache, pool, open, dead>>

(* UcStorage::Read.                                                        *)
ReadHit(t) ==
  /\ th[t].pc = "read" /\ cache[KeyOf[th[t].q]] # None
  /\ Goto(t, "read", [th[t] EXCEPT !.pc = "test", !.entry = cache[KeyOf[th[t].q]]])
  /\ UNCHANGED <<clock, cache, pool, open, dead>>
ReadMiss(t) ==
  /\ Goto(t, "read", [th[t] EXCEPT !.pc = "alloc"])
  /\ UNCHANGED <<clock, cache, pool, open, dead>>

(* Mutant of Outdated: the time of the entry is not looked at.             *)
OutdatedIgnored(e) == FALSE

(* The entry has no time, or one too long ago.                             *)
Outdated(e) == e.time = 0 \/ e.time + ValidSeconds < clock
Test(t) ==
  /\ th[t].pc = "test"
  /\ Goto(t, "test", IF Outdated(th[t].entry)
                     THEN [th[t] EXCEPT !.pc = "alloc", !.entry = None]
                     ELSE Answer(t, "ok"))
  /\ UNCHANGED <<clock, cache, pool, open, dead>>

(* Mutant of AllocPooled: the connection stays in the queue.               *)
AllocPooledKept(t) ==
  LET p == ProcOf[t] IN
  /\ pool[p] # << >>
  /\ Goto(t, "alloc", [th[t] EXCEPT !.pc = "query", !.conn = Head(pool[p])])
  /\ UNCHANGED <<clock, cache, pool, open, dead>>

(* AllocMySQL: the connection that has been in the pool for longest, or a  *)
(* new one.                                                                *)
AllocPooled(t) ==
  LET p == ProcOf[t] IN
  /\ pool[p] # << >>
  /\ Goto(t, "alloc", [th[t] EXCEPT !.pc = "query", !.conn = Head(pool[p])])
  /\ pool' = [pool EXCEPT ![p] = Tail(@)]
  /\ UNCHANGED <<clock, cache, open, dead>>
AllocNew(t) ==
  /\ pool[ProcOf[t]] = << >>
  /\ Goto(t, "alloc", [th[t] EXCEPT !.pc = "connect"])
  /\ UNCHANGED <<clock, cache, pool, open, dead>>

(* InitMySQL.                                                              *)
InitMySQL(t) ==
  LET p == ProcOf[t] IN
  \E c \in Conns \ open[p] :
    /\ Goto(t, "connect", [th[t] EXCEPT !.pc = "query", !.conn = c])
    /\ open' = [open EXCEPT ![p] = @ \cup {c}]
    /\ UNCHANGED <<clock, cache, pool, dead>>
InitMySQLFails(t) ==
  /\ Goto(t, "connect", Answer(t, "refused"))
  /\ UNCHANGED <<clock, cache, pool, open, dead>>

(* mysql_query and mysql_store_result.  An error of mysql_query, which is  *)
(* never negative, shows up as a missing result of mysql_store_result.     *)
Alive(t) == th[t].conn \notin dead[ProcOf[t]]
QueryRows(t) ==
  /\ Alive(t)
  /\ Goto(t, "query", [th[t] EXCEPT !.pc = "pack"])
  /\ UNCHANGED <<clock, cache, pool, open, dead>>

(* An error of the server: the connection is still good.                   *)
QueryError(t) ==
  /\ Alive(t)
  /\ Goto(t, "query", Answer(t, "server"))
  /\ FreeMySQL(ProcOf[t], th[t].conn)
  /\ UNCHANGED <<clock, cache>>

(* Neither rows nor an error of the server or of the connection: an error  *)
(* of the client library, or none at all, and then the answer's error      *)
(* number is 0 although it carries no rows.                                *)
QueryNoRows(t) ==
  /\ Alive(t)
  /\ \E err \in {"client", "norows"} : Goto(t, "query", Answer(t, err))
  /\ RealFreeMySQL(ProcOf[t], th[t].conn)
  /\ UNCHANGED <<clock, cache>>

(* The connection is gone: once more with another, up to MaxTry times.     *)
Retry(t) == [th[t] EXCEPT !.pc = "alloc", !.conn = None, !.try = @ + 1]

(* Mutants of QueryGone: the connection goes back to the pool; retries are *)
(* not counted.                                                            *)
QueryGonePooled(t) ==
  /\ ~Alive(t)
  /\ Goto(t, "query", IF th[t].try < MaxTry THEN Retry(t) ELSE Answer(t, "gone"))
  /\ FreeMySQL(ProcOf[t], th[t].conn)
  /\ UNCHANGED <<clock, cache>>
QueryGoneUncounted(t) ==
  /\ ~Alive(t)
  /\ Goto(t, "query", [Retry(t) EXCEPT !.try = th[t].try])
  /\ RealFreeMySQL(ProcOf[t], th[t].conn)
  /\ UNCHANGED <<clock, cache>>

QueryGone(t) ==
  /\ ~Alive(t)
  /\ Goto(t, "query", IF th[t].try < MaxTry THEN Retry(t) ELSE Answer(t, "gone"))
  /\ RealFreeMySQL(ProcOf[t], th[t].conn)
  /\ UNCHANGED <<clock, cache>>

(* PackResult stamps the rows with the time; the connection is free again. *)
Pack(t) ==
  /\ Goto(t, "pack", [th[t] EXCEPT !.pc = "write", !.conn = None,
       !.entry = [q |-> th[t].q, time |-> clock]])
  /\ FreeMySQL(ProcOf[t], th[t].conn)
  /\ UNCHANGED <<clock, cache>>
PackFails(t) ==
  /\ Goto(t, "pack", Answer(t, "memory"))
  /\ FreeMySQL(ProcOf[t], th[t].conn)
  /\ UNCHANGED <<clock, cache>>

(* TryLockShm fails: the rows are not cached.                              *)
WriteSkipped(t) ==
  /\ Goto(t, "write", Answer(t, "ok"))
  /\ UNCHANGED <<clock, cache, pool, open, dead>>

(* UcStorage::Write: any other entries may be evicted, stored or not.      *)
Write(t) ==
  /\ Goto(t, "write", Answer(t, "ok"))
  /\ \E gone \in SUBSET (Keys \ {KeyOf[th[t].q]}), e \in {th[t].entry, cache[KeyOf[th[t].q]]} :
       cache' = [k \in Keys |-> IF k \in gone THEN None
                                ELSE IF k = KeyOf[th[t].q] THEN e ELSE cache[k]]
  /\ UNCHANGED <<clock, pool, open, dead>>

(* SendResponse, and back to recv in Worker.                               *)
SendResponse(t) ==
  /\ Goto(t, "send", IdleThread)
  /\ UNCHANGED <<clock, cache, pool, open, dead>>

-----------------------------------------------------------------------------
(* The server drops a connection: a restart, a timeout.                    *)
Drop(p, c) ==
  /\ c \in open[p] \ dead[p]
  /\ dead' = [dead EXCEPT ![p] = @ \cup {c}]
  /\ th' = [t \in Threads |->
       IF ProcOf[t] = p /\ th[t].pc # "recv"
       THEN [th[t] EXCEPT !.losses = UpTo(@ + 1)] ELSE th[t]]
  /\ UNCHANGED <<clock, cache, pool, open>>

Tick ==
  /\ clock < MaxTime /\ clock' = clock + 1
  /\ UNCHANGED <<cache, pool, open, dead, th>>

Step(t) ==
  \/ ReadHit(t) \/ ReadMiss(t) \/ Test(t)
  \/ AllocPooled(t) \/ AllocNew(t) \/ InitMySQL(t) \/ InitMySQLFails(t)
  \/ QueryRows(t) \/ QueryError(t) \/ QueryNoRows(t) \/ QueryGone(t)
  \/ Pack(t) \/ PackFails(t) \/ WriteSkipped(t) \/ Write(t) \/ SendResponse(t)
Next ==
  \/ \E t \in Threads : (\E q \in Queries : Receive(t, q)) \/ Refuse(t) \/ Step(t)
  \/ \E p \in Procs, c \in Conns : Drop(p, c)
  \/ Tick

Spec == Init /\ [][Next]_vars

(* A thread that handles a request keeps running, and the calls of the     *)
(* MySQL library it makes return.                                          *)
FairSpec == Spec /\ \A t \in Threads : WF_vars(Step(t))

-----------------------------------------------------------------------------
(* Properties.                                                             *)
Place == {"recv", "read", "test", "alloc", "connect", "query", "pack", "write", "send"}
Outcome == {"none", "ok", "refused", "server", "client", "norows", "gone", "memory"}
ThreadState ==
  [pc : Place, q : Queries \cup {None}, conn : Conns \cup {None}, try : 0 .. MaxTry,
   entry : Entry \cup {None}, err : Outcome, at : 0 .. MaxTime,
   losses : 0 .. MaxTry + 1]

(* Types; in particular no request tries more than MaxTry times again.     *)
TypeOK ==
  /\ clock \in 0 .. MaxTime
  /\ cache \in [Keys -> Entry \cup {None}]
  /\ pool \in [Procs -> Seq(Conns)]
  /\ open \in [Procs -> SUBSET Conns] /\ dead \in [Procs -> SUBSET Conns]
  /\ th \in [Threads -> ThreadState]

Holds(t, c) == th[t].conn = c

(* A MYSQL handle must not be used by two threads at once, and one that is *)
(* neither pooled nor in use is lost: in every process each connected      *)
(* handle is in the pool, once, or in the hands of one thread, and nothing *)
(* else is.                                                                *)
ConnectionsSound ==
  \A p \in Procs :
    /\ open[p] = Pooled(p) \cup {c \in Conns : \E t \in ThreadsOf(p) : Holds(t, c)}
    /\ \A i, j \in 1 .. Len(pool[p]) : pool[p][i] = pool[p][j] => i = j
    /\ \A t \in ThreadsOf(p) : th[t].conn \notin Pooled(p)
    /\ \A t, u \in ThreadsOf(p) : th[t].conn = th[u].conn /\ th[t].conn # None => t = u

(* The retries of ProcessRequest get it past a restart of the server: a    *)
(* request fails for a lost connection only if more connections than       *)
(* max_try_num were dead when it arrived or died while it was handled.     *)
LossesSurvived ==
  \A t \in Threads : th[t].err = "gone" => th[t].losses > MaxTry

(* CACHE_VALID_SECONDS: rows that are sent were packed at most that long   *)
(* before the request arrived, whichever thread packed them and in         *)
(* whichever order the threads wrote them.                                 *)
AnswerFresh ==
  \A t \in Threads : th[t].err = "ok" => th[t].entry.time + ValidSeconds >= th[t].at

(* "string key = 1; // query sql statement" (mysql_proxy_server.cpp:688):  *)
(* the key under which a result is cached is its statement, so the rows    *)
(* that answer a request are the rows of its statement.                    *)
AnswerOwn ==
  \A t \in Threads : th[t].err = "ok" => th[t].entry.q = th[t].q

(* Every request is dealt with, up to the call that sends its answer,      *)
(* however often connections drop.                                         *)
RequestsEnd == \A t \in Threads : (th[t].pc # "recv") ~> (th[t].pc = "recv")
=============================================================================
