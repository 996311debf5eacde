------------------------------- MODULE MCShared -------------------------------
(* The structures that threads or processes share, the write lock, and the *)
(* tree of the Key-N-Value library, side by side: one is chosen at the     *)
(* start, and the others rest.                                             *)
(* ObjPool with two threads and three objects, enough for a head that      *)
(* leaves the free list and returns with another successor.  MemPool with  *)
(* three sizes and two threads that use the smallest pool, or the largest, *)
(* to which the quota of the others moves; and with three threads and a    *)
(* quota of one, which two of them exceed by racing while the third        *)
(* shrinks their pool.  AttrApi with three attributes for the two cells    *)
(* that each may use, so that the third has to wait for a value of zero.   *)
(* TrafficCtl with one process and two workers, or two of one.  ShmLock    *)
(* with a process of two threads and two of one.  KnvTree from an empty    *)
(* message, one with a meta field and a child with a key, and one that     *)
(* cannot be read to its end; the values need one and two bytes, and the   *)
(* texts make the length of a message around them cross from one to two.   *)
EXTENDS ObjPool, MemPool, AttrApi, TrafficCtl, ShmLock, KnvTree

CONSTANTS Modes, p1, p2, p3, t1, t2, t3, t4, o1, o2, o3, a1, a2, a3

VARIABLE which

MCThreads == {t1, t2}
MCObjs == {o1, o2, o3}
MCSizes == <<1, 2, 4>>
MCUsers == {t1, t2, t3}
Pair(x, y, n) == [quota |-> 4, wants |-> t1 :> x @@ t2 :> y, most |-> n,
               calls |-> [t \in MCUsers |-> -1]]
MCCases ==
  {Pair(0, 1, 3), Pair(3, 3, 2),
   [quota |-> 1, wants |-> t1 :> 1 @@ t2 :> 1 @@ t3 :> 2, most |-> 2,
    calls |-> t1 :> 2 @@ t2 :> 1 @@ t3 :> 1],
   [quota |-> 4, wants |-> t1 :> 5, most |-> 1, calls |-> [t \in MCUsers |-> 1]]}
MCAttrs == {a1, a2, a3}
MCCellOf == a1 :> <<11, 22>> @@ a2 :> <<11, 21>> @@ a3 :> <<11, 21>>
MCServers == {p1}
MCSenders == MCServers \X {1, 2}
TwoServers == {p1, p2}
TwoSenders == TwoServers \X {1}
MCProcs == {p1, p2, p3}
MCWorkerThreads == {t1, t2, t3, t4}
MCProcOf == t1 :> p1 @@ t2 :> p1 @@ t3 :> p2 @@ t4 :> p3
Symmetry == Permutations(MCObjs)

I(n) == [k |-> "int", n |-> n]
T(n) == [k |-> "text", n |-> n]
F(tag, v) == [tag |-> tag, val |-> v]
M(fs) == [k |-> "msg", fs |-> fs]
MCKeyVals == {I(1)}
MCFieldVals == {I(200), T(121), M(<<F(1, I(1)), F(11, I(1))>>)}
MCInserts == {<<I(1), EmptyMessage, TRUE>>} \cup
             {<<NoKey, v, v.k # "int">> : v \in MCFieldVals}
MCTrees == {EmptyMessage, M(<<F(2, I(1)), F(11, M(<<F(1, I(1)), F(11, T(118))>>))>>),
            [k |-> "cut", fs |-> <<F(11, I(1))>>]}

Init ==
  /\ which \in Modes
  /\ PoolInit /\ MemInit /\ AttrInit /\ TrafficInit /\ LockInit /\ KnvInit
  /\ which # "mem" => case = Pair(0, 1, 3)
  /\ which # "knv" => nodes[Root].val = EmptyMessage
Next ==
  /\ UNCHANGED which
  /\ \/ /\ which = "obj" /\ PoolNext
        /\ UNCHANGED <<memVars, attrVars, trafficVars, lockVars, knvVars>>
     \/ /\ which = "mem" /\ MemNext
        /\ UNCHANGED <<poolVars, attrVars, trafficVars, lockVars, knvVars>>
     \/ /\ which = "attr" /\ AttrNext
        /\ UNCHANGED <<poolVars, memVars, trafficVars, lockVars, knvVars>>
     \/ /\ which = "traffic" /\ TrafficNext
        /\ UNCHANGED <<poolVars, memVars, attrVars, lockVars, knvVars>>
     \/ /\ which = "lock" /\ LockNext
        /\ UNCHANGED <<poolVars, memVars, attrVars, trafficVars, knvVars>>
     \/ /\ which = "knv" /\ KnvNext
        /\ UNCHANGED <<poolVars, memVars, attrVars, trafficVars, lockVars>>
allVars == <<which, poolVars, memVars, attrVars, trafficVars, lockVars, knvVars>>
Spec == Init /\ [][Next]_allVars
=============================================================================
