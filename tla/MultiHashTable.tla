---------------------------- MODULE MultiHashTable ----------------------------
(***************************************************************************)
(* The index of the shared-memory cache: src/ht/multi_hash_table.cc, over  *)
(* the block store it keeps its values in.                                 *)
(*                                                                         *)
(* A key may sit in one node of each row.  SetData, under the mutex, finds *)
(* its node, evicts old nodes when index or data space runs out, stores    *)
(* the value and then fills in the node field by field.  GetData takes no  *)
(* lock: it reads the fields of a node while they change.  Every store to  *)
(* a field that a reader loads is a step of its own.                       *)
(***************************************************************************)
EXTENDS BlockStore, Sequences, FiniteSets

CONSTANTS
  Keys, NoKey,
  KeyOf,       \* KeyOf[it]: the key that item it is a value of
  HashOf,      \* HashOf[k]: hashfunc(k)
  LenOf,       \* LenOf[k]: the length of k
  CommonOf,    \* CommonOf[k][q]: how many leading bytes k and q have in common
  RowsNodeNum, \* header->auRowsNodeNum, as a sequence
  UsageLimit,  \* erase condition 1, in percent of the blocks (95 in the code)
  EraseScan,   \* how many nodes erase condition 3 compares (100 in the code)
  MaxTime,     \* bound of the clock
  Readers

(* No key is the beginning of another.                                     *)
ASSUME CommonAssumption ==
  \A k \in Keys, q \in Keys : k # q => CommonOf[k][q] < LenOf[k]

VARIABLES
  node,           \* the index nodes: MhtNode
  maxUsedRow,     \* header->ddwMaxUsedRow
  eraseIterator,  \* header->ddwEraseIterator
  clock,          \* time(NULL)
  w,              \* the writer: its place in SetData / EraseData and its locals
  reader          \* the threads in GetData

indexVars == <<node, maxUsedRow, eraseIterator>>
vars == <<storeVars, indexVars, clock, w, reader>>

-----------------------------------------------------------------------------
(* Layout.                                                                 *)
RowNum == Len(RowsNodeNum)
Rows == 1 .. RowNum                      \* row 0 of the code is row 1 here
RowsStartNode[r \in Rows] ==
  IF r = 1 THEN 0 ELSE RowsStartNode[r - 1] + RowsNodeNum[r - 1]
NodeNum == RowsStartNode[RowNum] + RowsNodeNum[RowNum]
Nodes == 0 .. NodeNum - 1
None == -1                               \* a NULL MhtNode pointer

NodeAt(k, r) == RowsStartNode[r] + (HashOf[k] % RowsNodeNum[r])

(* memset of a node: the header is zeroed, the bytes of the key stay.      *)
Erased(n) == [n EXCEPT !.pos = NoItem, !.hash = 0, !.time = 0, !.klen = 0]
IsEmpty(n) == node[n].pos = NoItem                  \* is_hnode_empty

(* cKeyLen has 8 bits, in the node and as the argument of hnode_cmp.       *)
CKeyLen(k) == LenOf[k] % 256

(* hnode_cmp: the lengths modulo 256, then that many leading bytes.        *)
SameBytes(k, q, len) == len = 0 \/ q = k \/ (q # NoKey /\ CommonOf[k][q] >= len)
SameKey(k, n) ==
  node[n].klen = CKeyLen(k) /\ SameBytes(k, node[n].key, CKeyLen(k))

UsagePercent == 100 - (free * 100) \div AllBlockCount   \* lt.GetUsage()

(* Search: the first row that holds k, or 0.                               *)
FoundRow(k) ==
  LET hits == {r \in 1 .. maxUsedRow : LET n == NodeAt(k, r) IN
                 ~IsEmpty(n) /\ node[n].hash = HashOf[k] /\ SameKey(k, n)}
  IN IF hits = {} THEN 0 ELSE CHOOSE r \in hits : \A q \in hits : r <= q
Searched(k) == 1 .. (IF FoundRow(k) = 0 THEN maxUsedRow ELSE FoundRow(k) - 1)
Found(k) == IF FoundRow(k) = 0 THEN None ELSE NodeAt(k, FoundRow(k))

(* ppEmptyNode, piEmptyRow: the first empty node on the path or, when the  *)
(* path has none and k was not found, the node in the row after it.        *)
EmptyRow(k) ==
  LET rows == {r \in Searched(k) : IsEmpty(NodeAt(k, r))} IN
  IF rows # {} THEN CHOOSE r \in rows : \A q \in rows : r <= q
  ELSE IF FoundRow(k) = 0 /\ maxUsedRow < RowNum THEN maxUsedRow + 1 ELSE 0
EmptyNode(k) == IF EmptyRow(k) = 0 THEN None ELSE NodeAt(k, EmptyRow(k))

(* ppOldestNode: the least recently used node on the path.                 *)
Oldest(k) ==
  LET rows == {r \in Searched(k) : ~IsEmpty(NodeAt(k, r))}
      Older(r, q) == \/ node[NodeAt(k, r)].time < node[NodeAt(k, q)].time
                     \/ node[NodeAt(k, r)].time = node[NodeAt(k, q)].time /\ r <= q
  IN IF rows = {} THEN None
     ELSE NodeAt(k, CHOOSE r \in rows : \A q \in rows : Older(r, q))
-----------------------------------------------------------------------------
IdleWriter ==
  [pc |-> "idle", key |-> NoKey, item |-> NoItem, auto |-> FALSE, data |-> None,
   empty |-> None, row |-> 0, oldest |-> None, victim |-> None, pos |-> NoItem,
   ret |-> 0, before |-> NoItem]
IdleReader ==
  [pc |-> "idle", key |-> NoKey, n |-> None, pos |-> NoItem, moved |-> 0, got |-> NoItem]

Init ==
  /\ StoreInit
  /\ node = [n \in Nodes |->
       [pos |-> NoItem, hash |-> 0, time |-> 0, klen |-> 0, key |-> NoKey]]
  /\ maxUsedRow = 1 /\ eraseIterator = 0 /\ clock = 1
  /\ w = IdleWriter
  /\ reader = [r \in Readers |-> IdleReader]

(* The value a caller finds for k.                                         *)
Lookup(k) == IF Found(k) = None THEN NoItem ELSE node[Found(k)].pos

(* An item is written once; it may be written again when it is forgotten.  *)
Fresh(it) ==
  /\ it \notin stored
  /\ \A n \in Nodes : node[n].pos # it
  /\ \A r \in Readers : reader[r].pos # it /\ reader[r].got # it

(* The call ends and the mutex is released.                                *)
Return(r) == w' = [w EXCEPT !.pc = "ret", !.ret = r]

(* SetData up to erase condition 2: lock, Search, erase condition 1.       *)
SetData(it, auto) ==
  LET k == KeyOf[it] IN
  /\ w.pc = "idle" /\ Fresh(it)
  /\ w' = [IdleWriter EXCEPT
       !.pc = IF auto /\ Oldest(k) # None /\ UsagePercent > UsageLimit
              THEN "erase1" ELSE "place",
       !.key = k, !.item = it, !.auto = auto, !.data = Found(k), !.empty = EmptyNode(k),
       !.row = EmptyRow(k), !.oldest = Oldest(k), !.before = Lookup(k)]
  /\ UNCHANGED <<storeVars, indexVars, clock, reader>>

(* Mutant of EraseVictim: the node goes, its chain stays.                  *)
EraseVictimKept(pc, n, next) ==
  /\ w.pc = pc
  /\ w' = [w EXCEPT !.pc = next, !.victim = n]
  /\ UNCHANGED <<storeVars, indexVars, clock, reader>>

(* lt.EraseData of a victim; its node is cleared by the next step.         *)
EraseVictim(pc, n, next) ==
  /\ w.pc = pc
  /\ EraseStored(node[n].pos)
  /\ w' = [w EXCEPT !.pc = next, !.victim = n]
  /\ UNCHANGED <<indexVars, clock, reader>>

ClearVictim(next) ==
  /\ node' = [node EXCEPT ![w.victim] = Erased(@)]
  /\ w' = next
  /\ UNCHANGED <<storeVars, maxUsedRow, eraseIterator, clock, reader>>

Erase1 == EraseVictim("erase1", w.oldest, "clear1")
Clear1 ==
  /\ w.pc = "clear1"
  /\ ClearVictim([w EXCEPT !.pc = "place", !.victim = None, !.oldest = None,
       !.empty = IF @ = None THEN w.oldest ELSE @,
       !.row = IF w.empty = None THEN 1 ELSE @])

(* Erase condition 2: no index node for a new key.                         *)
Place ==
  /\ w.pc = "place"
  /\ w.data # None \/ w.empty # None
  /\ w' = [w EXCEPT !.pc = "set",
       !.data = IF @ = None THEN w.empty ELSE @,
       !.empty = IF w.data = None THEN @ ELSE None]
  /\ UNCHANGED <<storeVars, indexVars, clock, reader>>
NoNode == w.pc = "place" /\ w.data = None /\ w.empty = None
PlaceFails ==
  /\ NoNode /\ (~w.auto \/ w.oldest = None)
  /\ Return(IF w.auto THEN -6 ELSE -5)
  /\ UNCHANGED <<storeVars, indexVars, clock, reader>>
Erase2 == NoNode /\ w.auto /\ w.oldest # None /\ EraseVictim("place", w.oldest, "clear2")
Clear2 ==
  /\ w.pc = "clear2"
  /\ ClearVictim([w EXCEPT !.pc = "place", !.victim = None, !.oldest = None,
       !.empty = w.oldest, !.row = 1])

(* lt.SetData succeeds, with the whole item or a torn one.                 *)
Store ==
  /\ w.pc = "set"
  /\ LET old == node[w.data].pos IN SetStored(old, w.item) \/ SetTorn(old, w.item)
  /\ w' = [w EXCEPT !.pc = "pos", !.pos = w.item]
  /\ UNCHANGED <<indexVars, clock, reader>>
StoreFails ==
  /\ w.pc = "set"
  /\ \E n \in 1 .. SizeOf[w.item] : SetShort(w.item, n)
  /\ Return(-8)
  /\ UNCHANGED <<indexVars, clock, reader>>

(* lt.SetData returns -100.                                                *)
NoSpaceFails ==
  /\ w.pc = "set" /\ ~w.auto
  /\ SetNoSpace(w.item)
  /\ Return(-9)
  /\ UNCHANGED <<indexVars, clock, reader>>

(* The oldest node of the path goes; EraseData returned 0 into ret, so the *)
(* "continue" leaves the loop with the position the node had before.       *)
Erase3 ==
  /\ w.auto /\ w.oldest # None /\ SizeOf[w.item] > empty
  /\ EraseVictim("set", w.oldest, "clear3")
Clear3 ==
  /\ w.pc = "clear3"
  /\ ClearVictim([w EXCEPT !.pc = "pos", !.victim = None, !.oldest = None,
       !.pos = node[w.data].pos])

(* Mutant of Candidates: the node being written may be the victim.         *)
CandidatesAll(m) == {(eraseIterator + d) % NodeNum : d \in 0 .. m - 1} \cap
                    {n \in Nodes : ~IsEmpty(n)}

(* SearchAndEraseOldestOne: from the erase iterator on, up to EraseScan    *)
(* nodes other than the one being written are compared.                    *)
Visited(m) == {(eraseIterator + d) % NodeNum : d \in 0 .. m - 1}
Candidates(m) == {n \in Visited(m) : n # w.data /\ ~IsEmpty(n)}
ScanLength ==
  CHOOSE m \in 1 .. NodeNum :
    /\ Cardinality(Candidates(m)) = EraseScan \/ m = NodeNum
    /\ \A q \in 1 .. m - 1 : Cardinality(Candidates(q)) # EraseScan
Distance(n) == (n - eraseIterator + NodeNum) % NodeNum
OldestOf(S) ==
  CHOOSE n \in S : \A q \in S :
    \/ node[n].time < node[q].time
    \/ node[n].time = node[q].time /\ Distance(n) <= Distance(q)

(* Mutant: SetData tries again although nothing could be evicted.          *)
SearchAndEraseOldestOneIgnored ==
  /\ w.pc = "set" /\ w.auto /\ w.oldest = None /\ SizeOf[w.item] > empty
  /\ eraseIterator' = (eraseIterator + ScanLength) % NodeNum
  /\ LET S == Candidates(ScanLength) IN
     IF S = {}
     THEN UNCHANGED <<storeVars, w>>
     ELSE /\ EraseStored(node[OldestOf(S)].pos)
          /\ w' = [w EXCEPT !.pc = "clear4", !.victim = OldestOf(S)]
  /\ UNCHANGED <<node, maxUsedRow, clock, reader>>

SearchAndEraseOldestOne ==
  /\ w.pc = "set" /\ w.auto /\ w.oldest = None /\ SizeOf[w.item] > empty
  /\ eraseIterator' = (eraseIterator + ScanLength) % NodeNum
  /\ LET S == Candidates(ScanLength) IN
     IF S = {}
     THEN Return(-11) /\ UNCHANGED storeVars
     ELSE /\ EraseStored(node[OldestOf(S)].pos)
          /\ w' = [w EXCEPT !.pc = "clear4", !.victim = OldestOf(S)]
  /\ UNCHANGED <<node, maxUsedRow, clock, reader>>
Clear4 == w.pc = "clear4" /\ ClearVictim([w EXCEPT !.pc = "set", !.victim = None])

(* The node is filled in: the position first, for a new key then its hash  *)
(* and time, its length and its bytes, and last the highest row in use.    *)
PublishPos ==
  /\ w.pc = "pos"
  /\ node' = [node EXCEPT ![w.data].pos = w.pos]
  /\ w' = IF w.empty = None THEN [w EXCEPT !.pc = "ret", !.ret = 0]
          ELSE [w EXCEPT !.pc = "hash"]
  /\ reader' = [r \in Readers |->
       IF w.empty # None /\ reader[r].n = w.data /\ reader[r].moved < 2
       THEN [reader[r] EXCEPT !.moved = @ + 1] ELSE reader[r]]
  /\ UNCHANGED <<storeVars, maxUsedRow, eraseIterator, clock>>
Publish(pc, n, next) ==
  /\ w.pc = pc
  /\ node' = [node EXCEPT ![w.data] = n]
  /\ w' = [w EXCEPT !.pc = next]
  /\ UNCHANGED <<storeVars, maxUsedRow, eraseIterator, clock, reader>>
PublishHash ==
  Publish("hash", [node[w.data] EXCEPT !.hash = HashOf[w.key], !.time = clock], "klen")
PublishLen == Publish("klen", [node[w.data] EXCEPT !.klen = CKeyLen(w.key)], "key")
PublishKey == Publish("key", [node[w.data] EXCEPT !.key = w.key], "row")

(* Mutant of PublishRow: ddwMaxUsedRow is never raised.                    *)
PublishRowForgotten ==
  /\ w.pc = "row"
  /\ Return(0)
  /\ UNCHANGED <<storeVars, indexVars, clock, reader>>

PublishRow ==
  /\ w.pc = "row"
  /\ maxUsedRow' = IF w.row > maxUsedRow THEN w.row ELSE maxUsedRow
  /\ Return(0)
  /\ UNCHANGED <<storeVars, node, eraseIterator, clock, reader>>

(* EraseData(k): the chain goes to the ring, then the node is cleared.     *)
EraseData(k) ==
  /\ w.pc = "idle" /\ Found(k) # None
  /\ EraseStored(node[Found(k)].pos)
  /\ w' = [IdleWriter EXCEPT !.pc = "clear", !.key = k, !.victim = Found(k)]
  /\ UNCHANGED <<indexVars, clock, reader>>
ClearErased ==
  w.pc = "clear" /\ ClearVictim([w EXCEPT !.pc = "ret", !.ret = 1, !.victim = None])

Returned ==
  /\ w.pc = "ret" /\ w' = IdleWriter
  /\ UNCHANGED <<storeVars, indexVars, clock, reader>>
-----------------------------------------------------------------------------
(* GetData, without a lock.  A key that is not found changes nothing.      *)
ReaderFrame == UNCHANGED <<storeVars, maxUsedRow, eraseIterator, clock, w>>

(* moved, a history variable, counts up to two how often the node the      *)
(* reader found was given to another key since; two at once if Search      *)
(* found the node while it was being given away.                           *)
HalfPublished(n) == w.data = n /\ w.pc \in {"hash", "klen", "key"}
ReadSearch(r, k) ==
  /\ reader[r].pc = "idle" /\ Found(k) # None
  /\ reader' = [reader EXCEPT ![r] = [IdleReader EXCEPT !.pc = "time", !.key = k,
       !.n = Found(k), !.moved = IF HalfPublished(Found(k)) THEN 2 ELSE 0]]
  /\ UNCHANGED node /\ ReaderFrame
ReadTime(r) ==
  /\ reader[r].pc = "time"
  /\ node' = [node EXCEPT ![reader[r].n].time = clock]
  /\ reader' = [reader EXCEPT ![r].pc = "pos"]
  /\ ReaderFrame
ReadPos(r) ==
  /\ reader[r].pc = "pos"
  /\ reader' = [reader EXCEPT ![r].pc = "cmp", ![r].pos = node[reader[r].n].pos]
  /\ UNCHANGED node /\ ReaderFrame

(* Mutant of ReadCompare: the key is not compared again.                   *)
ReadCompareSkipped(r) ==
  /\ reader[r].pc = "cmp"
  /\ reader' = [reader EXCEPT ![r].pc = "data"]
  /\ UNCHANGED node /\ ReaderFrame

(* "conflict detection": -3 when the node's key is not k any more.         *)
ReadCompare(r) ==
  /\ reader[r].pc = "cmp"
  /\ reader' = [reader EXCEPT ![r] =
       IF SameKey(reader[r].key, reader[r].n) THEN [@ EXCEPT !.pc = "data"] ELSE IdleReader]
  /\ UNCHANGED node /\ ReaderFrame

(* lt.GetData: an item still in the table is read whole (LinkTable's       *)
(* ReaderProtected); of position 0 and of a freed item nothing is said.    *)
ReadData(r) ==
  /\ reader[r].pc = "data"
  /\ reader' = [reader EXCEPT ![r].pc = "done",
       ![r].got = IF reader[r].pos \in stored THEN reader[r].pos ELSE NoItem]
  /\ UNCHANGED node /\ ReaderFrame
ReadReturn(r) ==
  /\ reader[r].pc = "done"
  /\ reader' = [reader EXCEPT ![r] = IdleReader]
  /\ UNCHANGED node /\ ReaderFrame

Tick ==
  /\ clock < MaxTime /\ clock' = clock + 1
  /\ UNCHANGED <<storeVars, indexVars, w, reader>>

WriterStep ==
  \/ Erase1 \/ Clear1 \/ Place \/ PlaceFails \/ Erase2 \/ Clear2
  \/ Store \/ StoreFails \/ NoSpaceFails \/ Erase3 \/ Clear3
  \/ SearchAndEraseOldestOne \/ Clear4
  \/ PublishPos \/ PublishHash \/ PublishLen \/ PublishKey \/ PublishRow
  \/ ClearErased \/ Returned
Writer ==
  \/ \E it \in Items, auto \in BOOLEAN : SetData(it, auto)
  \/ \E k \in Keys : EraseData(k)
  \/ WriterStep
Reader(r) ==
  \/ \E k \in Keys : ReadSearch(r, k)
  \/ ReadTime(r) \/ ReadPos(r) \/ ReadCompare(r) \/ ReadData(r) \/ ReadReturn(r)
Next == Writer \/ Tick \/ \E r \in Readers : Reader(r)

Spec == Init /\ [][Next]_vars

(* The thread that holds the mutex keeps running.                          *)
FairSpec == Spec /\ WF_vars(WriterStep)
-----------------------------------------------------------------------------
(* Properties.                                                             *)
NodeState ==
  [pos : Items \cup {NoItem}, hash : Nat, time : 0 .. MaxTime, klen : Nat,
   key : Keys \cup {NoKey}]

(* Types; in particular every node, row and iterator is one of the table.  *)
TypeOK ==
  /\ StoreTypeOK
  /\ node \in [Nodes -> NodeState]
  /\ maxUsedRow \in Rows /\ eraseIterator \in Nodes /\ clock \in 0 .. MaxTime
  /\ w.key \in Keys \cup {NoKey} /\ w.item \in Items \cup {NoItem}
  /\ {w.data, w.empty, w.oldest, w.victim} \subseteq Nodes \cup {None}
  /\ w.row \in Rows \cup {0} /\ w.ret \in {0, 1, -5, -6, -8, -9, -11}

Quiet == w.pc \in {"idle", "ret"}
Used == {n \in Nodes : ~IsEmpty(n)}

(* Between calls the index is sound: every used node is the one Search     *)
(* finds for its key, holds a value of that key which is stored and not on *)
(* its way out, and no two nodes share a value.                            *)
IndexSound ==
  Quiet => \A n \in Used :
    /\ Found(node[n].key) = n
    /\ node[n].pos \in Live /\ KeyOf[node[n].pos] = node[n].key
    /\ \A q \in Used : node[q].pos = node[n].pos => q = n

(* Between calls nothing stored is lost: every live item is in the index.  *)
NothingLost ==
  Quiet => \A it \in Live : \E n \in Used : node[n].pos = it

(* A SetData that fails has not cost its key the value it had: eviction    *)
(* never takes the node being written.  And it never fails for want of a   *)
(* node: "It is impossible to come here" (multi_hash_table.cc:567), since  *)
(* a new key finds an empty node on its path or an old one to replace.     *)
FailureKeepsValue ==
  w.pc = "ret" /\ w.item # NoItem /\ w.ret < 0 => w.ret # -6 /\ Lookup(w.key) = w.before

(* "0 -- success" (multi_hash_table.h:196): after SetData returned 0 the   *)
(* key has the new value.                                                  *)
SetDataStores ==
  w.pc = "ret" /\ w.item # NoItem /\ w.ret = 0 => Lookup(w.key) = w.item

(* The conflict detection of GetData (multi_hash_table.cc:403), as far as  *)
(* it goes: when Search found the key in a complete node and the node was  *)
(* given away once since, to a key of another length, the comparison       *)
(* notices.  More takeovers, an incomplete node, lengths that are equal in *)
(* the 8 bits of cKeyLen, or a key of which they are 0, like the length of *)
(* an erased node, let another key's value through.                        *)
TakeoverNoticed ==
  \A r \in Readers : LET rd == reader[r] IN
    rd.got # NoItem /\ KeyOf[rd.got] # rd.key =>
      \/ rd.moved = 2
      \/ CKeyLen(rd.key) \in {0, CKeyLen(KeyOf[rd.got])}

(* A SetData or EraseData returns: the loop that evicts until the value    *)
(* fits comes to an end.                                                   *)
WriterReturns == (w.pc # "idle") ~> (w.pc = "idle")
=============================================================================
