------------------------------ MODULE LinkTable ------------------------------
(***************************************************************************)
(* The block store of the shared-memory cache: src/ht/link_table.cc.       *)
(*                                                                         *)
(* A value is cut into chunks, one per block; the blocks of a value form a *)
(* chain through ddwNext.  GetEmptyBlock takes blocks from a free list or, *)
(* failing that, by scanning the table; a replaced or erased chain waits   *)
(* in a ring (the recycle pool) before FreeBlock returns it to the free    *)
(* list, because readers walk chains without any lock.                     *)
(*                                                                         *)
(* One writer is active at a time (the caller holds the mutex of           *)
(* MultiHashTable); every loop iteration of the writer and of a reader is  *)
(* a step of its own, so a reader meets every intermediate state.          *)
(***************************************************************************)
EXTENDS Integers, FiniteSets

CONSTANTS
  AllBlockCount,    \* header->ddwAllBlockCount, ddwBlockCount - 1
  RecyclePoolSize,  \* header->dwRecyclePoolSize
  BufBlocks,        \* how many blocks a reader's buffer can take
  Items,            \* the values written; an item is one SetData call's data
  SizeOf,           \* SizeOf[it]: the number of blocks item it needs
  Slots,            \* the index nodes that hold a position in this table
  Readers,          \* the threads in MultiHashTable::GetData
  NoItem            \* owner of an empty block

ASSUME AllBlockCountAssumption == AllBlockCount \in Nat /\ AllBlockCount >= 2
ASSUME RecyclePoolSizeAssumption == RecyclePoolSize \in Nat \ {0}
ASSUME BufBlocksAssumption == BufBlocks \in Nat
ASSUME SizeOfAssumption == SizeOf \in [Items -> Nat \ {0}]
ASSUME NoItemAssumption == NoItem \notin Items

VARIABLES
  \* the blocks: position 0 is never handed out, 0 as a position means "none"
  next,       \* ddwNext
  owner,      \* whose chunk the block holds; NoItem iff ddwLengthInBlock = 0
  part,       \* which chunk of its item the block holds; 0 when empty
  \* the header
  freeCount,  \* ddwFreeBlockCount
  firstFree,  \* ddwFirstFreePos
  lastEmpty,  \* ddwLastEmpty
  recIdx,     \* ddwRecycleIndex
  pool,       \* addwRecyclePool
  \* the callers' handles: ddwLtPos of the index nodes
  root,
  \* the writer: where it is in SetData / EraseData, and its locals
  pc, slot, item, i, j, curPos, nextPos, startPos, left, ret,
  \* the readers
  reader,
  \* history: blocks collected by the running GetEmptyBlock; items whose
  \* SetData asked for more blocks than there were empty ones; the item each
  \* slot was last given by a successful SetData
  got, over, held

blockVars  == <<next, owner, part>>
headerVars == <<freeCount, firstFree, lastEmpty, recIdx, pool>>
writerVars == <<pc, slot, item, i, j, curPos, nextPos, startPos, left, ret>>
vars == <<blockVars, headerVars, root, writerVars, reader, got, over, held>>

Pos   == 0 .. AllBlockCount - 1
Block == 1 .. AllBlockCount - 1        \* "the first block (pos==0) is not used"

Empty(b) == owner[b] = NoItem
EmptyBlocks == {b \in Block : Empty(b)}

ReaderState ==
  [pc : {"idle", "walk", "done"}, item : Items \cup {NoItem}, cur : Pos,
   len : 0 .. BufBlocks, ok : BOOLEAN, age : 0 .. RecyclePoolSize]
IdleReader ==
  [pc |-> "idle", item |-> NoItem, cur |-> 0, len |-> 0, ok |-> TRUE, age |-> 0]

(* LinkTable::Init: the free list is empty, every block is found by scan.  *)
Init ==
  /\ next  = [p \in Pos |-> 0]
  /\ owner = [b \in Block |-> NoItem]
  /\ part  = [b \in Block |-> 0]
  /\ freeCount = AllBlockCount
  /\ firstFree = 0
  /\ lastEmpty = 1
  /\ recIdx = 0
  /\ pool = [k \in 0 .. RecyclePoolSize - 1 |-> 0]
  /\ root = [s \in Slots |-> 0]
  /\ pc = "idle" /\ slot \in Slots /\ item = NoItem
  /\ i = 0 /\ j = 0 /\ curPos = 0 /\ nextPos = 0 /\ startPos = 0 /\ left = 0
  /\ ret = 0
  /\ reader = [r \in Readers |-> IdleReader]
  /\ got = {} /\ over = {} /\ held = [s \in Slots |-> NoItem]

-----------------------------------------------------------------------------
(* The writer.                                                             *)

(* The locals of a finished call; they are dead.                           *)
ClearLocals ==
  /\ item' = NoItem /\ i' = 0 /\ j' = 0
  /\ curPos' = 0 /\ nextPos' = 0 /\ startPos' = 0 /\ left' = 0 /\ got' = {}

(* The call returns r to the caller, which keeps the slot's position.      *)
Fail(r) ==
  /\ pc' = "idle" /\ ret' = r /\ UNCHANGED slot
  /\ ClearLocals

(* An item is written once; it may be written again when nothing in the    *)
(* table and no reader remembers it.                                       *)
Fresh(it) ==
  /\ \A b \in Block : owner[b] # it
  /\ \A r \in Readers : reader[r].item # it

(* SetData up to the space check of GetEmptyBlock, which starts at the     *)
(* head of the free list.                                                  *)
SetData(s, it) ==
  /\ pc = "idle" /\ Fresh(it)
  /\ SizeOf[it] <= freeCount
  /\ pc' = "freelist" /\ slot' = s /\ item' = it /\ ret' = 0
  /\ i' = 0 /\ curPos' = firstFree /\ got' = {}
  /\ over' = {o \in over : ~Fresh(o)} \cup
             {o \in {it} : SizeOf[o] > Cardinality(EmptyBlocks)}
  /\ UNCHANGED <<blockVars, headerVars, root, held, reader, j, nextPos, startPos, left>>

(* "Not enough space": more blocks wanted than ddwFreeBlockCount.          *)
SetDataNoSpace(s, it) ==
  /\ pc = "idle"
  /\ SizeOf[it] > freeCount
  /\ ret' = -100 /\ slot' = s
  /\ UNCHANGED <<blockVars, headerVars, root, held, reader, pc, item, i, j, curPos,
                 nextPos, startPos, left, got, over>>

(* Mutant of FreeListUsable: ddwLengthInBlock is not looked at.             *)
FreeListUsableUnchecked == curPos \in Block

(* GetEmptyBlock, one iteration of the walk along the free list.           *)
FreeListUsable == curPos \in Block /\ Empty(curPos)
FreeListTake ==
  /\ pc = "freelist" /\ i < SizeOf[item] /\ FreeListUsable
  /\ i' = i + 1
  /\ next' = IF i + 1 = SizeOf[item] THEN [next EXCEPT ![curPos] = 0] ELSE next
  /\ curPos' = next[curPos]
  /\ got' = got \cup {curPos}
  /\ UNCHANGED <<owner, part, headerVars, root, held, reader, over, pc, slot, item, j,
                 nextPos, startPos, left, ret>>

FreeListFound ==
  /\ pc = "freelist" /\ i = SizeOf[item]
  /\ pc' = "copy"
  /\ startPos' = firstFree /\ nextPos' = firstFree /\ left' = SizeOf[item]
  /\ firstFree' = curPos
  /\ i' = 0 /\ curPos' = 0
  /\ UNCHANGED <<blockVars, freeCount, lastEmpty, recIdx, pool, root, held, reader,
                 got, over, slot, item, j, ret>>

FreeListMiss ==
  /\ pc = "freelist" /\ i < SizeOf[item] /\ ~FreeListUsable
  /\ pc' = "scan"
  /\ i' = 0 /\ j' = 0 /\ startPos' = 0 /\ curPos' = lastEmpty /\ got' = {}
  /\ UNCHANGED <<blockVars, headerVars, root, held, reader, over, slot, item, nextPos,
                 left, ret>>

(* Mutant of ScanStep: the positions visited are not counted.              *)
ScanStepUncounted ==
  /\ pc = "scan" /\ i < SizeOf[item] /\ j < AllBlockCount
  /\ IF Empty(curPos)
     THEN /\ next' = [next EXCEPT ![curPos] = startPos]
          /\ startPos' = curPos /\ i' = i + 1 /\ got' = got \cup {curPos}
     ELSE UNCHANGED <<next, startPos, i, got>>
  /\ curPos' = IF curPos + 1 >= AllBlockCount THEN 1 ELSE curPos + 1
  /\ UNCHANGED <<owner, part, headerVars, root, held, reader, over, pc, slot, item,
                 nextPos, left, ret, j>>

(* GetEmptyBlock, one iteration of the scan from ddwLastEmpty.             *)
ScanStep ==
  /\ pc = "scan" /\ i < SizeOf[item] /\ j < AllBlockCount
  /\ IF Empty(curPos)
     THEN /\ next' = [next EXCEPT ![curPos] = startPos]
          /\ startPos' = curPos
          /\ i' = i + 1
          /\ got' = got \cup {curPos}
     ELSE UNCHANGED <<next, startPos, i, got>>
  /\ curPos' = IF curPos + 1 >= AllBlockCount THEN 1 ELSE curPos + 1
  /\ j' = j + 1
  /\ UNCHANGED <<owner, part, headerVars, root, held, reader, over, pc, slot, item,
                 nextPos, left, ret>>

ScanFound ==
  /\ pc = "scan" /\ i = SizeOf[item]
  /\ pc' = "copy" /\ nextPos' = startPos /\ left' = SizeOf[item]
  /\ lastEmpty' = curPos
  /\ i' = 0 /\ j' = 0 /\ curPos' = 0
  /\ UNCHANGED <<blockVars, freeCount, firstFree, recIdx, pool, root, held, reader,
                 got, over, slot, item, startPos, ret>>

ScanNoSpace ==
  /\ pc = "scan" /\ i < SizeOf[item] /\ j = AllBlockCount
  /\ Fail(-100)
  /\ UNCHANGED <<blockVars, headerVars, root, held, reader, over>>

(* SetData, one iteration of the copy loop.                                *)
CopyStep ==
  /\ pc = "copy" /\ nextPos # 0 /\ left > 0
  /\ owner' = [owner EXCEPT ![nextPos] = item]
  /\ part'  = [part EXCEPT ![nextPos] = SizeOf[item] - left + 1]
  /\ curPos' = nextPos /\ nextPos' = next[nextPos]
  /\ left' = left - 1
  /\ freeCount' = freeCount - 1
  /\ UNCHANGED <<next, firstFree, lastEmpty, recIdx, pool, root, held, reader, got,
                 over, pc, slot, item, i, j, startPos, ret>>

(* The chain ended before the data did: the branch marked "bug".           *)
CopyShort ==
  /\ pc = "copy" /\ nextPos = 0 /\ left > 0
  /\ Fail(-9)
  /\ UNCHANGED <<blockVars, headerVars, root, held, reader, over>>

(* Mutant of RecycleBlock: the chain is freed at once, without the ring.   *)
RecycleBlockAtOnce(p) ==
  /\ nextPos' = p
  /\ UNCHANGED <<pool, recIdx, reader>>

(* RecycleBlock(p): p takes the ring's current entry and the chain that    *)
(* was there is freed next, by FreeBlock.                                  *)
RecycleBlock(p) ==
  /\ pool' = [pool EXCEPT ![recIdx] = p]
  /\ recIdx' = (recIdx + 1) % RecyclePoolSize
  /\ nextPos' = pool[recIdx]
  /\ reader' = [r \in Readers |->
       IF reader[r].pc = "walk" /\ reader[r].age < RecyclePoolSize
       THEN [reader[r] EXCEPT !.age = @ + 1] ELSE reader[r]]

(* SetData after the copy: end the chain, recycle what the slot held.      *)
Link ==
  /\ pc = "copy" /\ left = 0
  /\ next' = [next EXCEPT ![curPos] = 0, ![0] = nextPos]
  /\ pc' = "free"
  /\ IF root[slot] # 0
     THEN RecycleBlock(root[slot])
     ELSE nextPos' = 0 /\ UNCHANGED <<pool, recIdx, reader>>
  /\ curPos' = 0 /\ got' = {}
  /\ UNCHANGED <<owner, part, freeCount, firstFree, lastEmpty, root, held, over, slot,
                 item, i, j, startPos, left, ret>>

(* EraseData of the position a slot holds.                                 *)
EraseData(s) ==
  /\ pc = "idle" /\ root[s] # 0
  /\ pc' = "free" /\ slot' = s /\ ret' = 0
  /\ RecycleBlock(root[s])
  /\ UNCHANGED <<blockVars, freeCount, firstFree, lastEmpty, root, held, over, got,
                 item, i, j, curPos, startPos, left>>

(* Mutant of FreeBlock: ddwFreeBlockCount is not incremented.              *)
FreeBlockUncounted ==
  /\ pc = "free" /\ nextPos # 0
  /\ nextPos' = next[nextPos]
  /\ next'  = [next EXCEPT ![nextPos] = firstFree]
  /\ owner' = [owner EXCEPT ![nextPos] = NoItem]
  /\ part'  = [part EXCEPT ![nextPos] = 0]
  /\ firstFree' = nextPos
  /\ UNCHANGED <<freeCount, lastEmpty, recIdx, pool, root, held, reader, got, over, pc,
                 slot, item, i, j, curPos, startPos, left, ret>>

(* FreeBlock, one iteration: the block is zeroed and heads the free list.  *)
FreeBlock ==
  /\ pc = "free" /\ nextPos # 0
  /\ nextPos' = next[nextPos]
  /\ next'  = [next EXCEPT ![nextPos] = firstFree]
  /\ owner' = [owner EXCEPT ![nextPos] = NoItem]
  /\ part'  = [part EXCEPT ![nextPos] = 0]
  /\ firstFree' = nextPos
  /\ freeCount' = freeCount + 1
  /\ UNCHANGED <<lastEmpty, recIdx, pool, root, held, reader, got, over, pc, slot,
                 item, i, j, curPos, startPos, left, ret>>

(* The caller stores the position it got back in the index node: the new   *)
(* chain after SetData, none after EraseData (startPos is 0 then).         *)
Publish ==
  /\ pc = "free" /\ nextPos = 0
  /\ root' = [root EXCEPT ![slot] = startPos]
  /\ held' = [held EXCEPT ![slot] = item]
  /\ pc' = "idle" /\ UNCHANGED <<slot, ret>>
  /\ ClearLocals
  /\ UNCHANGED <<blockVars, headerVars, reader, over>>

-----------------------------------------------------------------------------
(* The readers: GetData.                                                   *)

(* The position is read from the index node; the reader now walks it.      *)
ReadStart(r, s) ==
  /\ reader[r].pc = "idle" /\ root[s] # 0
  /\ reader' = [reader EXCEPT ![r] =
       [IdleReader EXCEPT !.pc = "walk", !.item = held[s], !.cur = root[s]]]
  /\ UNCHANGED <<blockVars, headerVars, root, held, writerVars, got, over>>

(* Mutant of ReadBlock: the check against the buffer size is gone.         *)
ReadBlockUnbounded(r) ==
  LET p == reader[r].cur
      k == IF reader[r].len < BufBlocks THEN 1 ELSE 0
  IN /\ reader[r].pc = "walk" /\ p # 0
     /\ reader' = [reader EXCEPT ![r].cur = next[p], ![r].len = @ + k]
     /\ UNCHANGED <<blockVars, headerVars, root, held, writerVars, got, over>>

(* One iteration: a block that is not the last counts in full whatever it  *)
(* holds, the last one for its ddwLengthInBlock.  ok stays TRUE while the  *)
(* bytes copied are the chunks of the item the reader set out to read.     *)
ReadBlock(r) ==
  LET p == reader[r].cur
      k == IF next[p] # 0 \/ ~Empty(p) THEN 1 ELSE 0
  IN /\ reader[r].pc = "walk" /\ p # 0 /\ reader[r].len < BufBlocks
     /\ reader' = [reader EXCEPT ![r].cur = next[p],
          ![r].len = @ + k,
          ![r].ok = @ /\ owner[p] = reader[r].item /\ part[p] = reader[r].len + 1]
     /\ UNCHANGED <<blockVars, headerVars, root, held, writerVars, got, over>>

(* -22: the buffer cannot take another block; nothing is returned.         *)
ReadOverflow(r) ==
  /\ reader[r].pc = "walk" /\ reader[r].cur # 0 /\ reader[r].len = BufBlocks
  /\ reader' = [reader EXCEPT ![r] = IdleReader]
  /\ UNCHANGED <<blockVars, headerVars, root, held, writerVars, got, over>>

ReadEnd(r) ==
  /\ reader[r].pc = "walk" /\ reader[r].cur = 0
  /\ reader' = [reader EXCEPT ![r].pc = "done"]
  /\ UNCHANGED <<blockVars, headerVars, root, held, writerVars, got, over>>

ReadReturn(r) ==
  /\ reader[r].pc = "done"
  /\ reader' = [reader EXCEPT ![r] = IdleReader]
  /\ UNCHANGED <<blockVars, headerVars, root, held, writerVars, got, over>>

WriterStep ==
  \/ FreeListTake \/ FreeListFound \/ FreeListMiss
  \/ ScanStep \/ ScanFound \/ ScanNoSpace
  \/ CopyStep \/ CopyShort \/ Link \/ FreeBlock \/ Publish
Writer ==
  \/ \E s \in Slots, it \in Items : SetData(s, it) \/ SetDataNoSpace(s, it)
  \/ \E s \in Slots : EraseData(s)
  \/ WriterStep
ReaderStep(r) == ReadBlock(r) \/ ReadOverflow(r) \/ ReadEnd(r) \/ ReadReturn(r)
Reader(r) == (\E s \in Slots : ReadStart(r, s)) \/ ReaderStep(r)
Next == Writer \/ \E r \in Readers : Reader(r)

Spec == Init /\ [][Next]_vars

(* A thread that is inside a call keeps running: the operating system      *)
(* schedules it.  Nothing obliges anybody to start another call.           *)
FairSpec ==
  Spec /\ WF_vars(WriterStep) /\ \A r \in Readers : WF_vars(ReaderStep(r))

-----------------------------------------------------------------------------
(* Properties.                                                             *)

(* The parts of the type invariant.                                        *)
BlocksOK ==
  /\ next \in [Pos -> Pos]
  /\ owner \in [Block -> Items \cup {NoItem}]
  /\ part \in [Block -> Nat]
HeaderOK ==
  /\ freeCount \in Int
  /\ firstFree \in Pos /\ lastEmpty \in Block
  /\ recIdx \in 0 .. RecyclePoolSize - 1
  /\ pool \in [0 .. RecyclePoolSize - 1 -> Pos]
CallerOK ==
  /\ root \in [Slots -> Pos] /\ held \in [Slots -> Items \cup {NoItem}]
  /\ got \subseteq Block /\ over \subseteq Items
WriterOK ==
  /\ pc \in {"idle", "freelist", "scan", "copy", "free"}
  /\ slot \in Slots /\ item \in Items \cup {NoItem}
  /\ i \in Nat /\ j \in Nat /\ left \in Nat
  /\ curPos \in Pos /\ nextPos \in Pos /\ startPos \in Pos
  /\ ret \in {0, -9, -100}

(* Every position stored anywhere is 0 or a block of the table: the tests  *)
(* for a "Position gone insane" (-2, -3, -8, -21) never fire.              *)
TypeOK ==
  /\ BlocksOK /\ HeaderOK /\ CallerOK /\ WriterOK
  /\ reader \in [Readers -> ReaderState]

(* The position after k steps along the chain that starts at p.            *)
Follow(p, k) ==
  LET f[n \in 0 .. k] == IF n = 0 THEN p
                         ELSE IF f[n - 1] = 0 THEN 0 ELSE next[f[n - 1]]
  IN f[k]

(* The chain at p is exactly the chunks of it, in order.                   *)
Holds(p, it) ==
  /\ \A k \in 1 .. SizeOf[it] : LET b == Follow(p, k - 1) IN
       b # 0 /\ owner[b] = it /\ part[b] = k
  /\ Follow(p, SizeOf[it]) = 0

(* SetData's promise: what a slot was given is what its position leads to, *)
(* whatever the writer is doing and whatever was recycled in between,      *)
(* unless the call asked for more blocks than were empty.                  *)
StoredIntact ==
  \A s \in Slots : root[s] # 0 /\ held[s] \notin over => Holds(root[s], held[s])

(* The same without the exception: "ddwPos returns the position of the     *)
(* data just inserted" (link_table.cc:389).                                *)
ReadBack ==
  \A s \in Slots : root[s] # 0 => Holds(root[s], held[s])

(* Delayed recycling: a reader that took its position from a slot copies   *)
(* that slot's item, whole and in order, if fewer than dwRecyclePoolSize   *)
(* chains were recycled since, although it holds no lock.                  *)
ReaderProtected ==
  \A r \in Readers :
    LET rd == reader[r] IN
    /\ rd.age < RecyclePoolSize
    /\ rd.item \notin over
    => /\ rd.ok
       /\ rd.pc = "done" => rd.len = SizeOf[rd.item]

(* Until it frees the chain it replaced, a SetData leaves every block that *)
(* holds another item's data as it is, although the free list it walks may *)
(* lead into such blocks (the FIXME at link_table.cc:281-283).             *)
KeepsOthers ==
  pc \in {"freelist", "scan", "copy"} =>
    \A b \in Block : owner[b] \notin {NoItem, item} =>
      next'[b] = next[b] /\ owner'[b] = owner[b] /\ part'[b] = part[b]
NoOverwrite == [][KeepsOthers]_vars

(* ddwFreeBlockCount is the number of empty blocks, or one more: Init      *)
(* counts ddwBlockCount - 1 blocks but only ddwBlockCount - 2 are usable.  *)
FreeCountSound ==
  freeCount - Cardinality(EmptyBlocks) \in {0, 1}

(* Every SetData and EraseData returns, also when the free list has become *)
(* cyclic.                                                                 *)
CallsReturn == (pc # "idle") ~> (pc = "idle")

(* Every GetData returns, also when the chain it walks is freed and        *)
(* relinked under it: the buffer check ends a walk that goes in circles.   *)
ReadsReturn == \A r \in Readers : (reader[r].pc # "idle") ~> (reader[r].pc = "idle")
=============================================================================
