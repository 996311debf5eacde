------------------------- MODULE LinkTableRefinement -------------------------
(***************************************************************************)
(* LinkTable implements BlockStore.  SetData takes effect when the copied  *)
(* chain is linked (or given up as too short), EraseData when the ring is  *)
(* turned; the blocks copied before that still count as free, and those    *)
(* that FreeBlock is yet to visit count as freed.                          *)
(***************************************************************************)
EXTENDS LinkTable

(* The blocks the running FreeBlock will free.                             *)
ToFree ==
  IF pc # "free" THEN 0
  ELSE Cardinality({k \in 0 .. AllBlockCount : Follow(nextPos, k) # 0})
Copied == IF pc = "copy" THEN SizeOf[item] - left ELSE 0
CopiedBlocks == IF pc = "copy" THEN Cardinality({b \in Block : owner[b] = item}) ELSE 0

ItemAt(p) == IF p = 0 THEN NoItem ELSE owner[p]
AbsRing == [k \in 0 .. RecyclePoolSize - 1 |-> ItemAt(pool[k])]
AbsStored ==
  ({held[s] : s \in {s \in Slots : root[s] # 0}}
   \cup {AbsRing[k] : k \in 0 .. RecyclePoolSize - 1}
   \cup {it \in {item} : pc = "free"}) \ {NoItem}

Store == INSTANCE BlockStore WITH
  free <- freeCount + Copied + ToFree,
  empty <- Cardinality(EmptyBlocks) + CopiedBlocks + ToFree,
  stored <- AbsStored, torn <- over \cap AbsStored,
  ring <- AbsRing, idx <- recIdx

(* Every SetData and EraseData of the link table does what BlockStore      *)
(* says, in one step, whatever the state of its free list.                 *)
ImplementsStore == Store!StoreSpec
=============================================================================
