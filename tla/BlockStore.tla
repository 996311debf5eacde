------------------------------ MODULE BlockStore ------------------------------
(***************************************************************************)
(* What the link table promises its caller, MultiHashTable: a store of     *)
(* whole items with a count of free blocks and a ring that delays the      *)
(* freeing of replaced items.  LinkTable (link_table.cc, step by step)     *)
(* implements this module: see LinkTableRefinement.                        *)
(*                                                                         *)
(* An item stands for its position: what a caller holds after a successful *)
(* SetData is the item.  Which items are live is the caller's business.    *)
(*                                                                         *)
(* The promise is weaker than its users think, in two ways: a SetData that *)
(* asks for one block more than there are may succeed and keep a torn item *)
(* (SetTorn), and one may fail half way and lose the blocks it took        *)
(* (SetShort).                                                             *)
(***************************************************************************)
EXTENDS Integers

CONSTANTS
  AllBlockCount,    \* header->ddwAllBlockCount
  RecyclePoolSize,  \* header->dwRecyclePoolSize
  Items, SizeOf,    \* the values written and the number of blocks of each
  NoItem            \* position 0: no item

VARIABLES
  free,    \* header->ddwFreeBlockCount
  empty,   \* the number of blocks with ddwLengthInBlock = 0
  stored,  \* the items whose chain is in the table, live or in the ring
  torn,    \* those of them of which only one block can be reached
  ring,    \* header->addwRecyclePool
  idx      \* header->ddwRecycleIndex

storeVars == <<free, empty, stored, torn, ring, idx>>

StoreInit ==
  /\ free = AllBlockCount /\ empty = AllBlockCount - 1
  /\ stored = {} /\ torn = {}
  /\ ring = [k \in 0 .. RecyclePoolSize - 1 |-> NoItem] /\ idx = 0

StoreTypeOK ==
  /\ free \in Int /\ empty \in 0 .. AllBlockCount - 1
  /\ torn \subseteq stored /\ stored \subseteq Items
  /\ ring \in [0 .. RecyclePoolSize - 1 -> Items \cup {NoItem}]
  /\ idx \in 0 .. RecyclePoolSize - 1

Recycling == {ring[k] : k \in 0 .. RecyclePoolSize - 1}
Live == stored \ Recycling

(* How many blocks freeing an item returns.                                *)
Blocks(it) ==
  IF it = NoItem THEN 0 ELSE IF it \in torn THEN 1 ELSE SizeOf[it]

(* The table once old is in the ring and what it displaced there is freed, *)
(* with used blocks taken and the items of new stored, torn if of tear.    *)
Recycle(old, used, new, tear) ==
  LET freed == IF old = NoItem THEN NoItem ELSE ring[idx] IN
  /\ free'   = free - used + Blocks(freed)
  /\ stored' = (stored \cup new) \ {freed}
  /\ torn'   = (torn \cup tear) \ {freed}
  /\ IF old = NoItem THEN UNCHANGED <<ring, idx>>
     ELSE /\ ring' = [ring EXCEPT ![idx] = old]
          /\ idx' = (idx + 1) % RecyclePoolSize

(* SetData returns 0: the item is stored, old is on its way out.           *)
SetStored(old, it) ==
  /\ it \notin stored /\ SizeOf[it] <= empty
  /\ Recycle(old, SizeOf[it], {it}, {})
  /\ empty' = empty + free' - free

(* SetData returns 0 with one block fewer than the item needs.             *)
SetTorn(old, it) ==
  /\ it \notin stored /\ empty > 0
  /\ SizeOf[it] = empty + 1 /\ SizeOf[it] <= free
  /\ Recycle(old, SizeOf[it], {it}, {it})
  /\ empty' = empty + free' - free + 1

(* SetData returns -100: nothing changed.                                  *)
SetNoSpace(it) ==
  /\ SizeOf[it] > empty
  /\ UNCHANGED storeVars

(* SetData returns -9: n blocks hold data that nobody can reach.           *)
SetShort(it, n) ==
  /\ it \notin stored /\ SizeOf[it] <= free /\ n < SizeOf[it] /\ n <= empty
  /\ free' = free - n /\ empty' = empty - n
  /\ UNCHANGED <<stored, torn, ring, idx>>

EraseStored(old) ==
  /\ Recycle(old, 0, {}, {})
  /\ empty' = empty + free' - free

StoreNext ==
  \/ \E old \in Live \cup {NoItem}, it \in Items : SetStored(old, it) \/ SetTorn(old, it)
  \/ \E it \in Items : SetNoSpace(it) \/ \E n \in 1 .. SizeOf[it] : SetShort(it, n)
  \/ \E old \in Live : EraseStored(old)

StoreSpec == StoreInit /\ [][StoreNext]_storeVars
=============================================================================
