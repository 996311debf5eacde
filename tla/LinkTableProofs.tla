--------------------------- MODULE LinkTableProofs ---------------------------
(***************************************************************************)
(* What holds of the link table for every table size, ring size, set of    *)
(* items and number of readers.                                            *)
(*                                                                         *)
(* TypeInv strengthens TypeOK with what the locals of SetData are at each  *)
(* of its phases.  AllocInv says what GetEmptyBlock has collected: empty   *)
(* blocks, linked only among themselves.  It does not depend on the free   *)
(* list being a list, which it is not (the FIXME at link_table.cc:281).    *)
(***************************************************************************)
EXTENDS LinkTable, TLAPS

PhaseTypes ==
  /\ pc \in {"freelist", "scan", "copy"} => item \in Items
  /\ pc = "scan" => curPos \in Block
  /\ pc = "copy" => left <= SizeOf[item]

TypeInv == TypeOK /\ PhaseTypes

(* Positions: 0 is one, every block is one, and each is 0 or a block.      *)
LEMMA Positions ==
  /\ 0 \in Pos /\ 1 \in Block /\ Block \subseteq Pos /\ 0 \notin Block
  /\ \A p \in Pos : p # 0 => p \in Block
  BY AllBlockCountAssumption DEF Pos, Block

(* The scan's wrap-around stays inside the table.                          *)
LEMMA WrapAround ==
  \A p \in Block : (IF p + 1 >= AllBlockCount THEN 1 ELSE p + 1) \in Block
  BY AllBlockCountAssumption DEF Block

(* What an idle reader and an advanced one are.                            *)
LEMMA IdleReaderType == IdleReader \in ReaderState
  BY Positions, BufBlocksAssumption, RecyclePoolSizeAssumption DEF IdleReader, ReaderState

(* RecycleBlock keeps the header and the readers well typed.               *)
LEMMA RecycleTypes ==
  ASSUME TypeInv, NEW p \in Pos, RecycleBlock(p)
  PROVE  /\ pool' \in [0 .. RecyclePoolSize - 1 -> Pos]
         /\ recIdx' \in 0 .. RecyclePoolSize - 1
         /\ nextPos' \in Pos
         /\ reader' \in [Readers -> ReaderState]
<1> USE RecyclePoolSizeAssumption DEF RecycleBlock
<1>1. pool' \in [0 .. RecyclePoolSize - 1 -> Pos] /\ nextPos' \in Pos
  BY DEF TypeInv, TypeOK, HeaderOK
<1>2. recIdx' \in 0 .. RecyclePoolSize - 1
  BY DEF TypeInv, TypeOK, HeaderOK
<1>3. ASSUME NEW r \in Readers, reader[r].age < RecyclePoolSize
      PROVE  [reader[r] EXCEPT !.age = @ + 1] \in ReaderState
  BY <1>3 DEF TypeInv, TypeOK, ReaderState
<1>4. reader' \in [Readers -> ReaderState]
  BY <1>3 DEF TypeInv, TypeOK
<1> QED
  BY <1>1, <1>2, <1>4

(* A reader's step changes its own record only.                            *)
LEMMA ReaderFrame ==
  ASSUME TypeInv, reader' \in [Readers -> ReaderState],
         UNCHANGED <<blockVars, headerVars, root, held, writerVars, got, over>>
  PROVE  TypeInv'
  BY DEF TypeInv, TypeOK, BlocksOK, HeaderOK, CallerOK, WriterOK, PhaseTypes, blockVars,
         headerVars, writerVars

LEMMA InitTypeInv == Init => TypeInv
  BY Positions, IdleReaderType, RecyclePoolSizeAssumption, AllBlockCountAssumption
  DEF Init, TypeInv, TypeOK, BlocksOK, HeaderOK, CallerOK, WriterOK, PhaseTypes

LEMMA StepTypeInv == TypeInv /\ [Next]_vars => TypeInv'
<1> SUFFICES ASSUME TypeInv, [Next]_vars PROVE TypeInv'
  OBVIOUS
<1> USE Positions DEF TypeInv, TypeOK, blockVars, headerVars, writerVars
<1>1. ASSUME NEW s \in Slots, NEW it \in Items, SetData(s, it) PROVE TypeInv'
  <2>1. BlocksOK'
    BY <1>1 DEF SetData, BlocksOK
  <2>2. HeaderOK'
    BY <1>1 DEF SetData, HeaderOK
  <2>3. CallerOK'
    BY <1>1 DEF SetData, CallerOK
  <2>4. WriterOK' /\ PhaseTypes'
    BY <1>1 DEF SetData, WriterOK, PhaseTypes, HeaderOK
  <2> QED
    BY <1>1, <2>1, <2>2, <2>3, <2>4 DEF SetData
<1>2. ASSUME NEW s \in Slots, NEW it \in Items, SetDataNoSpace(s, it) PROVE TypeInv'
  <2>1. BlocksOK'
    BY <1>2 DEF SetDataNoSpace, BlocksOK
  <2>2. HeaderOK'
    BY <1>2 DEF SetDataNoSpace, HeaderOK
  <2>3. CallerOK'
    BY <1>2 DEF SetDataNoSpace, CallerOK
  <2>4. WriterOK' /\ PhaseTypes'
    BY <1>2 DEF SetDataNoSpace, WriterOK, PhaseTypes
  <2> QED
    BY <1>2, <2>1, <2>2, <2>3, <2>4 DEF SetDataNoSpace
<1>3. ASSUME NEW s \in Slots, EraseData(s) PROVE TypeInv'
  <2> root[s] \in Pos /\ RecycleBlock(root[s])
    BY <1>3 DEF EraseData, CallerOK
  <2>0. /\ pool' \in [0 .. RecyclePoolSize - 1 -> Pos]
        /\ recIdx' \in 0 .. RecyclePoolSize - 1
        /\ nextPos' \in Pos
        /\ reader' \in [Readers -> ReaderState]
    BY RecycleTypes
  <2>1. BlocksOK'
    BY <1>3 DEF EraseData, BlocksOK
  <2>2. HeaderOK'
    BY <1>3, <2>0 DEF EraseData, HeaderOK
  <2>3. CallerOK'
    BY <1>3 DEF EraseData, CallerOK
  <2>4. WriterOK' /\ PhaseTypes'
    BY <1>3, <2>0 DEF EraseData, WriterOK, PhaseTypes
  <2> QED
    BY <2>0, <2>1, <2>2, <2>3, <2>4
<1>4. CASE FreeListTake
  <2>1. BlocksOK'
    BY <1>4 DEF FreeListTake, FreeListUsable, BlocksOK
  <2>2. HeaderOK'
    BY <1>4 DEF FreeListTake, FreeListUsable, HeaderOK
  <2>3. CallerOK'
    BY <1>4 DEF FreeListTake, FreeListUsable, CallerOK
  <2>4. WriterOK' /\ PhaseTypes'
    BY <1>4 DEF FreeListTake, FreeListUsable, WriterOK, PhaseTypes, BlocksOK
  <2> QED
    BY <1>4, <2>1, <2>2, <2>3, <2>4 DEF FreeListTake, FreeListUsable
<1>5. CASE FreeListFound
  <2>1. BlocksOK'
    BY <1>5 DEF FreeListFound, BlocksOK
  <2>2. HeaderOK'
    BY <1>5 DEF FreeListFound, HeaderOK, WriterOK
  <2>3. CallerOK'
    BY <1>5 DEF FreeListFound, CallerOK
  <2>4. WriterOK' /\ PhaseTypes'
    BY <1>5, SizeOfAssumption DEF FreeListFound, WriterOK, PhaseTypes, HeaderOK
  <2> QED
    BY <1>5, <2>1, <2>2, <2>3, <2>4 DEF FreeListFound
<1>6. CASE FreeListMiss
  <2>1. BlocksOK'
    BY <1>6 DEF FreeListMiss, BlocksOK
  <2>2. HeaderOK'
    BY <1>6 DEF FreeListMiss, HeaderOK
  <2>3. CallerOK'
    BY <1>6 DEF FreeListMiss, CallerOK
  <2>4. WriterOK' /\ PhaseTypes'
    BY <1>6 DEF FreeListMiss, WriterOK, PhaseTypes, HeaderOK
  <2> QED
    BY <1>6, <2>1, <2>2, <2>3, <2>4 DEF FreeListMiss
<1>7. CASE ScanStep
  <2>1. BlocksOK'
    BY <1>7 DEF ScanStep, BlocksOK, WriterOK, PhaseTypes
  <2>2. HeaderOK'
    BY <1>7 DEF ScanStep, HeaderOK
  <2>3. CallerOK'
    BY <1>7 DEF ScanStep, CallerOK, PhaseTypes
  <2>4. WriterOK' /\ PhaseTypes'
    BY <1>7, WrapAround DEF ScanStep, WriterOK, PhaseTypes
  <2> QED
    BY <1>7, <2>1, <2>2, <2>3, <2>4 DEF ScanStep
<1>8. CASE ScanFound
  <2>1. BlocksOK'
    BY <1>8 DEF ScanFound, BlocksOK
  <2>2. HeaderOK'
    BY <1>8 DEF ScanFound, HeaderOK, PhaseTypes
  <2>3. CallerOK'
    BY <1>8 DEF ScanFound, CallerOK
  <2>4. WriterOK' /\ PhaseTypes'
    BY <1>8, SizeOfAssumption DEF ScanFound, WriterOK, PhaseTypes
  <2> QED
    BY <1>8, <2>1, <2>2, <2>3, <2>4 DEF ScanFound
<1>9. CASE ScanNoSpace
  <2>1. BlocksOK'
    BY <1>9 DEF ScanNoSpace, Fail, ClearLocals, BlocksOK
  <2>2. HeaderOK'
    BY <1>9 DEF ScanNoSpace, Fail, ClearLocals, HeaderOK
  <2>3. CallerOK'
    BY <1>9 DEF ScanNoSpace, Fail, ClearLocals, CallerOK
  <2>4. WriterOK' /\ PhaseTypes'
    BY <1>9 DEF ScanNoSpace, Fail, ClearLocals, WriterOK, PhaseTypes
  <2> QED
    BY <1>9, <2>1, <2>2, <2>3, <2>4 DEF ScanNoSpace, Fail, ClearLocals
<1>10. CASE CopyStep
  <2>1. BlocksOK'
    BY <1>10, SizeOfAssumption DEF CopyStep, BlocksOK, WriterOK, PhaseTypes
  <2>2. HeaderOK'
    BY <1>10 DEF CopyStep, HeaderOK
  <2>3. CallerOK'
    BY <1>10 DEF CopyStep, CallerOK
  <2>4. WriterOK' /\ PhaseTypes'
    BY <1>10, SizeOfAssumption DEF CopyStep, WriterOK, PhaseTypes, BlocksOK
  <2> QED
    BY <1>10, <2>1, <2>2, <2>3, <2>4 DEF CopyStep
<1>11. CASE CopyShort
  <2>1. BlocksOK'
    BY <1>11 DEF CopyShort, Fail, ClearLocals, BlocksOK
  <2>2. HeaderOK'
    BY <1>11 DEF CopyShort, Fail, ClearLocals, HeaderOK
  <2>3. CallerOK'
    BY <1>11 DEF CopyShort, Fail, ClearLocals, CallerOK
  <2>4. WriterOK' /\ PhaseTypes'
    BY <1>11 DEF CopyShort, Fail, ClearLocals, WriterOK, PhaseTypes
  <2> QED
    BY <1>11, <2>1, <2>2, <2>3, <2>4 DEF CopyShort, Fail, ClearLocals
<1>12. CASE Link
  <2>0. /\ pool' \in [0 .. RecyclePoolSize - 1 -> Pos]
        /\ recIdx' \in 0 .. RecyclePoolSize - 1
        /\ nextPos' \in Pos
        /\ reader' \in [Readers -> ReaderState]
    <3> root[slot] \in Pos
      BY DEF CallerOK, WriterOK
    <3>1. CASE root[slot] # 0
      BY <1>12, <3>1, RecycleTypes DEF Link
    <3>2. CASE root[slot] = 0
      BY <1>12, <3>2 DEF Link, HeaderOK
    <3> QED
      BY <3>1, <3>2
  <2>1. BlocksOK'
    BY <1>12 DEF Link, BlocksOK, WriterOK
  <2>2. HeaderOK'
    BY <1>12, <2>0 DEF Link, HeaderOK
  <2>3. CallerOK'
    BY <1>12 DEF Link, CallerOK
  <2>4. WriterOK' /\ PhaseTypes'
    BY <1>12, <2>0 DEF Link, WriterOK, PhaseTypes
  <2> QED
    BY <2>0, <2>1, <2>2, <2>3, <2>4
<1>13. CASE FreeBlock
  <2>1. BlocksOK'
    BY <1>13 DEF FreeBlock, BlocksOK, WriterOK, HeaderOK
  <2>2. HeaderOK'
    BY <1>13 DEF FreeBlock, HeaderOK, WriterOK
  <2>3. CallerOK'
    BY <1>13 DEF FreeBlock, CallerOK
  <2>4. WriterOK' /\ PhaseTypes'
    BY <1>13 DEF FreeBlock, WriterOK, PhaseTypes, BlocksOK
  <2> QED
    BY <1>13, <2>1, <2>2, <2>3, <2>4 DEF FreeBlock
<1>14. CASE Publish
  <2>1. BlocksOK'
    BY <1>14 DEF Publish, ClearLocals, BlocksOK
  <2>2. HeaderOK'
    BY <1>14 DEF Publish, ClearLocals, HeaderOK
  <2>3. CallerOK'
    BY <1>14 DEF Publish, ClearLocals, CallerOK, WriterOK
  <2>4. WriterOK' /\ PhaseTypes'
    BY <1>14 DEF Publish, ClearLocals, WriterOK, PhaseTypes
  <2> QED
    BY <1>14, <2>1, <2>2, <2>3, <2>4 DEF Publish, ClearLocals
<1>15. ASSUME NEW r \in Readers, Reader(r) PROVE TypeInv'
  <2>1. ASSUME NEW s \in Slots, ReadStart(r, s) PROVE TypeInv'
    <3>1. [IdleReader EXCEPT !.pc = "walk", !.item = held[s], !.cur = root[s]] \in ReaderState
      BY IdleReaderType DEF ReaderState, CallerOK
    <3> QED
      BY <2>1, <3>1, ReaderFrame DEF ReadStart
  <2>2. CASE ReadBlock(r)
    <3> DEFINE p == reader[r].cur
               k == IF next[p] # 0 \/ ~Empty(p) THEN 1 ELSE 0
               o == reader[r].ok /\ owner[p] = reader[r].item /\ part[p] = reader[r].len + 1
    <3>1. next[p] \in Pos /\ reader[r].len + k \in 0 .. BufBlocks /\ o \in BOOLEAN
      BY <2>2, BufBlocksAssumption DEF ReadBlock, BlocksOK, ReaderState
    <3>2. reader' = [reader EXCEPT ![r] =
                      [@ EXCEPT !.cur = next[p], !.len = reader[r].len + k, !.ok = o]]
      BY <2>2 DEF ReadBlock
    <3> HIDE DEF k, o
    <3>3. [reader[r] EXCEPT !.cur = next[p], !.len = reader[r].len + k, !.ok = o]
            \in ReaderState
      BY <3>1 DEF ReaderState
    <3>4. reader' \in [Readers -> ReaderState]
      BY <3>2, <3>3
    <3> QED
      BY <2>2, <3>4, ReaderFrame DEF ReadBlock
  <2>3. CASE ReadOverflow(r)
    BY <2>3, IdleReaderType, ReaderFrame DEF ReadOverflow
  <2>4. CASE ReadEnd(r)
    <3>1. [reader[r] EXCEPT !.pc = "done"] \in ReaderState
      BY DEF ReaderState
    <3> QED
      BY <2>4, <3>1, ReaderFrame DEF ReadEnd
  <2>5. CASE ReadReturn(r)
    BY <2>5, IdleReaderType, ReaderFrame DEF ReadReturn
  <2> QED
    BY <1>15, <2>1, <2>2, <2>3, <2>4, <2>5 DEF Reader, ReaderStep
<1>16. CASE UNCHANGED vars
  BY <1>16 DEF vars, BlocksOK, HeaderOK, CallerOK, WriterOK, PhaseTypes
<1> QED
  BY <1>1, <1>2, <1>3, <1>4, <1>5, <1>6, <1>7, <1>8, <1>9, <1>10, <1>11, <1>12, <1>13,
     <1>14, <1>15, <1>16 DEF Next, Writer, WriterStep

(* No position the link table stores or follows lies outside the table,    *)
(* for any sizes: the "gone insane" branches are dead code.                *)
THEOREM TypeCorrect == Spec => []TypeOK
<1>1. Init => TypeInv
  BY InitTypeInv
<1>2. TypeInv /\ [Next]_vars => TypeInv'
  BY StepTypeInv
<1>3. TypeInv => TypeOK
  BY DEF TypeInv
<1> QED
  BY <1>1, <1>2, <1>3, PTL DEF Spec

-----------------------------------------------------------------------------
(* What GetEmptyBlock has collected, phase by phase.                       *)
AllocInv ==
  /\ pc = "freelist" =>
       /\ i <= SizeOf[item]
       /\ \A b \in got : Empty(b)
       /\ i < SizeOf[item] => \A b \in got : next[b] \in got \cup {curPos}
       /\ i = SizeOf[item] => \A b \in got : next[b] \in got \cup {0}
       /\ firstFree \in got \/ (i = 0 /\ firstFree = curPos)
  /\ pc = "scan" =>
       /\ \A b \in got : Empty(b) /\ next[b] \in got \cup {0}
       /\ startPos \in got \cup {0}
  /\ pc = "copy" =>
       /\ \A b \in got : owner[b] \in {NoItem, item} /\ next[b] \in got \cup {0}
       /\ nextPos \in got \cup {0}
       /\ curPos \in got \cup {0}

LEMMA StepAllocInv == TypeInv /\ AllocInv /\ [Next]_vars => AllocInv'
<1> SUFFICES ASSUME TypeInv, AllocInv, [Next]_vars PROVE AllocInv'
  OBVIOUS
<1> USE Positions DEF AllocInv, Empty, blockVars, headerVars
<1>1. ASSUME NEW s \in Slots, NEW it \in Items, SetData(s, it) PROVE AllocInv'
  BY <1>1, SizeOfAssumption DEF SetData
<1>2. ASSUME NEW s \in Slots, NEW it \in Items, SetDataNoSpace(s, it) PROVE AllocInv'
  BY <1>2 DEF SetDataNoSpace
<1>3. ASSUME NEW s \in Slots, EraseData(s) PROVE AllocInv'
  BY <1>3 DEF EraseData
<1>4. CASE FreeListTake
  <2>1. i \in Nat /\ SizeOf[item] \in Nat /\ next \in [Pos -> Pos] /\ got \subseteq Block
    BY <1>4, SizeOfAssumption
    DEF FreeListTake, TypeInv, TypeOK, WriterOK, BlocksOK, CallerOK, PhaseTypes
  <2>2. /\ pc = "freelist" /\ pc' = "freelist" /\ item' = item /\ i < SizeOf[item]
        /\ i' = i + 1 /\ got' = got \cup {curPos} /\ curPos' = next[curPos]
        /\ curPos \in Block /\ owner' = owner /\ firstFree' = firstFree /\ Empty(curPos)
        /\ next' = IF i + 1 = SizeOf[item] THEN [next EXCEPT ![curPos] = 0] ELSE next
    BY <1>4 DEF FreeListTake, FreeListUsable
  <2>3. /\ \A b \in got : Empty(b) /\ next[b] \in got \cup {curPos}
        /\ firstFree \in got \/ (i = 0 /\ firstFree = curPos)
    BY <2>2
  <2> HIDE DEF AllocInv
  <2>4. i' <= SizeOf[item'] /\ (\A b \in got' : Empty(b)') /\ firstFree' \in got'
    BY <2>1, <2>2, <2>3
  <2>5. i' < SizeOf[item'] => \A b \in got' : next'[b] \in got' \cup {curPos'}
    BY <2>1, <2>2, <2>3
  <2>6. i' = SizeOf[item'] => \A b \in got' : next'[b] \in got' \cup {0}
    BY <2>1, <2>2, <2>3
  <2> QED
    BY <2>2, <2>4, <2>5, <2>6 DEF AllocInv
<1>5. CASE FreeListFound
  BY <1>5, SizeOfAssumption DEF FreeListFound, TypeInv, PhaseTypes
<1>6. CASE FreeListMiss
  BY <1>6 DEF FreeListMiss
<1>7. CASE ScanStep
  <2>1. /\ pc = "scan" /\ pc' = "scan" /\ owner' = owner /\ curPos \in Block
        /\ next \in [Pos -> Pos] /\ got \subseteq Block
    BY <1>7 DEF ScanStep, TypeInv, TypeOK, BlocksOK, CallerOK, PhaseTypes
  <2>2. (\A b \in got : Empty(b) /\ next[b] \in got \cup {0}) /\ startPos \in got \cup {0}
    BY <2>1
  <2> HIDE DEF AllocInv
  <2>3. CASE Empty(curPos)
    <3>1. /\ next' = [next EXCEPT ![curPos] = startPos] /\ startPos' = curPos
          /\ got' = got \cup {curPos}
      BY <2>3, <1>7 DEF ScanStep
    <3>2. \A b \in got' : Empty(b)' /\ next'[b] \in got' \cup {0}
      BY <3>1, <2>1, <2>2, <2>3
    <3> QED BY <3>1, <3>2, <2>1 DEF AllocInv
  <2>4. CASE ~Empty(curPos)
    <3>1. next' = next /\ startPos' = startPos /\ got' = got
      BY <2>4, <1>7 DEF ScanStep
    <3> QED BY <3>1, <2>1, <2>2 DEF AllocInv
  <2> QED BY <2>3, <2>4
<1>8. CASE ScanFound
  BY <1>8 DEF ScanFound
<1>9. CASE ScanNoSpace
  BY <1>9 DEF ScanNoSpace, Fail
<1>10. CASE CopyStep
  BY <1>10 DEF CopyStep, TypeInv, TypeOK, BlocksOK, CallerOK
<1>11. CASE CopyShort
  BY <1>11 DEF CopyShort, Fail
<1>12. CASE Link
  BY <1>12 DEF Link
<1>13. CASE FreeBlock
  BY <1>13 DEF FreeBlock
<1>14. CASE Publish
  BY <1>14 DEF Publish
<1>15. ASSUME NEW r \in Readers, Reader(r) PROVE AllocInv'
  BY <1>15 DEF Reader, ReaderStep, ReadStart, ReadBlock, ReadOverflow, ReadEnd, ReadReturn,
               blockVars, headerVars, writerVars
<1>16. CASE UNCHANGED vars
  BY <1>16 DEF vars, blockVars, headerVars, writerVars
<1> QED
  BY <1>1, <1>2, <1>3, <1>4, <1>5, <1>6, <1>7, <1>8, <1>9, <1>10, <1>11, <1>12, <1>13,
     <1>14, <1>15, <1>16 DEF Next, Writer, WriterStep

(* A step taken while SetData allocates and copies changes empty blocks    *)
(* and its own.                                                            *)
LEMMA StepKeepsOthers == TypeInv /\ AllocInv /\ [Next]_vars => [KeepsOthers]_vars
<1> SUFFICES ASSUME TypeInv, AllocInv, Next, pc \in {"freelist", "scan", "copy"},
                    NEW b \in Block, owner[b] \notin {NoItem, item}
             PROVE  next'[b] = next[b] /\ owner'[b] = owner[b] /\ part'[b] = part[b]
  BY DEF KeepsOthers
<1> USE Positions DEF TypeInv, TypeOK, BlocksOK
<1>1. CASE FreeListTake
  BY <1>1 DEF FreeListTake, FreeListUsable, Empty
<1>2. CASE ScanStep
  BY <1>2 DEF ScanStep, Empty, PhaseTypes
<1>3. CASE CopyStep
  BY <1>3 DEF CopyStep, AllocInv
<1>4. CASE Link
  BY <1>4 DEF Link, AllocInv
<1>5. CASE UNCHANGED blockVars
  BY <1>5 DEF blockVars
<1>6. ASSUME NEW r \in Readers, Reader(r) PROVE UNCHANGED blockVars
  BY <1>6 DEF Reader, ReaderStep, ReadStart, ReadBlock, ReadOverflow, ReadEnd, ReadReturn
<1>7. \/ FreeListTake \/ ScanStep \/ CopyStep \/ Link \/ UNCHANGED blockVars
  BY <1>6 DEF Next, Writer, WriterStep, SetData, SetDataNoSpace, EraseData, FreeListFound,
              FreeListMiss, ScanFound, ScanNoSpace, CopyShort, FreeBlock, Publish
<1> QED
  BY <1>1, <1>2, <1>3, <1>4, <1>5, <1>7

(* SetData never overwrites a block that holds another item's data, for    *)
(* any sizes and any history of the free list.                             *)
THEOREM NeverOverwrites == Spec => NoOverwrite
<1>1. Init => TypeInv /\ AllocInv
  BY InitTypeInv DEF Init, AllocInv
<1>2. TypeInv /\ AllocInv /\ [Next]_vars => (TypeInv /\ AllocInv)'
  BY StepTypeInv, StepAllocInv
<1>3. TypeInv /\ AllocInv /\ [Next]_vars => [KeepsOthers]_vars
  BY StepKeepsOthers
<1> QED
  BY <1>1, <1>2, <1>3, PTL DEF Spec, NoOverwrite
=============================================================================
