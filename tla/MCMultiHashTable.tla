--------------------------- MODULE MCMultiHashTable ---------------------------
(* A small hash table for TLC: two rows of two and one nodes, three keys   *)
(* that collide in every row, and a table of three usable blocks, so that  *)
(* index space and data space both run out.  It is looked at in two modes, *)
(* chosen at the start: one in which nobody reads, and one with a reader,  *)
(* fewer values and no ticks, in which the writer evicts as the proxy      *)
(* does (UcStorage::Write(true)).  One key has the length of another       *)
(* modulo 256, and one a length of 256.                                    *)
EXTENDS MultiHashTable, TLC

CONSTANTS Modes, k1, k2, k3, a1, a2, b1, b2, c1

VARIABLE mode

MCKeys == {k1, k2, k3}
MCItems == {a1, a2, b1, b2, c1}
FewItems == {a1, b2, c1}
MCKeyOf == [it \in MCItems |->
  CASE it \in {a1, a2} -> k1 [] it \in {b1, b2} -> k2 [] it = c1 -> k3]
MCSizeOf == [it \in MCItems |-> IF it \in {a2, b2} THEN 2 ELSE 1]
MCHashOf == [k \in MCKeys |-> CASE k = k1 -> 2 [] k = k2 -> 4 [] k = k3 -> 6]
MCLenOf == [k \in MCKeys |-> CASE k = k1 -> 8 [] k = k2 -> 256 [] k = k3 -> 264]
MCCommonOf == [k \in MCKeys |-> [q \in MCKeys |-> 4]]
MCRows == <<2, 1>>

MCInit == Init /\ mode \in Modes
MCNext ==
  /\ UNCHANGED mode
  /\ \/ WriterStep
     \/ \E k \in Keys : EraseData(k)
     \/ mode = "index" /\ Tick
     \/ mode = "index" /\ \E it \in Items, auto \in BOOLEAN : SetData(it, auto)
     \/ mode = "readers" /\ \E it \in FewItems : SetData(it, TRUE)
     \/ mode = "readers" /\ \E r \in Readers : Reader(r)
MCSpec == MCInit /\ [][MCNext]_<<vars, mode>> /\ WF_vars(WriterStep)
=============================================================================
