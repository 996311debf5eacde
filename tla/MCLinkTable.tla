----------------------------- MODULE MCLinkTable -----------------------------
(* A small link table for TLC: four usable blocks, two index nodes, one    *)
(* unlocked reader.  Items of one to three blocks, enough of each that a   *)
(* chain in every slot, in the recycle ring and in a reader's hands can    *)
(* exist at once.                                                          *)
EXTENDS LinkTableRefinement, TLC

CONSTANTS a1, a2, b1, b2, c1, s1, s2

MCItems == {a1, a2, b1, b2, c1}
MCSizeOf == [it \in MCItems |->
  CASE it \in {a1, a2} -> 1 [] it \in {b1, b2} -> 2 [] it = c1 -> 3]
FewItems == {a1, a2, b1, b2}
FewSizeOf == [it \in FewItems |-> MCSizeOf[it]]
MCSlots == {s1, s2}
Symmetry == Permutations({a1, a2}) \cup Permutations({b1, b2}) \cup Permutations(MCSlots)
=============================================================================
