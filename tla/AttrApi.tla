------------------------------- MODULE AttrApi -------------------------------
(***************************************************************************)
(* Attr_API (comm/Attr_API.c): counters in shared memory that every        *)
(* process of the machine adds to without a lock.  A counter may live in   *)
(* one cell of each row of the table; its id and value are one 64-bit word *)
(* that is changed by compare-and-swap only.                               *)
(*                                                                         *)
(* The agent that collects the values and sets them back to zero is not    *)
(* part of the repository.                                                 *)
(***************************************************************************)
EXTENDS Integers, Sequences, FiniteSetsExt

CONSTANTS
  Clients,      \* processes that report, with one thread each
  Attrs,        \* attribute ids
  Rows,         \* AGENT_ATTR_SHM_HASH_TIMES
  CellOf,       \* CellOf[a][r]: the cell of attribute a in row r
  NoAttr,       \* dwAttrId = 0
  MaxDepth,     \* MAX_ATTEMPT_TIMES
  MaxReports,   \* bound: reports in all
  MaxCollects   \* bound: collections in all

(* Each row of the table is a part of it.                                  *)
ASSUME AttrAssumption ==
  /\ Rows \in Nat \ {0} /\ NoAttr \notin Attrs
  /\ \A a \in Attrs : \A q, r \in 1 .. Rows : CellOf[a][q] = CellOf[a][r] => q = r

Cells == {CellOf[a][r] : a \in Attrs, r \in 1 .. Rows}
Empty == [id |-> NoAttr, val |-> 0]

VARIABLES
  shm,        \* whether the segment exists
  node,       \* the cells
  at,         \* the clients: their place in a call and their locals
  added,      \* history: the value of the successful reports of each attribute
  collected,  \* history: what the agent has taken of each
  wiped,      \* history: what the memset of OI_GetShm2 has destroyed of each
  moved,      \* history: a cell has been taken from its attribute
  budget      \* the reports and collections left

attrVars == <<shm, node, at, added, collected, wiped, moved, budget>>

(* r the row it looks at, free the empty cells it has met, old its copy of *)
(* a cell, depth the recursion depth.                                      *)
Away == [pc |-> "away", a |-> NoAttr, v |-> 0, r |-> 0, free |-> << >>,
         old |-> Empty, depth |-> 0]
Ready == [Away EXCEPT !.pc = "ready"]

AttrInit ==
  /\ shm = FALSE /\ node = [c \in Cells |-> Empty]
  /\ at = [t \in Clients |-> Away]
  /\ added = [a \in Attrs |-> 0] /\ collected = [a \in Attrs |-> 0]
  /\ wiped = [a \in Attrs |-> 0] /\ moved = FALSE
  /\ budget = [reports |-> MaxReports, collects |-> MaxCollects]

Attr(t, here, rec) == at[t].pc = here /\ at' = [at EXCEPT ![t] = rec]
Cell(t) == CellOf[at[t].a][at[t].r]
Stored(a) == MapThenSumSet(LAMBDA c : node[c].val, {c \in Cells : node[c].id = a})

-----------------------------------------------------------------------------
(* InitShm through OI_GetShm2: attach, or else create and clear.  Another  *)
(* process can attach to the segment before it is cleared.                 *)
Attach(t) ==
  /\ Attr(t, "away", IF shm THEN Ready ELSE [Away EXCEPT !.pc = "create"])
  /\ UNCHANGED <<shm, node, added, collected, wiped, moved, budget>>
Create(t) ==
  /\ Attr(t, "create", [Away EXCEPT !.pc = "clear"]) /\ shm' = TRUE
  /\ UNCHANGED <<node, added, collected, wiped, moved, budget>>
ClearShm(t) ==
  /\ Attr(t, "clear", Ready)
  /\ node' = [c \in Cells |-> Empty]
  /\ wiped' = [a \in Attrs |-> wiped[a] + Stored(a)]
  /\ moved' = (moved \/ \E c \in Cells : node[c] # Empty)
  /\ UNCHANGED <<shm, added, collected, budget>>

-----------------------------------------------------------------------------
(* CreateOrUpdateNode.                                                     *)
Start(t, a, v) ==
  /\ budget.reports > 0 /\ budget' = [budget EXCEPT !.reports = @ - 1]
  /\ Attr(t, "ready", [Ready EXCEPT !.pc = "scan", !.a = a, !.v = v, !.r = 1])
  /\ UNCHANGED <<shm, node, added, collected, wiped, moved>>

Again(t) ==
  IF at[t].depth = MaxDepth THEN Ready
  ELSE [at[t] EXCEPT !.pc = "scan", !.r = 1, !.free = << >>, !.old = Empty,
                     !.depth = @ + 1]

Scan(t) ==
  LET me == at[t]
      past == IF me.r < Rows THEN [me EXCEPT !.r = @ + 1]
              ELSE [me EXCEPT !.pc = "past"]
  IN
  /\ me.pc = "scan"
  /\ Attr(t, "scan",
       CASE node[Cell(t)].id = NoAttr -> [past EXCEPT !.free = Append(@, Cell(t))]
         [] node[Cell(t)].id = me.a   -> [me EXCEPT !.pc = "copy"]
         [] OTHER                     -> past)
  /\ UNCHANGED <<shm, node, added, collected, wiped, moved, budget>>

(* The rows are exhausted: the first empty cell, or the last row.          *)
Past(t) ==
  /\ Attr(t, "past", IF at[t].free # << >> THEN [at[t] EXCEPT !.pc = "claim", !.r = 1]
                     ELSE [at[t] EXCEPT !.pc = "value", !.r = Rows])
  /\ UNCHANGED <<shm, node, added, collected, wiped, moved, budget>>

(* callback_AddValue.                                                      *)
Copy(t) ==
  /\ at[t].pc = "copy"
  /\ Attr(t, "copy", IF node[Cell(t)].id = at[t].a
                     THEN [at[t] EXCEPT !.pc = "add", !.old = node[Cell(t)]]
                     ELSE Again(t))
  /\ UNCHANGED <<shm, node, added, collected, wiped, moved, budget>>

(* A report that has reached its cell.                                     *)
Counted(t, c, v) ==
  /\ node' = [node EXCEPT ![c] = [id |-> at[t].a, val |-> v]]
  /\ added' = [added EXCEPT ![at[t].a] = @ + at[t].v]
  /\ at' = [at EXCEPT ![t] = Ready]
  /\ UNCHANGED <<shm, collected, wiped, budget>>

(* Mutant of AddValue: the sum is stored whatever the cell holds by then.  *)
AddValueBlind(t) ==
  /\ at[t].pc = "add"
  /\ Counted(t, Cell(t), at[t].old.val + at[t].v) /\ UNCHANGED moved

AddValue(t) ==
  /\ at[t].pc = "add" /\ node[Cell(t)] = at[t].old
  /\ Counted(t, Cell(t), at[t].old.val + at[t].v) /\ UNCHANGED moved
AddValueFails(t) ==
  /\ at[t].pc = "add" /\ node[Cell(t)] # at[t].old
  /\ Attr(t, "add", Again(t))
  /\ UNCHANGED <<shm, node, added, collected, wiped, moved, budget>>

(* A new cell for the attribute, among the ones that were empty.           *)
Claim(t) ==
  LET c == at[t].free[at[t].r] IN
  /\ at[t].pc = "claim" /\ node[c] = Empty
  /\ Counted(t, c, at[t].v) /\ UNCHANGED moved

(* Mutant of ClaimFails: the search goes on past the attribute's own cell. *)
ClaimFailsBlind(t) ==
  LET c == at[t].free[at[t].r] IN
  /\ at[t].pc = "claim" /\ node[c] # Empty
  /\ Attr(t, "claim", IF at[t].r < Len(at[t].free) THEN [at[t] EXCEPT !.r = @ + 1]
                      ELSE Ready)
  /\ UNCHANGED <<shm, node, added, collected, wiped, moved, budget>>

(* Another client was faster: with the same attribute, start again; with   *)
(* another one, try the next cell, or give up after the last.              *)
ClaimFails(t) ==
  LET c == at[t].free[at[t].r] IN
  /\ at[t].pc = "claim" /\ node[c] # Empty
  /\ Attr(t, "claim", IF node[c].id = at[t].a THEN Again(t)
                      ELSE IF at[t].r < Len(at[t].free) THEN [at[t] EXCEPT !.r = @ + 1]
                      ELSE Ready)
  /\ UNCHANGED <<shm, node, added, collected, wiped, moved, budget>>

(* No cell was empty: from the last row on, one whose value is zero.       *)
NextValue(t) ==
  IF at[t].r > 1 THEN [at[t] EXCEPT !.pc = "value", !.r = @ - 1, !.old = Empty]
  ELSE Ready
Value(t) ==
  /\ at[t].pc = "value"
  /\ Attr(t, "value", IF node[Cell(t)].val = 0
                      THEN [at[t] EXCEPT !.pc = "take", !.old = node[Cell(t)]]
                      ELSE NextValue(t))
  /\ UNCHANGED <<shm, node, added, collected, wiped, moved, budget>>
Take(t) ==
  /\ at[t].pc = "take" /\ node[Cell(t)] = at[t].old
  /\ Counted(t, Cell(t), at[t].v) /\ moved' = TRUE
TakeFails(t) ==
  /\ at[t].pc = "take" /\ node[Cell(t)] # at[t].old
  /\ Attr(t, "take", NextValue(t))
  /\ UNCHANGED <<shm, node, added, collected, wiped, moved, budget>>

(* The agent takes the value of a cell.                                    *)
Collect(c) ==
  /\ node[c].val > 0 /\ budget.collects > 0
  /\ budget' = [budget EXCEPT !.collects = @ - 1]
  /\ collected' = [collected EXCEPT ![node[c].id] = @ + node[c].val]
  /\ node' = [node EXCEPT ![c].val = 0]
  /\ UNCHANGED <<shm, at, added, wiped, moved>>

AttrNext ==
  \/ \E t \in Clients :
       \/ Attach(t) \/ Create(t) \/ ClearShm(t)
       \/ \E a \in Attrs : Start(t, a, 1)
       \/ Scan(t) \/ Past(t) \/ Copy(t) \/ AddValue(t) \/ AddValueFails(t)
       \/ Claim(t) \/ ClaimFails(t) \/ Value(t) \/ Take(t) \/ TakeFails(t)
  \/ \E c \in Cells : Collect(c)

AttrSpec == AttrInit /\ [][AttrNext]_attrVars

-----------------------------------------------------------------------------
(* Every report that Attr_API has accepted is in the table or with the     *)
(* agent, in whatever order clients claim, share and take over cells; only *)
(* the memset of a process that created the segment destroys any.          *)
CountsKept ==
  \A a \in Attrs : added[a] = collected[a] + wiped[a] + Stored(a)

(* An attribute has one cell, so that a reader of the table finds all of   *)
(* its value there, until a cell has been taken from its attribute, by the *)
(* memset or for its zero value.                                           *)
OneCell ==
  ~ moved =>
    \A a \in Attrs : \A c, d \in Cells :
      node[c].id = a /\ node[d].id = a => c = d
=============================================================================
