---------------------------- MODULE AttrApiProofs ----------------------------
(***************************************************************************)
(* OneCell for any number of clients, attributes and rows, and any places  *)
(* of the attributes' cells: clients that create the same attribute at     *)
(* once end with one cell.                                                 *)
(*                                                                         *)
(* The argument: as long as no cell has been taken from its attribute, an  *)
(* attribute is only ever created in the first of its cells that nobody    *)
(* uses, so the cells before its own belong to others (InFirst).  A client *)
(* that is about to create it knows the same of the cells it has passed,   *)
(* when it scanned them or when it failed to claim them (Passed).          *)
(***************************************************************************)
EXTENDS AttrApi, TLAPS

Ids == Attrs \cup {NoAttr}
Word == [id : Ids, val : Nat]
ClientState ==
  [pc : {"away", "create", "clear", "ready", "scan", "past", "copy", "add", "claim",
         "value", "take"},
   a : Ids, v : Nat, r : Nat, free : Seq(Cells), old : Word, depth : Nat]

Row == 1 .. Rows
InRow == {"scan", "copy", "add", "value", "take"}
Busy == InRow \cup {"past", "claim"}

(* Types, with what is known of the locals at each place.                  *)
Local(me) ==
  /\ me.pc \in Busy => me.a \in Attrs
  /\ me.pc \in InRow => me.r \in Row
  /\ me.pc = "claim" => me.r \in 1 .. Len(me.free)
  /\ me.pc = "add" => me.old.id = me.a
TypeInv ==
  /\ node \in [Cells -> Word] /\ at \in [Clients -> ClientState] /\ moved \in BOOLEAN
  /\ \A t \in Clients : Local(at[t])

(* The following take the cells as an argument, so as to speak of node and *)
(* of node' alike.  A cell that is used is one of its attribute's; the     *)
(* others have no value.                                                   *)
Home(nd) ==
  \A c \in Cells : IF nd[c].id = NoAttr THEN nd[c].val = 0
                   ELSE \E r \in Row : c = CellOf[nd[c].id][r]

(* The empty cells that a client has met are cells of its attribute, from  *)
(* the rows it has seen and in their order.                                *)
Seen(me) == IF me.pc = "scan" THEN me.r - 1 ELSE Rows
FreeSound(me) ==
  me.pc \in {"scan", "past", "claim"} =>
    /\ \A i \in 1 .. Len(me.free) : \E q \in 1 .. Seen(me) : me.free[i] = CellOf[me.a][q]
    /\ \A i, j \in 1 .. Len(me.free) : \A q, s \in Row :
         i < j /\ me.free[i] = CellOf[me.a][q] /\ me.free[j] = CellOf[me.a][s] => q < s

(* Cell c belongs to another attribute than a.                             *)
Taken(nd, c, a) == nd[c].id # NoAttr /\ nd[c].id # a

(* What a client knows of the cells it has passed.                         *)
Passed(nd, me) ==
  /\ me.pc \in {"scan", "past", "claim"} =>
       \A q \in 1 .. Seen(me) : \/ \E i \in 1 .. Len(me.free) : me.free[i] = CellOf[me.a][q]
                                \/ Taken(nd, CellOf[me.a][q], me.a)
  /\ me.pc = "claim" => \A i \in 1 .. me.r - 1 : Taken(nd, me.free[i], me.a)

(* An attribute is in the first of its cells that no other one has.        *)
InFirst(nd) ==
  \A a \in Attrs : \A r \in Row :
    nd[CellOf[a][r]].id = a => \A q \in 1 .. r - 1 : Taken(nd, CellOf[a][q], a)

AttrInv ==
  /\ TypeInv /\ Home(node) /\ \A t \in Clients : FreeSound(at[t])
  /\ ~ moved => InFirst(node) /\ \A t \in Clients : Passed(node, at[t])

(* The cells that are used keep their attribute.                           *)
Kept(nd, ne) == \A c \in Cells : nd[c].id # NoAttr => ne[c].id = nd[c].id

-----------------------------------------------------------------------------
(* The cells of an attribute are cells.                                    *)
LEMMA CellsOf == \A a \in Attrs : \A r \in Row : CellOf[a][r] \in Cells
  BY DEF Cells, Row

(* The first states of a client.                                           *)
LEMMA EmptyState == Empty \in Word /\ << >> \in Seq(Cells) /\ NoAttr \in Ids
  BY DEF Empty, Word, Ids
LEMMA ReadyState == /\ Away \in ClientState /\ Ready \in ClientState
                    /\ Ready.pc = "ready" /\ Away.pc = "away"
<1>1. Away \in ClientState
  BY EmptyState, SMT DEF Away, ClientState
<1>2. Ready = [pc |-> "ready", a |-> NoAttr, v |-> 0, r |-> 0, free |-> << >>,
              old |-> Empty, depth |-> 0]
  BY SMT DEF Ready, Away
<1>3. Ready \in ClientState
  BY <1>2, EmptyState, SMT DEF ClientState
<1> QED BY <1>1, <1>2, <1>3, Zenon DEF Away
LEMMA IdleLocal ==
  ASSUME NEW me, me.pc \notin Busy, NEW nd
  PROVE  Local(me) /\ FreeSound(me) /\ Passed(nd, me)
  BY DEF Local, FreeSound, Passed, Busy, InRow

(* Assigning one local at a time keeps a client's record well typed.       *)
Place == {"away", "create", "clear"} \cup {"ready"} \cup Busy
LEMMA Assign ==
  ASSUME NEW me \in ClientState
  PROVE  /\ \A x \in Place : [me EXCEPT !.pc = x] \in ClientState
         /\ \A x \in Attrs : [me EXCEPT !.a = x] \in ClientState
         /\ \A x \in Nat : [me EXCEPT !.v = x] \in ClientState
         /\ \A x \in Nat : [me EXCEPT !.r = x] \in ClientState
         /\ \A x \in Seq(Cells) : [me EXCEPT !.free = x] \in ClientState
         /\ \A x \in Word : [me EXCEPT !.old = x] \in ClientState
         /\ \A x \in Nat : [me EXCEPT !.depth = x] \in ClientState
  BY DEF ClientState, Place, Busy, InRow, Ids

(* A client that begins a search, again or not, or gives up, is in order.  *)
LEMMA Searching ==
  ASSUME NEW me \in ClientState, NEW nd, me.a \in Attrs, me.pc = "scan", me.r = 1,
         me.free = << >>
  PROVE  Local(me) /\ FreeSound(me) /\ Passed(nd, me)
<1>1. Local(me)
  BY AttrAssumption DEF Local, Busy, InRow, Row
<1>2. Seen(me) = 0 /\ Len(me.free) = 0
  BY DEF Seen
<1> QED BY <1>1, <1>2 DEF FreeSound, Passed

LEMMA AgainState ==
  ASSUME TypeInv, NEW t \in Clients, at[t].a \in Attrs, NEW nd
  PROVE  /\ Again(t) \in ClientState /\ Local(Again(t))
         /\ FreeSound(Again(t)) /\ Passed(nd, Again(t))
<1>1. at[t] \in ClientState
  BY DEF TypeInv
<1>2. CASE at[t].depth = MaxDepth
  BY <1>2, ReadyState, IdleLocal DEF Again, Busy, InRow
<1>3. CASE at[t].depth # MaxDepth
  <2>1. "scan" \in Place /\ 1 \in Nat /\ at[t].depth + 1 \in Nat
    BY <1>1 DEF Place, Busy, InRow, ClientState
  <2>2. Again(t) \in ClientState
    BY <1>1, <1>3, <2>1, EmptyState, Assign DEF Again
  <2>3. /\ Again(t).pc = "scan" /\ Again(t).r = 1 /\ Again(t).free = << >>
        /\ Again(t).a = at[t].a
    BY <1>1, <1>3 DEF Again, ClientState
  <2> QED BY <2>2, <2>3, Searching
<1> QED BY <1>2, <1>3

(* A client loses nothing it knows while used cells keep their attribute.  *)
LEMMA PassedKept ==
  ASSUME NEW nd, NEW ne, Kept(nd, ne), NEW me \in ClientState, Local(me), FreeSound(me),
         Passed(nd, me)
  PROVE  Passed(ne, me)
<1>1. ASSUME me.pc \in {"scan", "past", "claim"}, NEW c \in Cells, Taken(nd, c, me.a)
      PROVE  Taken(ne, c, me.a)
  BY <1>1 DEF Taken, Kept
<1>2. ASSUME me.pc \in {"scan", "past", "claim"}, NEW q \in 1 .. Seen(me)
      PROVE  me.a \in Attrs /\ CellOf[me.a][q] \in Cells
  BY <1>2, CellsOf, AttrAssumption DEF Seen, Local, Busy, InRow, Row
<1>3. ASSUME me.pc = "claim", NEW i \in 1 .. me.r - 1
      PROVE  me.free[i] \in Cells
  BY <1>3 DEF Local, ClientState
<1> QED BY <1>1, <1>2, <1>3 DEF Passed

(* What there is to show for a step of client t.                           *)
LEMMA ClientStep ==
  ASSUME AttrInv, NEW t \in Clients, NEW me \in ClientState,
         at' = [at EXCEPT ![t] = me], Local(me), FreeSound(me),
         node' \in [Cells -> Word], moved' \in BOOLEAN, Home(node'),
         ~ moved' => /\ ~ moved /\ Kept(node, node') /\ InFirst(node')
                     /\ Passed(node', me)
  PROVE  AttrInv'
<1>1. \A u \in Clients : at'[u] = IF u = t THEN me ELSE at[u]
  BY DEF AttrInv, TypeInv
<1>2. at' \in [Clients -> ClientState] /\ \A u \in Clients : Local(at'[u]) /\ FreeSound(at'[u])
  BY <1>1 DEF AttrInv, TypeInv
<1>3. ASSUME ~ moved', NEW u \in Clients PROVE Passed(node', at'[u])
  <2>1. CASE u = t
    BY <1>1, <1>3, <2>1
  <2>2. CASE u # t
    <3>1. at[u] \in ClientState /\ Local(at[u]) /\ FreeSound(at[u]) /\ Passed(node, at[u])
      BY <1>3 DEF AttrInv, TypeInv
    <3> QED BY <1>1, <1>3, <2>2, <3>1, PassedKept
  <2> QED BY <2>1, <2>2
<1>4. TypeInv'
  BY <1>2 DEF TypeInv
<1> QED BY <1>2, <1>3, <1>4 DEF AttrInv

(* A step of client t that leaves the cells alone.                         *)
LEMMA LocalStep ==
  ASSUME AttrInv, NEW t \in Clients, NEW me \in ClientState,
         at' = [at EXCEPT ![t] = me], Local(me), FreeSound(me),
         ~ moved => Passed(node, me), UNCHANGED <<node, moved>>
  PROVE  AttrInv'
<1>1. Kept(node, node) /\ node' = node /\ moved' = moved
  BY DEF Kept
<1> QED BY <1>1, ClientStep DEF AttrInv, TypeInv

(* Cells that keep their ids, or get one, in the first place there is.     *)
LEMMA FirstKept ==
  ASSUME NEW nd, NEW ne, InFirst(nd), Kept(nd, ne),
         \A a \in Attrs : \A r \in Row :
           ne[CellOf[a][r]].id = a /\ nd[CellOf[a][r]].id = NoAttr =>
             \A q \in 1 .. r - 1 : Taken(nd, CellOf[a][q], a)
  PROVE  InFirst(ne)
<1> SUFFICES ASSUME NEW a \in Attrs, NEW r \in Row, ne[CellOf[a][r]].id = a,
                    NEW q \in 1 .. r - 1
             PROVE  Taken(ne, CellOf[a][q], a)
  BY DEF InFirst
<1>1. q \in Row /\ CellOf[a][q] \in Cells /\ CellOf[a][r] \in Cells
  <2>1. q \in Row
    BY AttrAssumption DEF Row
  <2> QED BY <2>1, CellsOf
<1>2. Taken(nd, CellOf[a][q], a)
  <2>1. CASE nd[CellOf[a][r]].id = NoAttr
    BY <2>1
  <2>2. CASE nd[CellOf[a][r]].id # NoAttr
    BY <1>1, <2>2 DEF Kept, InFirst
  <2> QED BY <2>1, <2>2
<1> QED BY <1>1, <1>2 DEF Taken, Kept

-----------------------------------------------------------------------------
(* One lemma for each kind of step.  First those on the way to the table.  *)
LEMMA InitSteps ==
  ASSUME AttrInv, NEW t \in Clients, Attach(t) \/ Create(t)
  PROVE  AttrInv'
<1>1. PICK x \in {"create", "clear", "ready"} :
        at' = [at EXCEPT ![t] = [Away EXCEPT !.pc = x]]
  BY DEF Attach, Create, Attr, Ready
<1>2. [Away EXCEPT !.pc = x] \in ClientState
  BY ReadyState, Assign DEF Place
<1>3. [Away EXCEPT !.pc = x].pc = x
  BY DEF Away
<1>4. UNCHANGED <<node, moved>>
  BY DEF Attach, Create
<1> QED BY <1>1, <1>2, <1>3, <1>4, IdleLocal, LocalStep DEF Busy, InRow

LEMMA ClearStep ==
  ASSUME AttrInv, NEW t \in Clients, ClearShm(t)
  PROVE  AttrInv'
<1>1. /\ at' = [at EXCEPT ![t] = Ready] /\ node' = [c \in Cells |-> Empty]
      /\ moved' = (moved \/ \E c \in Cells : node[c] # Empty)
  BY DEF ClearShm, Attr
<1>2. /\ node' \in [Cells -> Word] /\ moved' \in BOOLEAN
      /\ \A c \in Cells : node'[c].id = NoAttr /\ node'[c].val = 0
  BY <1>1, EmptyState DEF Empty
<1>3. Home(node')
  BY <1>2 DEF Home
<1>4. InFirst(node')
  BY <1>2, CellsOf, AttrAssumption DEF InFirst
<1>5. ASSUME ~ moved' PROVE ~ moved /\ Kept(node, node')
  BY <1>1, <1>5 DEF Kept, Empty
<1>6. Ready.pc \notin Busy
  BY ReadyState DEF Busy, InRow
<1> QED BY <1>1, <1>2, <1>3, <1>4, <1>5, <1>6, ReadyState, IdleLocal, ClientStep

(* Start.                                                                  *)
LEMMA StartStep ==
  ASSUME AttrInv, NEW t \in Clients, NEW a \in Attrs, Start(t, a, 1)
  PROVE  AttrInv'
<1> DEFINE me == [Ready EXCEPT !.pc = "scan", !.a = a, !.v = 1, !.r = 1]
<1>1. at' = [at EXCEPT ![t] = me] /\ UNCHANGED <<node, moved>>
  BY DEF Start, Attr
<1>2. me \in ClientState
  <2>1. "scan" \in Place /\ 1 \in Nat
    BY DEF Place, Busy, InRow
  <2> QED BY <2>1, ReadyState, Assign
<1>3. me.a = a /\ me.pc = "scan" /\ me.r = 1 /\ me.free = << >>
  BY DEF Ready, Away
<1> HIDE DEF me
<1> QED BY <1>1, <1>2, <1>3, Searching, LocalStep

(* A client that has looked at a cell of its attribute that is empty, or   *)
(* that belongs to another one, and goes on.                               *)
LEMMA Advance ==
  ASSUME NEW me \in ClientState, NEW ne \in ClientState, NEW nd,
         me.pc = "scan", Local(me), FreeSound(me), ne.a = me.a,
         \/ ne.pc = "scan" /\ me.r < Rows /\ ne.r = me.r + 1
         \/ ne.pc = "past" /\ me.r = Rows,
         \/ ne.free = Append(me.free, CellOf[me.a][me.r])
         \/ ne.free = me.free /\ Taken(nd, CellOf[me.a][me.r], me.a)
  PROVE  Local(ne) /\ FreeSound(ne) /\ (Passed(nd, me) => Passed(nd, ne))
<1> DEFINE c == CellOf[me.a][me.r]
<1>1. me.a \in Attrs /\ me.r \in Row /\ c \in Cells
  BY CellsOf DEF Local, Busy, InRow
<1>2. me.r \in Nat /\ ne.r \in Nat /\ Rows \in Nat /\ me.free \in Seq(Cells)
  BY AttrAssumption DEF ClientState
<1>3. Local(ne)
  BY <1>1, <1>2 DEF Local, Busy, InRow, Row
<1>4. Seen(ne) = me.r /\ Seen(me) = me.r - 1 /\ me.r \in 1 .. Rows
  BY <1>1, <1>2 DEF Seen, Row
<1>5. \A i \in 1 .. Len(me.free) : \E q \in 1 .. me.r - 1 : me.free[i] = CellOf[me.a][q]
  BY <1>4 DEF FreeSound
<1>6. \A i, j \in 1 .. Len(me.free) : \A q, s \in Row :
        i < j /\ me.free[i] = CellOf[me.a][q] /\ me.free[j] = CellOf[me.a][s] => q < s
  BY DEF FreeSound
<1>7. CASE ne.free = me.free /\ Taken(nd, c, me.a)
  <2>1. FreeSound(ne)
    BY <1>2, <1>4, <1>5, <1>6, <1>7 DEF FreeSound
  <2>2. ASSUME Passed(nd, me), NEW q \in 1 .. me.r
        PROVE  \/ \E i \in 1 .. Len(ne.free) : ne.free[i] = CellOf[ne.a][q]
               \/ Taken(nd, CellOf[ne.a][q], ne.a)
    BY <1>2, <1>4, <1>7, <2>2 DEF Passed
  <2> QED BY <1>3, <1>4, <2>1, <2>2 DEF Passed
<1>8. CASE ne.free = Append(me.free, c)
  <2>1. /\ Len(ne.free) = Len(me.free) + 1 /\ Len(me.free) \in Nat
        /\ \A i \in 1 .. Len(me.free) : ne.free[i] = me.free[i]
        /\ ne.free[Len(me.free) + 1] = c
    BY <1>1, <1>2, <1>8
  <2>2. \A i \in 1 .. Len(ne.free) : \E q \in 1 .. me.r : ne.free[i] = CellOf[me.a][q]
    <3> TAKE i \in 1 .. Len(ne.free)
    <3>1. CASE i = Len(me.free) + 1
      BY <1>4, <2>1, <3>1
    <3>2. CASE i # Len(me.free) + 1
      <4>1. i \in 1 .. Len(me.free)
        BY <2>1, <3>2
      <4>2. PICK q \in 1 .. me.r - 1 : me.free[i] = CellOf[me.a][q]
        BY <1>5, <4>1
      <4>3. q \in 1 .. me.r
        BY <1>2
      <4> QED BY <2>1, <4>1, <4>2, <4>3
    <3> QED BY <3>1, <3>2
  <2>3. ASSUME NEW i \in 1 .. Len(ne.free), NEW j \in 1 .. Len(ne.free), NEW q \in Row,
               NEW s \in Row, i < j, ne.free[i] = CellOf[me.a][q],
               ne.free[j] = CellOf[me.a][s]
        PROVE  q < s
    <3>1. i \in 1 .. Len(me.free) /\ ne.free[i] = me.free[i]
      BY <2>1, <2>3
    <3>2. CASE j = Len(me.free) + 1
      <4>1. s = me.r
        BY <1>1, <2>1, <2>3, <3>2, AttrAssumption DEF Row
      <4>2. PICK p \in 1 .. me.r - 1 : me.free[i] = CellOf[me.a][p]
        BY <1>5, <3>1
      <4>3. p \in Row /\ p < me.r
        BY <1>2, <1>4 DEF Row
      <4>4. p = q
        BY <1>1, <2>3, <3>1, <4>2, <4>3, AttrAssumption DEF Row
      <4> QED BY <4>1, <4>3, <4>4
    <3>3. CASE j # Len(me.free) + 1
      <4>1. j \in 1 .. Len(me.free) /\ ne.free[j] = me.free[j]
        BY <2>1, <3>3
      <4> QED BY <1>6, <2>3, <3>1, <4>1
    <3> QED BY <3>2, <3>3
  <2>4. FreeSound(ne)
    BY <1>4, <2>2, <2>3 DEF FreeSound
  <2>5. ASSUME Passed(nd, me), NEW q \in 1 .. me.r
        PROVE  \/ \E i \in 1 .. Len(ne.free) : ne.free[i] = CellOf[ne.a][q]
               \/ Taken(nd, CellOf[ne.a][q], ne.a)
    <3>1. CASE q = me.r
      <4>1. Len(me.free) + 1 \in 1 .. Len(ne.free)
        BY <2>1
      <4> QED BY <2>1, <3>1, <4>1
    <3>2. CASE q # me.r
      <4>1. q \in 1 .. Seen(me)
        BY <1>2, <1>4, <3>2
      <4>2. \/ \E i \in 1 .. Len(me.free) : me.free[i] = CellOf[me.a][q]
            \/ Taken(nd, CellOf[me.a][q], me.a)
        BY <2>5, <4>1 DEF Passed
      <4>3. \A i \in 1 .. Len(me.free) : i \in 1 .. Len(ne.free)
        BY <2>1
      <4> QED BY <2>1, <4>2, <4>3
    <3> QED BY <3>1, <3>2
  <2> QED BY <1>3, <1>4, <2>4, <2>5 DEF Passed
<1> QED BY <1>7, <1>8

LEMMA ScanStep ==
  ASSUME AttrInv, NEW t \in Clients, Scan(t)
  PROVE  AttrInv'
<1> DEFINE me == at[t]
           past == IF me.r < Rows THEN [me EXCEPT !.r = @ + 1] ELSE [me EXCEPT !.pc = "past"]
<1>1. me \in ClientState /\ Local(me) /\ FreeSound(me) /\ (~ moved => Passed(node, me))
  BY DEF AttrInv, TypeInv
<1>2. me.pc = "scan" /\ UNCHANGED <<node, moved>>
  BY DEF Scan
<1>3. me.a \in Attrs /\ me.r \in 1 .. Rows /\ Cell(t) \in Cells
  BY <1>1, <1>2, CellsOf DEF Local, Busy, InRow, Row, Cell
<1>4. /\ past \in ClientState /\ past.a = me.a /\ past.free = me.free
      /\ \/ past.pc = "scan" /\ me.r < Rows /\ past.r = me.r + 1
         \/ past.pc = "past" /\ me.r = Rows
  <2>1. me.r + 1 \in Nat /\ "past" \in Place /\ Rows \in Nat
    BY <1>3, AttrAssumption DEF Place, Busy, InRow
  <2>2. CASE me.r < Rows
    <3>1. past = [me EXCEPT !.r = me.r + 1]
      BY <2>2
    <3>2. past \in ClientState
      BY <1>1, <2>1, <3>1, Assign
    <3>3. past.a = me.a /\ past.free = me.free /\ past.pc = me.pc /\ past.r = me.r + 1
      BY <1>1, <3>1 DEF ClientState
    <3> QED BY <1>2, <2>2, <3>2, <3>3
  <2>3. CASE ~ (me.r < Rows)
    <3>1. past = [me EXCEPT !.pc = "past"] /\ me.r = Rows
      BY <1>3, <2>1, <2>3
    <3>2. past \in ClientState
      BY <1>1, <2>1, <3>1, Assign
    <3>3. past.a = me.a /\ past.free = me.free /\ past.pc = "past"
      BY <1>1, <3>1 DEF ClientState
    <3> QED BY <3>1, <3>2, <3>3
  <2> QED BY <2>2, <2>3
<1>5. CASE node[Cell(t)].id = NoAttr
  <2> DEFINE ne == [past EXCEPT !.free = Append(@, Cell(t))]
  <2>1. at' = [at EXCEPT ![t] = ne]
    <3>1. node[Cell(t)].id # me.a
      BY <1>3, <1>5, AttrAssumption
    <3> QED BY <1>5, <3>1, Zenon DEF Scan, Attr
  <2>2. ne = [past EXCEPT !.free = Append(me.free, Cell(t))]
    BY <1>4
  <2>3. Append(me.free, Cell(t)) \in Seq(Cells)
    BY <1>1, <1>3 DEF ClientState
  <2> HIDE DEF past
  <2>4. ne \in ClientState
    BY <1>4, <2>2, <2>3, Assign
  <2>5. /\ ne.a = past.a /\ ne.pc = past.pc /\ ne.r = past.r
        /\ ne.free = Append(me.free, Cell(t))
    BY <1>4, <2>2 DEF ClientState
  <2> HIDE DEF ne
  <2>6. ne.free = Append(me.free, CellOf[me.a][me.r])
    BY <2>5 DEF Cell
  <2>7. /\ ne.a = me.a
        /\ \/ ne.pc = "scan" /\ me.r < Rows /\ ne.r = me.r + 1
           \/ ne.pc = "past" /\ me.r = Rows
    BY <1>4, <2>5
  <2> HIDE DEF me
  <2>8. Local(ne) /\ FreeSound(ne) /\ (Passed(node, me) => Passed(node, ne))
    BY <1>1, <1>2, <2>4, <2>6, <2>7, Advance, Zenon
  <2> QED BY <1>1, <1>2, <2>1, <2>4, <2>8, LocalStep
<1>6. CASE node[Cell(t)].id = me.a
  <2> DEFINE ne == [me EXCEPT !.pc = "copy"]
  <2>1. me.a # NoAttr
    BY <1>3, AttrAssumption
  <2>2. at' = [at EXCEPT ![t] = ne]
    BY <1>6, <2>1 DEF Scan, Attr
  <2>3. ne \in ClientState
    BY <1>1, Assign DEF Place, Busy, InRow
  <2>4. ne.pc = "copy" /\ ne.a = me.a /\ ne.r = me.r
    BY <1>1 DEF ClientState
  <2> HIDE DEF ne
  <2>5. Local(ne) /\ FreeSound(ne) /\ Passed(node, ne)
    BY <1>3, <2>4 DEF Local, FreeSound, Passed, Busy, InRow, Row
  <2> QED BY <1>2, <2>2, <2>3, <2>5, LocalStep
<1>7. CASE node[Cell(t)].id # NoAttr /\ node[Cell(t)].id # me.a
  <2>1. at' = [at EXCEPT ![t] = past]
    BY <1>7 DEF Scan, Attr
  <2>2. Taken(node, CellOf[me.a][me.r], me.a)
    BY <1>7 DEF Taken, Cell
  <2> HIDE DEF past, me
  <2>3. Local(past) /\ FreeSound(past) /\ (Passed(node, me) => Passed(node, past))
    BY <1>1, <1>2, <1>4, <2>2, Advance, Zenon
  <2> QED BY <1>1, <1>2, <1>4, <2>1, <2>3, LocalStep
<1> QED BY <1>5, <1>6, <1>7

LEMMA PastStep ==
  ASSUME AttrInv, NEW t \in Clients, Past(t)
  PROVE  AttrInv'
<1> DEFINE me == at[t]
<1>1. me \in ClientState /\ Local(me) /\ FreeSound(me) /\ (~ moved => Passed(node, me))
  BY DEF AttrInv, TypeInv
<1>2. me.pc = "past" /\ UNCHANGED <<node, moved>>
  BY DEF Past, Attr
<1>3. me.a \in Attrs /\ Rows \in Row /\ Rows \in Nat /\ Seen(me) = Rows
  BY <1>1, <1>2, AttrAssumption DEF Local, Busy, InRow, Row, Seen
<1>4. CASE me.free # << >>
  <2> DEFINE ne == [me EXCEPT !.pc = "claim", !.r = 1]
  <2>1. at' = [at EXCEPT ![t] = ne]
    BY <1>4 DEF Past, Attr
  <2>2. ne \in ClientState
    <3>1. "claim" \in Place /\ 1 \in Nat
      BY DEF Place, Busy, InRow
    <3> QED BY <1>1, <3>1, Assign
  <2>3. ne.pc = "claim" /\ ne.a = me.a /\ ne.r = 1 /\ ne.free = me.free
    BY <1>1 DEF ClientState
  <2> HIDE DEF ne
  <2>4. 1 \in 1 .. Len(me.free)
    BY <1>1, <1>4 DEF ClientState
  <2>5. Local(ne)
    BY <1>3, <2>3, <2>4 DEF Local, Busy, InRow
  <2>6. Seen(ne) = Rows
    BY <2>3 DEF Seen
  <2>7. FreeSound(ne)
    BY <1>1, <1>2, <1>3, <2>3, <2>6 DEF FreeSound
  <2>8. Passed(node, me) => Passed(node, ne)
    BY <1>2, <1>3, <2>3, <2>6 DEF Passed
  <2> QED BY <1>1, <1>2, <2>1, <2>2, <2>5, <2>7, <2>8, LocalStep
<1>5. CASE me.free = << >>
  <2> DEFINE ne == [me EXCEPT !.pc = "value", !.r = Rows]
  <2>1. at' = [at EXCEPT ![t] = ne]
    BY <1>5 DEF Past, Attr
  <2>2. ne \in ClientState
    <3>1. "value" \in Place
      BY DEF Place, Busy, InRow
    <3> QED BY <1>1, <1>3, <3>1, Assign
  <2>3. ne.pc = "value" /\ ne.a = me.a /\ ne.r = Rows
    BY <1>1 DEF ClientState
  <2> HIDE DEF ne
  <2>4. Local(ne) /\ FreeSound(ne) /\ Passed(node, ne)
    BY <1>3, <2>3 DEF Local, FreeSound, Passed, Busy, InRow
  <2> QED BY <1>2, <2>1, <2>2, <2>4, LocalStep
<1> QED BY <1>4, <1>5

LEMMA CopyStep ==
  ASSUME AttrInv, NEW t \in Clients, Copy(t)
  PROVE  AttrInv'
<1> DEFINE me == at[t]
<1>1. me \in ClientState /\ Local(me) /\ me.pc = "copy" /\ UNCHANGED <<node, moved>>
  BY DEF AttrInv, TypeInv, Copy
<1>2. me.a \in Attrs /\ me.r \in Row /\ Cell(t) \in Cells /\ node[Cell(t)] \in Word
  BY <1>1, CellsOf DEF Local, Busy, InRow, Cell, AttrInv, TypeInv
<1>3. CASE node[Cell(t)].id = me.a
  <2> DEFINE ne == [me EXCEPT !.pc = "add", !.old = node[Cell(t)]]
  <2>1. at' = [at EXCEPT ![t] = ne]
    BY <1>3 DEF Copy, Attr
  <2>2. ne \in ClientState
    <3>1. "add" \in Place
      BY DEF Place, Busy, InRow
    <3> QED BY <1>1, <1>2, <3>1, Assign
  <2>3. ne.pc = "add" /\ ne.a = me.a /\ ne.r = me.r /\ ne.old = node[Cell(t)]
    BY <1>1 DEF ClientState
  <2> HIDE DEF ne
  <2>4. Local(ne) /\ FreeSound(ne) /\ Passed(node, ne)
    BY <1>2, <1>3, <2>3 DEF Local, FreeSound, Passed, Busy, InRow
  <2> QED BY <1>1, <2>1, <2>2, <2>4, LocalStep
<1>4. CASE node[Cell(t)].id # me.a
  <2>1. at' = [at EXCEPT ![t] = Again(t)]
    BY <1>4 DEF Copy, Attr
  <2> QED BY <1>1, <1>2, <2>1, AgainState, LocalStep DEF AttrInv
<1> QED BY <1>3, <1>4

(* What a report does to the cells.                                        *)
LEMMA CountedNode ==
  ASSUME AttrInv, NEW t \in Clients, NEW c \in Cells, NEW v \in Nat, Counted(t, c, v),
         at[t].a \in Attrs, NEW r \in Row, c = CellOf[at[t].a][r]
  PROVE  /\ node' \in [Cells -> Word] /\ Home(node') /\ at' = [at EXCEPT ![t] = Ready]
         /\ node'[c].id = at[t].a
         /\ \A d \in Cells \ {c} : node'[d] = node[d]
<1>1. [id |-> at[t].a, val |-> v] \in Word
  BY DEF Word, Ids
<1>2. node \in [Cells -> Word] /\ Home(node)
  BY DEF AttrInv, TypeInv
<1>3. /\ node' \in [Cells -> Word] /\ node'[c].id = at[t].a
      /\ \A d \in Cells \ {c} : node'[d] = node[d]
  BY <1>1, <1>2 DEF Counted
<1>4. Home(node')
  BY <1>2, <1>3, AttrAssumption DEF Home
<1> QED BY <1>3, <1>4 DEF Counted

LEMMA AddValueStep ==
  ASSUME AttrInv, NEW t \in Clients, AddValue(t)
  PROVE  AttrInv'
<1>1. at[t] \in ClientState /\ Local(at[t]) /\ at[t].pc = "add"
  BY DEF AttrInv, TypeInv, AddValue
<1>2. at[t].a \in Attrs /\ at[t].r \in Row /\ Cell(t) = CellOf[at[t].a][at[t].r]
  BY <1>1 DEF Local, Busy, InRow, Cell
<1>3. Cell(t) \in Cells
  BY <1>2, CellsOf
<1>4. at[t].old.val + at[t].v \in Nat
  BY <1>1 DEF ClientState, Word
<1>5. /\ Counted(t, Cell(t), at[t].old.val + at[t].v) /\ moved' = moved
      /\ node[Cell(t)].id = at[t].a
  BY <1>1 DEF AddValue, Local
<1>6. /\ node' \in [Cells -> Word] /\ Home(node') /\ at' = [at EXCEPT ![t] = Ready]
      /\ node'[Cell(t)].id = at[t].a
      /\ \A d \in Cells \ {Cell(t)} : node'[d] = node[d]
  BY <1>2, <1>3, <1>4, <1>5, CountedNode
<1>7. \A d \in Cells : node'[d].id = node[d].id
  BY <1>5, <1>6
<1>8. Kept(node, node')
  BY <1>7 DEF Kept
<1>9. ASSUME ~ moved PROVE InFirst(node')
  <2>1. InFirst(node)
    BY <1>9 DEF AttrInv
  <2> QED BY <1>7, <1>8, <2>1, CellsOf, AttrAssumption, FirstKept
<1>10. Ready \in ClientState /\ Ready.pc \notin Busy /\ moved \in BOOLEAN
  BY ReadyState DEF Busy, InRow, AttrInv, TypeInv
<1> QED BY <1>5, <1>6, <1>8, <1>9, <1>10, IdleLocal, ClientStep

LEMMA AddValueFailsStep ==
  ASSUME AttrInv, NEW t \in Clients, AddValueFails(t)
  PROVE  AttrInv'
<1>1. at[t].a \in Attrs
  BY DEF AttrInv, TypeInv, AddValueFails, Local, Busy, InRow
<1>2. at' = [at EXCEPT ![t] = Again(t)] /\ UNCHANGED <<node, moved>>
  BY DEF AddValueFails, Attr
<1> QED BY <1>1, <1>2, AgainState, LocalStep DEF AttrInv

(* A new cell for an attribute is the first that no other one has.         *)
LEMMA ClaimStep ==
  ASSUME AttrInv, NEW t \in Clients, Claim(t)
  PROVE  AttrInv'
<1> DEFINE me == at[t]
           c == me.free[me.r]
<1>1. /\ me \in ClientState /\ Local(me) /\ FreeSound(me) /\ me.pc = "claim"
      /\ (~ moved => Passed(node, me))
  BY DEF AttrInv, TypeInv, Claim
<1>2. me.a \in Attrs /\ me.r \in 1 .. Len(me.free) /\ Seen(me) = Rows /\ me.v \in Nat
  BY <1>1 DEF Local, Busy, InRow, Seen, ClientState
<1>3. PICK r \in Row : c = CellOf[me.a][r]
  BY <1>1, <1>2 DEF FreeSound, Row
<1>4. c \in Cells
  BY <1>2, <1>3, CellsOf
<1>5. Counted(t, c, me.v) /\ moved' = moved /\ node[c].id = NoAttr
  BY DEF Claim, Empty
<1>6. /\ node' \in [Cells -> Word] /\ Home(node') /\ at' = [at EXCEPT ![t] = Ready]
      /\ node'[c].id = me.a
      /\ \A d \in Cells \ {c} : node'[d] = node[d]
  BY <1>2, <1>3, <1>4, <1>5, CountedNode
<1>7. Kept(node, node')
  BY <1>5, <1>6 DEF Kept
<1>8. ASSUME ~ moved, NEW q \in 1 .. r - 1 PROVE Taken(node, CellOf[me.a][q], me.a)
  <2>1. q \in Row /\ q < r /\ q \in 1 .. Seen(me)
    BY <1>2, AttrAssumption DEF Row
  <2>2. \/ Taken(node, CellOf[me.a][q], me.a)
        \/ \E i \in 1 .. Len(me.free) : me.free[i] = CellOf[me.a][q]
    BY <1>1, <1>8, <2>1 DEF Passed
  <2>3. ASSUME NEW i \in 1 .. Len(me.free), me.free[i] = CellOf[me.a][q]
        PROVE  Taken(node, CellOf[me.a][q], me.a)
    <3>1. i # me.r
      BY <1>2, <1>3, <2>1, <2>3, AttrAssumption DEF Row
    <3>2. ~ (me.r < i)
      <4>1. me.r < i => r < q
        BY <1>1, <1>2, <1>3, <2>1, <2>3 DEF FreeSound
      <4> QED BY <2>1, <4>1, AttrAssumption DEF Row
    <3>3. i \in 1 .. me.r - 1
      BY <1>1, <1>2, <3>1, <3>2 DEF ClientState
    <3> QED BY <1>1, <1>8, <2>3, <3>3 DEF Passed
  <2> QED BY <2>2, <2>3
<1>9. ASSUME ~ moved PROVE InFirst(node')
  <2>1. InFirst(node)
    BY <1>9 DEF AttrInv
  <2>2. ASSUME NEW a \in Attrs, NEW s \in Row, node'[CellOf[a][s]].id = a,
               node[CellOf[a][s]].id = NoAttr
        PROVE  a = me.a /\ s = r
    <3>1. CellOf[a][s] = c
      BY <1>6, <2>2, CellsOf, AttrAssumption
    <3> QED BY <1>3, <1>6, <2>2, <3>1, AttrAssumption DEF Row
  <2> QED BY <1>7, <1>8, <1>9, <2>1, <2>2, FirstKept
<1>10. Ready \in ClientState /\ Ready.pc \notin Busy /\ moved \in BOOLEAN
  BY ReadyState DEF Busy, InRow, AttrInv, TypeInv
<1> QED BY <1>5, <1>6, <1>7, <1>9, <1>10, IdleLocal, ClientStep

LEMMA ClaimFailsStep ==
  ASSUME AttrInv, NEW t \in Clients, ClaimFails(t)
  PROVE  AttrInv'
<1> DEFINE me == at[t]
           c == me.free[me.r]
<1>1. /\ me \in ClientState /\ Local(me) /\ FreeSound(me) /\ me.pc = "claim"
      /\ (~ moved => Passed(node, me)) /\ UNCHANGED <<node, moved>>
  BY DEF AttrInv, TypeInv, ClaimFails
<1>2. me.a \in Attrs /\ me.r \in 1 .. Len(me.free) /\ me.free \in Seq(Cells)
  BY <1>1 DEF Local, Busy, InRow, ClientState
<1>3. c \in Cells /\ node[c] \in Word /\ node[c] # Empty
  BY <1>2 DEF ClaimFails, AttrInv, TypeInv
<1>4. node[c].id # NoAttr
  BY <1>3 DEF Word, Empty, AttrInv, Home
<1>5. CASE node[c].id = me.a
  <2>1. at' = [at EXCEPT ![t] = Again(t)]
    BY <1>5 DEF ClaimFails, Attr
  <2> QED BY <1>1, <1>2, <2>1, AgainState, LocalStep DEF AttrInv
<1>6. CASE node[c].id # me.a /\ me.r < Len(me.free)
  <2> DEFINE ne == [me EXCEPT !.r = me.r + 1]
  <2>1. at' = [at EXCEPT ![t] = ne]
    BY <1>6 DEF ClaimFails, Attr
  <2>2. me.r + 1 \in Nat /\ me.r + 1 \in 1 .. Len(me.free) /\ me.r \in Nat
    BY <1>2, <1>6
  <2>3. ne \in ClientState
    BY <1>1, <2>2, Assign
  <2>4. ne.pc = "claim" /\ ne.a = me.a /\ ne.r = me.r + 1 /\ ne.free = me.free
    BY <1>1 DEF ClientState
  <2> HIDE DEF ne
  <2>5. Local(ne)
    BY <1>2, <2>2, <2>4 DEF Local, Busy, InRow
  <2>6. Seen(ne) = Rows /\ Seen(me) = Rows
    BY <1>1, <2>4 DEF Seen
  <2>7. FreeSound(ne)
    BY <1>1, <2>4, <2>6 DEF FreeSound
  <2>8. ASSUME Passed(node, me) PROVE Passed(node, ne)
    <3>1. \A i \in 1 .. ne.r - 1 : i = me.r \/ i \in 1 .. me.r - 1
      BY <2>2, <2>4
    <3>2. Taken(node, c, me.a)
      BY <1>4, <1>6 DEF Taken
    <3> QED BY <1>1, <2>4, <2>6, <2>8, <3>1, <3>2 DEF Passed
  <2> QED BY <1>1, <2>1, <2>3, <2>5, <2>7, <2>8, LocalStep
<1>7. CASE node[c].id # me.a /\ ~ (me.r < Len(me.free))
  <2>1. at' = [at EXCEPT ![t] = Ready]
    BY <1>7 DEF ClaimFails, Attr
  <2> QED BY <1>1, <2>1, ReadyState, IdleLocal, LocalStep DEF Busy, InRow
<1> QED BY <1>5, <1>6, <1>7

(* The search for a cell whose value is zero.                              *)
LEMMA NextValueState ==
  ASSUME TypeInv, NEW t \in Clients, at[t].pc \in {"value", "take"}, NEW nd
  PROVE  /\ NextValue(t) \in ClientState /\ Local(NextValue(t))
         /\ FreeSound(NextValue(t)) /\ Passed(nd, NextValue(t))
<1>1. /\ at[t] \in ClientState /\ at[t].a \in Attrs /\ at[t].r \in 1 .. Rows
      /\ Rows \in Nat
  BY AttrAssumption DEF TypeInv, Local, Busy, InRow, Row
<1>2. CASE at[t].r > 1
  <2>1. "value" \in Place /\ at[t].r - 1 \in Nat /\ at[t].r - 1 \in Row
    BY <1>1, <1>2 DEF Place, Busy, InRow, Row
  <2>2. NextValue(t) \in ClientState
    BY <1>1, <1>2, <2>1, EmptyState, Assign DEF NextValue
  <2>3. /\ NextValue(t).pc = "value" /\ NextValue(t).r = at[t].r - 1
        /\ NextValue(t).a = at[t].a
    BY <1>1, <1>2 DEF NextValue, ClientState
  <2> QED BY <1>1, <2>1, <2>2, <2>3 DEF Local, FreeSound, Passed, Busy, InRow
<1>3. CASE ~ (at[t].r > 1)
  BY <1>3, ReadyState, IdleLocal DEF NextValue, Busy, InRow
<1> QED BY <1>2, <1>3

LEMMA ValueSteps ==
  ASSUME AttrInv, NEW t \in Clients, Value(t) \/ TakeFails(t)
  PROVE  AttrInv'
<1> DEFINE me == at[t]
<1>1. /\ me \in ClientState /\ Local(me) /\ me.pc \in {"value", "take"}
      /\ UNCHANGED <<node, moved>>
  BY DEF AttrInv, TypeInv, Value, TakeFails
<1>2. me.a \in Attrs /\ me.r \in Row /\ Cell(t) \in Cells /\ node[Cell(t)] \in Word
  BY <1>1, CellsOf DEF Local, Busy, InRow, Cell, AttrInv, TypeInv
<1>3. CASE at' = [at EXCEPT ![t] = NextValue(t)]
  BY <1>1, <1>3, NextValueState, LocalStep DEF AttrInv
<1>4. CASE at' = [at EXCEPT ![t] = [me EXCEPT !.pc = "take", !.old = node[Cell(t)]]]
  <2> DEFINE ne == [me EXCEPT !.pc = "take", !.old = node[Cell(t)]]
  <2>1. ne \in ClientState
    <3>1. "take" \in Place
      BY DEF Place, Busy, InRow
    <3> QED BY <1>1, <1>2, <3>1, Assign
  <2>2. ne.pc = "take" /\ ne.a = me.a /\ ne.r = me.r
    BY <1>1 DEF ClientState
  <2> HIDE DEF ne
  <2>3. Local(ne) /\ FreeSound(ne) /\ Passed(node, ne)
    BY <1>2, <2>2 DEF Local, FreeSound, Passed, Busy, InRow
  <2>4. at' = [at EXCEPT ![t] = ne]
    BY <1>4 DEF ne
  <2> QED BY <1>1, <2>1, <2>3, <2>4, LocalStep
<1> QED BY <1>3, <1>4 DEF Value, TakeFails, Attr

LEMMA TakeStep ==
  ASSUME AttrInv, NEW t \in Clients, Take(t)
  PROVE  AttrInv'
<1>1. at[t] \in ClientState /\ Local(at[t]) /\ at[t].pc = "take"
  BY DEF AttrInv, TypeInv, Take
<1>2. /\ at[t].a \in Attrs /\ at[t].r \in Row /\ Cell(t) = CellOf[at[t].a][at[t].r]
      /\ at[t].v \in Nat
  BY <1>1 DEF Local, Busy, InRow, Cell, ClientState
<1>3. Cell(t) \in Cells
  BY <1>2, CellsOf
<1>4. Counted(t, Cell(t), at[t].v) /\ moved' = TRUE
  BY DEF Take
<1>5. node' \in [Cells -> Word] /\ Home(node') /\ at' = [at EXCEPT ![t] = Ready]
  BY <1>2, <1>3, <1>4, CountedNode
<1>6. Ready \in ClientState /\ Ready.pc \notin Busy
  BY ReadyState DEF Busy, InRow
<1> QED BY <1>4, <1>5, <1>6, IdleLocal, ClientStep

LEMMA CollectStep ==
  ASSUME AttrInv, NEW c \in Cells, Collect(c)
  PROVE  AttrInv'
<1>1. node \in [Cells -> Word] /\ Home(node) /\ moved \in BOOLEAN
  BY DEF AttrInv, TypeInv
<1>2. node' = [node EXCEPT ![c].val = 0] /\ UNCHANGED <<at, moved>>
  BY DEF Collect
<1>3. node' \in [Cells -> Word] /\ \A d \in Cells : node'[d].id = node[d].id
  BY <1>1, <1>2 DEF Word
<1>4. \A d \in Cells : node'[d].val = 0 \/ node'[d].val = node[d].val
  BY <1>1, <1>2 DEF Word
<1>5. Home(node') /\ Kept(node, node')
  BY <1>1, <1>3, <1>4 DEF Home, Kept
<1>6. TypeInv' /\ \A t \in Clients : FreeSound(at[t])'
  BY <1>2, <1>3 DEF AttrInv, TypeInv, Local, FreeSound, Seen
<1>7. ASSUME ~ moved PROVE InFirst(node') /\ \A t \in Clients : Passed(node', at[t])
  <2>1. InFirst(node) /\ \A t \in Clients : Passed(node, at[t])
    BY <1>7 DEF AttrInv
  <2>2. InFirst(node')
    BY <1>3, <1>5, <2>1, CellsOf, AttrAssumption, FirstKept
  <2>3. \A t \in Clients : at[t] \in ClientState /\ Local(at[t]) /\ FreeSound(at[t])
    BY DEF AttrInv, TypeInv
  <2> QED BY <1>5, <2>1, <2>2, <2>3, PassedKept
<1> QED BY <1>2, <1>5, <1>6, <1>7 DEF AttrInv

-----------------------------------------------------------------------------
LEMMA AttrInductive == AttrInv /\ [AttrNext]_attrVars => AttrInv'
<1> SUFFICES ASSUME AttrInv, [AttrNext]_attrVars PROVE AttrInv'
  OBVIOUS
<1>1. ASSUME NEW t \in Clients, Attach(t) \/ Create(t) \/ ClearShm(t) PROVE AttrInv'
  BY <1>1, InitSteps, ClearStep
<1>2. ASSUME NEW t \in Clients, \E a \in Attrs : Start(t, a, 1) PROVE AttrInv'
  BY <1>2, StartStep
<1>3. ASSUME NEW t \in Clients, Scan(t) \/ Past(t) \/ Copy(t) PROVE AttrInv'
  BY <1>3, ScanStep, PastStep, CopyStep
<1>4. ASSUME NEW t \in Clients, AddValue(t) \/ AddValueFails(t) PROVE AttrInv'
  BY <1>4, AddValueStep, AddValueFailsStep
<1>5. ASSUME NEW t \in Clients, Claim(t) \/ ClaimFails(t) PROVE AttrInv'
  BY <1>5, ClaimStep, ClaimFailsStep
<1>6. ASSUME NEW t \in Clients, Value(t) \/ Take(t) \/ TakeFails(t) PROVE AttrInv'
  BY <1>6, ValueSteps, TakeStep
<1>7. ASSUME NEW c \in Cells, Collect(c) PROVE AttrInv'
  BY <1>7, CollectStep
<1>8. CASE UNCHANGED attrVars
  BY <1>8 DEF attrVars, AttrInv, TypeInv
<1> QED BY <1>1, <1>2, <1>3, <1>4, <1>5, <1>6, <1>7, <1>8 DEF AttrNext

(* An attribute has one cell until a cell has been taken from its          *)
(* attribute, whatever the order in which clients scan, claim and lose the *)
(* race for cells (CreateOrUpdateNode, comm/Attr_API.c).                   *)
THEOREM OneCellOnly == AttrSpec => []OneCell
<1>1. AttrInit => AttrInv
  <2> SUFFICES ASSUME AttrInit PROVE AttrInv
    OBVIOUS
  <2>1. /\ at = [t \in Clients |-> Away] /\ node = [c \in Cells |-> Empty]
        /\ moved = FALSE
    BY DEF AttrInit
  <2>2. \A t \in Clients : at[t] = Away
    BY <2>1
  <2>3. Away.pc \notin Busy
    BY ReadyState DEF Busy, InRow
  <2>4. \A t \in Clients : Local(at[t]) /\ FreeSound(at[t]) /\ Passed(node, at[t])
    BY <2>2, <2>3, IdleLocal
  <2>5. TypeInv
    BY <2>1, <2>4, EmptyState, ReadyState DEF TypeInv
  <2>6. \A c \in Cells : node[c].id = NoAttr /\ node[c].val = 0
    BY <2>1 DEF Empty
  <2>7. Home(node) /\ InFirst(node)
    BY <2>6, CellsOf, AttrAssumption DEF Home, InFirst
  <2> QED BY <2>4, <2>5, <2>7 DEF AttrInv
<1>2. AttrInv => OneCell
  <2> SUFFICES ASSUME AttrInv, ~ moved, NEW a \in Attrs, NEW c \in Cells, NEW d \in Cells,
                      node[c].id = a, node[d].id = a
               PROVE  c = d
    BY DEF OneCell
  <2>1. a # NoAttr /\ InFirst(node)
    BY AttrAssumption DEF AttrInv
  <2>2. PICK r \in Row : c = CellOf[a][r]
    BY <2>1 DEF AttrInv, Home
  <2>3. PICK s \in Row : d = CellOf[a][s]
    BY <2>1 DEF AttrInv, Home
  <2>4. ~ (r < s) /\ ~ (s < r)
    BY <2>1, <2>2, <2>3, AttrAssumption DEF InFirst, Taken, Row
  <2>5. r = s
    BY <2>4, AttrAssumption DEF Row
  <2> QED BY <2>2, <2>3, <2>5
<1> QED BY <1>1, <1>2, AttrInductive, PTL DEF AttrSpec
=============================================================================
