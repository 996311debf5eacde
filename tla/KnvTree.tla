------------------------------ MODULE KnvTree ------------------------------
(***************************************************************************)
(* KnvNode (knv/knv_node.cc, knv/knv_node.h), the lazily parsed message    *)
(* tree in which the proxy keeps its requests, its answers and its cached  *)
(* rows.  A node holds its encoded value, or its fields (metas: tags 1..10 *)
(* with a table by tag; children: larger tags, in a list and in a hash     *)
(* table by tag and key), or both.  It is expanded when a field is asked   *)
(* for and folded when its value is; it caches the size of its encoding,   *)
(* which every write corrects up to the root, and a dirty flag that says   *)
(* its encoded value is out of date.                                       *)
(*                                                                         *)
(* A value is an integer, a text (a string that is no message), a message  *)
(* (its sequence of fields) or a cut message (fields followed by rubbish). *)
(* The lengths are those of the encoding.  The pool of nodes is Ids; a     *)
(* free node has tag 0.  One action is one call of a single-threaded       *)
(* caller.  Operators map the node store s to the store after the call.    *)
(***************************************************************************)
EXTENDS Integers, Sequences, SequencesExt, FiniteSets, FiniteSetsExt

CONSTANTS
  MaxNodes,     \* nodes of the pool
  MaxOps,       \* bound: calls made on the tree
  MetaTags,     \* tags up to UC_MAX_META_NUM; 1 is the key
  ChildTags,    \* tags above UC_MAX_META_NUM
  KeyVals,      \* values callers give to keys
  FieldVals,    \* values callers give to other fields
  Inserts,      \* children callers insert: key, value and at_tail
  Trees         \* values the root node is created from

VARIABLES
  nodes,        \* the nodes
  ops,          \* calls made so far
  leftover,     \* history: nodes whose hash table was left filled (or a
                \*   child of which lost its key) when children went away
  rekeyed       \* history: nodes a child of which was given its key later

knvVars == <<nodes, ops, leftover, rekeyed>>

Ids == 1 .. MaxNodes
Root == 1
HashSlots == 0 .. 1
NoKey == [k |-> "none"]
EmptyMessage == [k |-> "msg", fs |-> <<>>]

Parses(v) == v.k \in {"msg", "cut"} /\ v.fs # <<>>
First(v) == v.fs[1]
KeyIn(v) == IF Parses(v) /\ First(v).tag = 1 THEN First(v).val ELSE NoKey

VarLen(n) == IF n < 128 THEN 1 ELSE 2
TagLen(t) == IF t < 16 THEN 1 ELSE 2

\* knv_eval_field_length for a string of n bytes.
StrLen(t, n) == TagLen(t) + VarLen(n) + n

RECURSIVE ValLen(_)
FieldLen(t, v) == IF v.k = "int" THEN TagLen(t) + VarLen(v.n) ELSE StrLen(t, ValLen(v))
ValLen(v) ==
  CASE v.k = "int" -> 0
    [] v.k = "text" -> v.n
    [] OTHER -> FoldLeft(LAMBDA n, f : n + FieldLen(f.tag, f.val),
                         IF v.k = "cut" THEN 1 ELSE 0, v.fs)

----------------------------------------------------------------------------
(* The hash table of a node's children: a chain per slot.                  *)

\* get_keyhash, with a table of two slots.
Slot(t, k) == (t + (IF k = NoKey THEN 0 ELSE IF k.k = "int" THEN k.n ELSE ValLen(k))) % 2

RECURSIVE Chain(_, _, _)
Chain(s, c, fuel) ==
  IF c = 0 \/ fuel = 0 THEN <<>> ELSE <<c>> \o Chain(s, s[c].hnext, fuel - 1)

ChainAt(s, p, t, k) == Chain(s, s[p].ht[Slot(t, k)], MaxNodes)

\* KnvHt::get: the first node of the chain with the tag and the key, or 0.
Get(s, p, t, k) ==
  LET hits == SelectSeq(ChainAt(s, p, t, k), LAMBDA c : s[c].tag = t /\ s[c].key = k)
  IN  IF hits = <<>> THEN 0 ELSE hits[1]

\* KnvHt::put: n becomes the head of its chain.
HtPut(s, p, n) ==
  LET h == Slot(s[n].tag, s[n].key)
  IN  [s EXCEPT ![n].hnext = s[p].ht[h], ![p].ht[h] = n]

\* KnvHt::remove: n is unlinked from the chain its tag and key select, if it is there.
HtRemove(s, p, n) ==
  LET h == Slot(s[n].tag, s[n].key)
      c == ChainAt(s, p, s[n].tag, s[n].key)
      i == SelectInSeq(c, LAMBDA x : x = n)
  IN  IF i = 0 THEN s
      ELSE IF i = 1 THEN [s EXCEPT ![p].ht[h] = s[n].hnext]
      ELSE [s EXCEPT ![c[i-1]].hnext = s[n].hnext]

----------------------------------------------------------------------------
(* Creating and releasing nodes.                                           *)

FreeIds(s) == {i \in Ids : s[i].tag = 0}
Live(s) == Ids \ FreeIds(s)
NewId(s) == Min(FreeIds(s))

Blank == [tag |-> 0, val |-> EmptyMessage, key |-> NoKey, nokey |-> FALSE, num |-> -1,
          kids |-> <<>>, metas |-> <<>>, tab |-> [t \in MetaTags |-> 0],
          dirty |-> FALSE, vsz |-> 0, sz |-> -1, up |-> 0, haskey |-> FALSE,
          ht |-> [h \in HashSlots |-> 0], hnext |-> 0]

\* KnvNode::InitNode: the key is read from the value, unless that is ruled
\* out; child_num is -1 for a value that may have fields.
InitNode(n, t, v, force) ==
  [n EXCEPT !.tag = t, !.val = v, !.up = 0,
            !.vsz = ValLen(v), !.sz = FieldLen(t, v),
            !.key = IF force THEN NoKey ELSE KeyIn(v),
            !.nokey = force \/ v.k = "int",
            !.num = IF ValLen(v) > 0 /\ (force \/ Parses(v)) THEN -1 ELSE 0,
            !.kids = <<>>, !.metas = <<>>]

RECURSIVE Below(_, _)
Below(s, list) ==
  UNION {{c} \cup Below(s, s[c].metas) \cup Below(s, s[c].kids) : c \in Range(list)}

\* ReleaseNode for a list of nodes and everything below them.
ReleaseNode(s, list) ==
  [i \in Ids |-> IF i \in Below(s, list)
                 THEN [Blank EXCEPT !.haskey = s[i].haskey, !.hnext = s[i].hnext]
                 ELSE s[i]]

\* The expanded fields of p are deleted; the hash table of p is not cleared.
DropFields(s, p) ==
  [ReleaseNode(s, s[p].metas \o s[p].kids) EXCEPT ![p].metas = <<>>, ![p].kids = <<>>]

----------------------------------------------------------------------------
(* Expanding.                                                              *)

IsMeta(t) == t \in MetaTags

\* A meta joins the list of p (the key in front) and the table, which is
\* cleared when the list was empty.
LinkMeta(s, p, m, front) ==
  LET old == s[p].metas
      tab == IF old = <<>> THEN [t \in MetaTags |-> 0] ELSE s[p].tab
  IN  [s EXCEPT ![p].metas = IF front THEN <<m>> \o old ELSE Append(old, m),
                ![p].tab = [tab EXCEPT ![s[m].tag] = m],
                ![m].up = p]

LinkChild(s, p, c, at_tail) ==
  HtPut([s EXCEPT ![p].kids = IF at_tail THEN Append(@, c) ELSE <<c>> \o @,
                  ![p].num = @ + 1,
                  ![p].haskey = @ \/ s[c].key # NoKey,
                  ![c].up = p], p, c)

ExpandField(s, p, f) ==
  LET i == NewId(s)
      t == [s EXCEPT ![i] = InitNode(@, f.tag, f.val, IsMeta(f.tag))]
  IN  IF IsMeta(f.tag) THEN LinkMeta(t, p, i, FALSE) ELSE LinkChild(t, p, i, TRUE)

\* The key meta of a keyed node is taken for a plain value.
IsKeyMeta(s, p) == s[p].tag = 1 /\ s[p].up # 0 /\ s[s[p].up].key # NoKey

\* KnvNode::InnerExpand: the fields become nodes; those of a message that
\* does not end where its value ends are deleted again.
Expand(s, p) ==
  LET z == [s EXCEPT ![p].num = 0, ![p].kids = <<>>, ![p].metas = <<>>, ![p].haskey = FALSE]
      e == [FoldLeft(LAMBDA a, f : ExpandField(a, p, f), z, s[p].val.fs)
              EXCEPT ![p].dirty = FALSE]
  IN  IF s[p].num >= 0 THEN s
      ELSE IF ~Parses(s[p].val) \/ IsKeyMeta(s, p) THEN z
      ELSE IF s[p].val.k = "msg" THEN e
      ELSE [DropFields(e, p) EXCEPT ![p].num = 0]

----------------------------------------------------------------------------
(* Encoding and folding.                                                   *)

IsLeaf(s, n) == s[n].val.k = "int" \/ s[n].num < 0 \/ (s[n].num = 0 /\ s[n].metas = <<>>)
BufferValid(s, n) == s[n].val # EmptyMessage

\* KnvNode::Serialize: the value of a leaf or of a node whose value is
\* current; otherwise the key, the other metas and the children.
RECURSIVE Serialize(_, _)
Serialize(s, n) ==
  LET x == s[n]
      field(c) == [tag |-> s[c].tag, val |-> Serialize(s, c)]
      keyed == ~x.nokey /\ x.key # NoKey
      rest == IF keyed /\ x.metas # <<>> /\ s[x.metas[1]].tag = 1 THEN Tail(x.metas) ELSE x.metas
      list == rest \o x.kids
  IN  IF IsLeaf(s, n) \/ (BufferValid(s, n) /\ ~x.dirty) THEN x.val
      ELSE [k |-> "msg",
            fs |-> (IF keyed THEN <<[tag |-> 1, val |-> x.key]>> ELSE <<>>)
                     \o [i \in 1 .. Len(list) |-> field(list[i])]]

\* KnvNode::Fold: a node whose value is out of date is encoded, and its
\* fields are deleted; an encoding of another size than the cached one is refused.
Fold(s, p) ==
  LET v == Serialize(s, p)
  IN  IF IsLeaf(s, p) \/ (BufferValid(s, p) /\ ~s[p].dirty) \/ ValLen(v) # s[p].vsz THEN s
      ELSE [DropFields(s, p) EXCEPT ![p].val = v, ![p].dirty = FALSE, ![p].num = -1]

\* InnerDuplicate takes the value of a node that has one, current or not.
Duplicated(s, n) ==
  IF s[n].val = EmptyMessage /\ s[n].num >= 0 THEN Serialize(s, n) ELSE s[n].val

----------------------------------------------------------------------------
(* Correcting the sizes and the dirty flags after a write.                 *)

\* Resize without the length of the length.
ResizeFlat(x, off) == [x EXCEPT !.vsz = @ + off, !.sz = @ + off]

\* UPDATE_EVAL_SZ
Resize(x, off) ==
  IF off = 0 THEN x ELSE [x EXCEPT !.vsz = @ + off, !.sz = StrLen(x.tag, x.vsz + off)]

\* SET_VALUE_DIRTY
SetDirty(x) == [x EXCEPT !.val = EmptyMessage, !.dirty = TRUE]

\* UpdateParentEvalueAndSetDirty from ancestor p upwards: the size moves by
\* off, by what that changed in p's own size for the next, and so on; the
\* flag is set up to the first ancestor that has it.
RECURSIVE Ancestors(_, _, _, _)
Ancestors(s, p, off, clean) ==
  IF p = 0 \/ (off = 0 /\ ~clean) THEN s
  ELSE LET x == Resize(s[p], off)
           y == IF clean /\ ~x.dirty THEN SetDirty(x) ELSE x
       IN  Ancestors([s EXCEPT ![p] = y], s[p].up, x.sz - s[p].sz, clean /\ ~x.dirty)

UpdateParent(s, n, off) == Ancestors(s, s[n].up, off, TRUE)

\* Touch without marking n itself dirty.
TouchSizeOnly(s, n, off) ==
  LET x == Resize(s[n], off)
  IN  UpdateParent([s EXCEPT ![n] = x], n, x.sz - s[n].sz)

\* A field of n changed n's value by off bytes.
Touch(s, n, off) ==
  LET x == Resize(s[n], off)
  IN  UpdateParent([s EXCEPT ![n] = SetDirty(x)], n, x.sz - s[n].sz)

----------------------------------------------------------------------------
(* The operations on fields.                                               *)

GetMeta(s, p, t) == IF s[p].metas = <<>> THEN 0 ELSE s[p].tab[t]

\* SetMeta(.., update_parent = true) on an expanded node p: the meta is made,
\* or its value replaced and its own fields deleted.
SetMeta(s, p, t, v) ==
  LET m == GetMeta(s, p, t)
      i == NewId(s)
      made == LinkMeta([s EXCEPT ![i] = InitNode(@, t, v, TRUE)], p, i, t = 1)
      num == IF s[m].num < 0 THEN -1 ELSE IF ~s[p].nokey /\ t = 1 THEN 0 ELSE -1
      set == [DropFields(s, m) EXCEPT ![m].val = v, ![m].num = num,
                                      ![m].vsz = ValLen(v), ![m].sz = FieldLen(t, v)]
  IN  IF m = 0 THEN Touch(made, p, FieldLen(t, v))
      ELSE Touch(set, p, FieldLen(t, v) - s[m].sz)

Without(list, gone) == SelectSeq(list, LAMBDA c : c \notin gone)

\* Metas of p are deleted; the table forgets tag t.
DropMetas(s, p, t, gone) ==
  LET off == FoldSet(LAMBDA c, a : a - s[c].sz, 0, gone)
  IN  Touch([ReleaseNode(s, SetToSeq(gone)) EXCEPT ![p].metas = Without(@, gone),
                                               ![p].tab[t] = 0], p, off)

\* InnerRemoveMeta
RemoveMeta(s, p, t) ==
  IF GetMeta(s, p, t) = 0 THEN s ELSE DropMetas(s, p, t, {GetMeta(s, p, t)})

\* SetKey without moving the node in its parent's table.
SetKeyInPlace(s, p, k) ==
  LET set == [s EXCEPT ![p].key = k]
      met == IF k # NoKey THEN SetMeta(set, p, 1, k) ELSE RemoveMeta(set, p, 1)
  IN  [met EXCEPT ![p].nokey = FALSE]

\* SetKey: the key changes in the node, in its meta 1 and in the parent's table.
SetKey(s, p, k) ==
  LET up == s[p].up
      out == IF up = 0 THEN s ELSE HtRemove(s, up, p)
      set == [out EXCEPT ![p].key = k]
      met == IF k # NoKey THEN SetMeta(set, p, 1, k) ELSE RemoveMeta(set, p, 1)
      done == [met EXCEPT ![p].nokey = FALSE]
  IN  IF up = 0 THEN done ELSE HtPut(done, up, p)

\* The public SetMeta
SetMetaOrKey(s, p, t, v) == IF t = 1 /\ ~s[p].nokey THEN SetKey(s, p, v) ELSE SetMeta(s, p, t, v)

\* AddMeta: a further meta of the tag goes to the end of the list only.
AddMeta(s, p, t, v) ==
  LET i == NewId(s)
  IN  IF GetMeta(s, p, t) = 0 THEN SetMetaOrKey(s, p, t, v)
      ELSE Touch([s EXCEPT ![i] = [InitNode(@, t, v, TRUE) EXCEPT !.up = p],
                           ![p].metas = Append(@, i)], p, FieldLen(t, v))

\* RemoveMetaByTag, in two parts: the key itself, then every meta of the tag.
RemoveKey(s, p, t) == IF t = 1 /\ ~s[p].nokey THEN SetKey(s, p, NoKey) ELSE s
RemoveMetaByTag(s, p, t) == DropMetas(s, p, t, {m \in Range(s[p].metas) : s[m].tag = t})

\* New(tag, type, key, val): the key is also set as meta 1.
NewNode(s, t, k, v) ==
  LET i == NewId(s)
      n == [s EXCEPT ![i] = InitNode(@, t, v, FALSE)]
  IN  IF k = NoKey THEN n ELSE SetMeta([n EXCEPT ![i].key = k], i, 1, k)

\* InsertChild of the node c just made.
InsertChild(s, p, c, at_tail) == Touch(LinkChild(s, p, c, at_tail), p, s[c].sz)

\* SetValue of a string: the key is read again from the new value, and the
\* fields are deleted.  (The test of a keyed node with children assigns the
\* value it should compare, lines 1184-1203, and loses the key.)
SetString(s, n, v) ==
  LET x == s[n]
      had == ~x.nokey /\ x.key # NoKey
      k1 == IF had /\ (x.num > 0 \/ (x.num = 0 /\ x.metas = <<>>))
            THEN IF Parses(v) /\ First(v).tag # 1 THEN First(v).val ELSE NoKey
            ELSE x.key
      a == [s EXCEPT ![n].val = v, ![n].key = k1]
      b == IF x.nokey \/ k1 = NoKey THEN a
           ELSE LET o == IF x.up = 0 THEN a ELSE HtRemove(a, x.up, n)
                    r == [o EXCEPT ![n].key = KeyIn(v)]
                IN  IF x.up = 0 THEN r ELSE HtPut(r, x.up, n)
      c == [DropFields(b, n) EXCEPT ![n].num = -1, ![n].dirty = TRUE,
                                    ![n] = Resize(@, ValLen(v) - x.vsz)]
  IN  UpdateParent(c, n, c[n].sz - x.sz)

SetInt(s, n, v) ==
  LET x == s[n]
      y == [x EXCEPT !.val = v, !.vsz = 0, !.sz = FieldLen(x.tag, v), !.dirty = TRUE]
  IN  UpdateParent([s EXCEPT ![n] = y], n, y.sz - x.sz)

SameType(v, w) == (v.k = "int") = (w.k = "int")
SetValue(s, n, v) == IF v.k = "int" THEN SetInt(s, n, v) ELSE SetString(s, n, v)

\* SetTag: the node moves in its parent's table, and its size follows the tag.
SetTag(s, n, t) ==
  LET up == s[n].up
      x == s[n]
      out == IF up = 0 THEN s ELSE HtRemove(s, up, n)
      y == [out[n] EXCEPT !.tag = t, !.dirty = TRUE,
                          !.sz = IF x.val.k = "int" THEN FieldLen(t, x.val) ELSE StrLen(t, x.vsz)]
      set == [out EXCEPT ![n] = y]
      put == IF up = 0 THEN set ELSE HtPut(set, up, n)
  IN  UpdateParent(put, n, y.sz - x.sz)

\* RemoveChildByPos and RemoveChildrenByTag
RemoveChildren(s, p, gone) ==
  LET off == FoldSet(LAMBDA c, a : a - s[c].sz, 0, gone)
      out == FoldSet(LAMBDA c, a : HtRemove(a, p, c), s, gone)
  IN  IF gone = {} THEN s
      ELSE Touch([ReleaseNode(out, SetToSeq(gone)) EXCEPT
                    ![p].kids = Without(@, gone), ![p].num = @ - Cardinality(gone)], p, off)

\* FindChildByTag: the table has the children by tag only if none has a key.
FindChildByTag(s, p, t) ==
  LET hits == SelectSeq(s[p].kids, LAMBDA c : s[c].tag = t)
  IN  IF s[p].num <= 0 THEN 0
      ELSE IF s[p].haskey THEN (IF hits = <<>> THEN 0 ELSE hits[1])
      ELSE Get(s, p, t, NoKey)

FindChild(s, p, t, k) == IF s[p].num <= 0 THEN 0 ELSE Get(s, p, t, k)

----------------------------------------------------------------------------
(* The calls.  Callers add fields to messages only, not to texts (which    *)
(* the code does not refuse), give key meta 1 through SetMeta, replace no  *)
(* other meta by a string (which SetMeta puts into the buffer of the node  *)
(* itself, over what its other fields point to, line 1562), and copy a     *)
(* node only if it was not retagged since its value was made.              *)

Fields(s, p) == IF s[p].num < 0 /\ Parses(s[p].val) THEN Len(s[p].val.fs) ELSE 0
Room(s, p, k) == Cardinality(FreeIds(s)) >= k + Fields(s, p)
IsChild(s, n) == s[n].up # 0 /\ ~IsMeta(s[n].tag)
IsTree(s, p) ==
  /\ ~IsKeyMeta(s, p)
  /\ s[p].val.k = "msg"

Copyable(x) == ~(x.dirty /\ x.val # EmptyMessage /\ x.num >= 0)

\* Nodes that lose expanded children in a call on n that deletes its fields.
Emptied(n) == {i \in {n} : nodes[i].kids # <<>>}

Calling(s, left, re) ==
  /\ ops < MaxOps
  /\ ops' = ops + 1
  /\ nodes' = s
  /\ leftover' = (leftover \cup left) \cap Live(nodes')
  /\ rekeyed' = (rekeyed \cup re) \cap Live(nodes')

KnvInit ==
  /\ \E v \in Trees : nodes = [[i \in Ids |-> Blank] EXCEPT ![Root] = InitNode(@, 11, v, FALSE)]
  /\ ops = 0
  /\ leftover = {}
  /\ rekeyed = {}

\* Any getter (GetFirstChild, GetMeta, GetChildNum, FindChild...): Expand.
Read(p) ==
  /\ nodes[p].num < 0
  /\ Room(nodes, p, 0)
  /\ Calling(Expand(nodes, p), IF nodes[p].val.k = "cut" THEN {p} ELSE {}, {})

\* GetValue and GetStrVal
GetValue(p) ==
  /\ nodes[p].dirty /\ nodes[p].num >= 0
  /\ Calling(Fold(nodes, p), Emptied(p), {})

\* InsertChild, InsertSubNode, InsertIntLeaf, InsertStrLeaf, AddField
InsertField(p, t, k, v, at_tail) ==
  /\ IsTree(nodes, p)
  /\ Room(nodes, p, 2)
  /\ \E s \in {Expand(nodes, p)} : \E m \in {NewNode(s, t, k, v)} :
       Calling(InsertChild(m, p, NewId(s), at_tail), {}, {})

\* InsertChild(child, take_ownership = false)
InsertCopy(p, c) ==
  /\ IsTree(nodes, p) /\ IsChild(nodes, c) /\ Copyable(nodes[c])
  /\ Room(nodes, p, 1)
  /\ \E s \in {Expand(nodes, p)} :
     LET i == NewId(s)
         n == [InitNode(s[i], s[c].tag, Duplicated(s, c), FALSE) EXCEPT !.sz = s[c].sz]
     IN  Calling(InsertChild([s EXCEPT ![i] = n], p, i, TRUE), {}, {})

\* SetFieldInt and SetFieldStr of a meta
SetMetaField(p, t, v) ==
  /\ IsTree(nodes, p)
  /\ Room(nodes, p, 1)
  /\ \E s \in {Expand(nodes, p)} :
     LET m == GetMeta(s, p, t)
     IN  /\ m = 0 \/ v.k = "int" \/ (t = 1 /\ ~s[p].nokey)
         /\ Calling(SetMetaOrKey(s, p, t, v),
              IF m \in Live(nodes) THEN Emptied(m) ELSE {},
              IF t = 1 /\ IsChild(s, p) THEN {s[p].up} ELSE {})

\* AddFieldInt and AddFieldStr of a meta
AddMetaField(p, t, v) ==
  /\ t # 1
  /\ IsTree(nodes, p)
  /\ Room(nodes, p, 1)
  /\ \E s \in {Expand(nodes, p)} : Calling(AddMeta(s, p, t, v), {}, {})

\* What SetValue leaves behind: the tables of a node that had children, and
\* of the parent of one whose key was lost.
SetLeaves(n) ==
  LET x == nodes[n]
  IN  Emptied(n) \cup {i \in {x.up} \ {0} : /\ x.key # NoKey /\ ~x.nokey
                                           /\ (x.num > 0 \/ (x.num = 0 /\ x.metas = <<>>))}

\* SetFieldInt and SetFieldStr of a child: the one FindChildByTag returns is set.
SetChildField(p, t, v) ==
  /\ IsTree(nodes, p) /\ p \notin leftover
  /\ Room(nodes, p, 1)
  /\ \E s \in {Expand(nodes, p)} : \E c \in {FindChildByTag(s, p, t)} :
       \/ /\ c = 0
          /\ \E m \in {NewNode(s, t, NoKey, v)} :
               Calling(InsertChild(m, p, NewId(s), TRUE), {}, {})
       \/ /\ c # 0
          /\ SameType(s[c].val, v)
          /\ Calling(SetValue(s, c, v), IF c \in Live(nodes) THEN SetLeaves(c) ELSE {}, {})

\* SetValue
SetNodeValue(n, v) ==
  /\ SameType(nodes[n].val, v)
  /\ ~IsKeyMeta(nodes, n)
  /\ Calling(SetValue(nodes, n, v), SetLeaves(n), {})

\* SetTag
Retag(n, t) ==
  /\ n = Root \/ IsChild(nodes, n)
  /\ Calling(SetTag(nodes, n, t), {}, {})

\* RemoveField
RemoveField(p, t) ==
  /\ IsTree(nodes, p)
  /\ Room(nodes, p, 0)
  /\ \E s \in {Expand(nodes, p)} :
       \/ /\ ~IsMeta(t)
          /\ Calling(RemoveChildren(s, p, {c \in Range(s[p].kids) : s[c].tag = t}), {}, {})
       \/ /\ IsMeta(t) /\ GetMeta(s, p, t) = 0
          /\ Calling(s, {}, {})
       \/ /\ IsMeta(t) /\ GetMeta(s, p, t) # 0
          /\ \E k \in {RemoveKey(s, p, t)} : Calling(RemoveMetaByTag(k, p, t), {}, {})

\* Remove, and RemoveChild of what FindChild returned
RemoveNode(n) ==
  /\ IsChild(nodes, n)
  /\ Calling(RemoveChildren(nodes, nodes[n].up, {n}), {}, {})

KnvNext ==
  \E n \in Live(nodes) :
    \/ Read(n) \/ GetValue(n) \/ RemoveNode(n)
    \/ \E c \in Live(nodes) : InsertCopy(n, c)
    \/ \E t \in ChildTags : Retag(n, t)
    \/ \E t \in ChildTags, f \in Inserts : InsertField(n, t, f[1], f[2], f[3])
    \/ \E t \in MetaTags : \E v \in IF t = 1 THEN KeyVals ELSE FieldVals :
         SetMetaField(n, t, v)
    \/ \E t \in MetaTags, v \in FieldVals : AddMetaField(n, t, v)
    \/ \E t \in ChildTags, v \in FieldVals : SetChildField(n, t, v)
    \/ \E v \in FieldVals : SetNodeValue(n, v)
    \/ \E t \in MetaTags \cup ChildTags : RemoveField(n, t)

----------------------------------------------------------------------------
(* What a node stands for: its value, or the fields it was expanded to.    *)
RECURSIVE Meaning(_, _)
Meaning(s, n) ==
  LET list == s[n].metas \o s[n].kids
  IN  IF IsLeaf(s, n) THEN s[n].val
      ELSE [k |-> "msg", fs |-> [i \in 1 .. Len(list) |->
                                  [tag |-> s[list[i]].tag, val |-> Meaning(s, list[i])]]]

\* The sizes every node caches are those of its encoding, after any sequence
\* of writes below it: Serialize never reports "Bug: eval size incorrect",
\* and the buffer Fold allocates fits.
SizesRight ==
  \A n \in Live(nodes) :
    LET v == Meaning(nodes, n)
    IN  nodes[n].vsz = ValLen(v) /\ nodes[n].sz = FieldLen(nodes[n].tag, v)

\* No encoded value is used after a write below its node made it out of
\* date: Serialize gives at every node what the node stands for, its key
\* (cached apart from meta 1) included.
SerializeCurrent == \A n \in Live(nodes) : Serialize(nodes, n) = Meaning(nodes, n)

\* FindChild and FindChildByTag find a child with the tag (and the key)
\* whenever the list of children has one, and only such a child, after any
\* inserting, removing, retagging and rekeying.  The exceptions are a node
\* whose children were deleted without clearing its hash table (Fold,
\* SetValue), and, by tag, a node whose child got its key by SetKey, which
\* does not set child_has_key.
LookupsAgree ==
  \A p \in Live(nodes) : \A t \in ChildTags :
    LET found(c, all) == IF all = {} THEN c = 0 ELSE c \in all
        by(k) == {c \in Range(nodes[p].kids) : nodes[c].tag = t /\ nodes[c].key = k}
        kids == {c \in Range(nodes[p].kids) : nodes[c].tag = t}
    IN  p \notin leftover =>
          /\ \A k \in KeyVals \cup {NoKey} : found(FindChild(nodes, p, t, k), by(k))
          /\ p \notin rekeyed => found(FindChildByTag(nodes, p, t), kids)

=============================================================================
