------------------------------ MODULE WireFormat ------------------------------
(***************************************************************************)
(* The wire format of a Key-N-Value tree (knv/pb.c, knv/pb.h): fields that *)
(* are added to a buffer of limited size and read back, from the whole     *)
(* buffer or from one that was cut short.  A byte has Group + 1 bits and   *)
(* is a number; the widths of integers are constants.                      *)
(***************************************************************************)
EXTENDS Integers, Sequences, FiniteSets, SequencesExt

CONSTANTS
  Group,      \* 7: the bits of a number in one byte
  Width64,    \* 64
  Width32,    \* 32
  Tags,
  Signed,     \* values of varint fields, of Width64 bits with a sign
  Fixed,      \* values of fixed32 and fixed64 fields
  Texts,      \* values of string fields: sequences of bytes
  Capacities, \* sizes of a buffer
  MaxFields   \* bound: fields of a message

VARIABLES
  doing,    \* "write", "full", "read" or "done"
  room,     \* the buffer's size
  bytes,    \* what is in it
  fields,   \* history: the fields that were added, and last a failed one
  ends,     \* history: the end of each field in the buffer
  given,    \* how much of the buffer the reader is given
  pos,      \* how much of that it has read
  out,      \* the fields it has read
  eom       \* pb_field_t::eom

wireVars == <<doing, room, bytes, fields, ends, given, pos, out, eom>>

PB_WT_VARINT == 0
PB_WT_FIXED64 == 1
PB_WT_STRING == 2
PB_WT_FIXED32 == 5
WireFields ==
  {[tag |-> t, type |-> PB_WT_VARINT, val |-> v] : t \in Tags, v \in Signed} \cup
  {[tag |-> t, type |-> y, val |-> v] : t \in Tags, y \in {PB_WT_FIXED32, PB_WT_FIXED64}, v \in Fixed} \cup
  {[tag |-> t, type |-> PB_WT_STRING, val |-> v] : t \in Tags, v \in Texts}

Mark == 2 ^ Group                 \* 0x80
Size(width) == width \div (Group + 1)

(* Signed numbers, as the callers of varint fields convert them.           *)
pb_int2uint(s) == IF s < 0 THEN - (2 * s) - 1 ELSE 2 * s
pb_uint2int(u) == IF u % 2 = 1 THEN - (u \div 2) - 1 ELSE u \div 2

-----------------------------------------------------------------------------
(* Writing.                                                                *)
RECURSIVE pb_add_vint(_)
pb_add_vint(v) ==
  IF v < Mark THEN <<v>> ELSE <<(v % Mark) + Mark>> \o pb_add_vint(v \div Mark)
TagWord(type, tag) == type + ((tag * 8) % 2 ^ Width32)
pb_add_tag(type, tag) == pb_add_vint(TagWord(type, tag))
pb_add_string_head(tag, size) == <<pb_add_tag(PB_WT_STRING, tag), pb_add_vint(size)>>
LowFirst(v, width) == [i \in 1 .. Size(width) |-> (v \div (2 * Mark) ^ (i - 1)) % (2 * Mark)]

(* The calls of pb_add that pb_add_field_val makes, one after the other.   *)
Parts(f) ==
  IF f.type = PB_WT_STRING THEN Append(pb_add_string_head(f.tag, Len(f.val)), f.val)
  ELSE <<pb_add_tag(f.type, f.tag),
         IF f.type = PB_WT_VARINT THEN pb_add_vint(pb_int2uint(f.val))
         ELSE LowFirst(f.val, IF f.type = PB_WT_FIXED64 THEN Width64 ELSE Width32)>>
pb_add(b, part) ==
  IF b.ok /\ Len(b.bytes) + Len(part) <= room THEN [b EXCEPT !.bytes = @ \o part]
  ELSE [b EXCEPT !.ok = FALSE]

(* The parts that fit stay in the buffer when a later one does not; the    *)
(* callers then give the buffer up.                                        *)
pb_add_field_val(f) ==
  LET b == FoldLeft(pb_add, [ok |-> TRUE, bytes |-> bytes], Parts(f)) IN
  /\ doing = "write" /\ Len(fields) < MaxFields
  /\ bytes' = b.bytes /\ fields' = Append(fields, f)
  /\ IF b.ok THEN ends' = Append(ends, Len(b.bytes)) /\ UNCHANGED doing
     ELSE doing' = "full" /\ UNCHANGED ends
  /\ UNCHANGED <<room, given, pos, out, eom>>

RECURSIVE pb_eval_vint_length(_)
pb_eval_vint_length(v) == IF v < Mark THEN 1 ELSE 1 + pb_eval_vint_length(v \div Mark)
pb_eval_field_length(f) ==
  pb_eval_vint_length(TagWord(f.type, f.tag)) +
  ( IF f.type = PB_WT_VARINT THEN pb_eval_vint_length(pb_int2uint(f.val))
    ELSE IF f.type = PB_WT_STRING THEN pb_eval_vint_length(Len(f.val)) + Len(f.val)
    ELSE Size(IF f.type = PB_WT_FIXED64 THEN Width64 ELSE Width32) )

-----------------------------------------------------------------------------
(* Reading.  The results say whether a call succeeded, where it stopped    *)
(* and what it read.                                                       *)
Got(p, v) == [ok |-> TRUE, pos |-> p, val |-> v, eom |-> FALSE]
Fail(p, end) == [ok |-> FALSE, pos |-> p, val |-> 0, eom |-> end]

RECURSIVE VarintFrom(_, _, _)
VarintFrom(p, bitpos, result) ==
  IF bitpos >= Width64 \/ p = given THEN Fail(p, FALSE)
  ELSE LET byte == bytes[p + 1]
           sum == (result + (byte % Mark) * 2 ^ bitpos) % 2 ^ Width64
       IN IF byte < Mark THEN Got(p + 1, sum) ELSE VarintFrom(p + 1, bitpos + Group, sum)
pb_decode_varint(p) == VarintFrom(p, 0, 0)

pb_decode_fixed(p, n) ==
  IF given - p < n THEN Fail(p, FALSE)
  ELSE Got(p + n, FoldRight(LAMBDA b, v : v * 2 * Mark + b, SubSeq(bytes, p + 1, p + n), 0))
pb_decode_string(p) ==
  LET len == pb_decode_varint(p) IN
  IF ~ len.ok \/ len.val > given - len.pos THEN Fail(len.pos, FALSE)
  ELSE Got(len.pos + len.val, SubSeq(bytes, len.pos + 1, len.pos + len.val))

(* The value of a field of the given type.                                 *)
pb_decode_val(p, type) ==
  CASE type = PB_WT_VARINT  -> pb_decode_varint(p)
    [] type = PB_WT_FIXED64 -> pb_decode_fixed(p, Size(Width64))
    [] type = PB_WT_STRING  -> pb_decode_string(p)
    [] type = PB_WT_FIXED32 -> pb_decode_fixed(p, Size(Width32))
    [] OTHER          -> Fail(p, FALSE)

(* Mutant of pb_decode_tag: whatever ends the reading ends the message.    *)
pb_decode_tagLenient(p) ==
  LET word == pb_decode_varint(p)
      type == word.val % 8
      val == pb_decode_val(word.pos, type)
  IN
  IF ~ word.ok \/ word.val = 0 \/ ~ val.ok THEN Fail(p, TRUE)
  ELSE Got(val.pos, [tag |-> (word.val \div 8) % 2 ^ Width32, type |-> type,
             val |-> IF type = PB_WT_VARINT THEN pb_uint2int(val.val) ELSE val.val])

pb_decode_tag(p) ==
  LET word == pb_decode_varint(p)
      type == word.val % 8
      val == pb_decode_val(word.pos, type)
  IN
  IF ~ word.ok THEN Fail(word.pos, word.pos = given)
  ELSE IF word.val = 0 THEN Fail(word.pos, TRUE)
  ELSE IF ~ val.ok THEN Fail(val.pos, FALSE)
  ELSE Got(val.pos, [tag |-> (word.val \div 8) % 2 ^ Width32, type |-> type,
             val |-> IF type = PB_WT_VARINT THEN pb_uint2int(val.val) ELSE val.val])

(* pb_begin is pb_next on a message of which nothing is read.              *)
Begin(n) ==
  /\ doing = "write" /\ doing' = "read" /\ given' = n
  /\ UNCHANGED <<room, bytes, fields, ends, pos, out, eom>>
pb_next ==
  LET f == pb_decode_tag(pos) IN
  /\ doing = "read" /\ pos' = f.pos /\ eom' = f.eom
  /\ IF f.ok THEN out' = Append(out, f.val) /\ UNCHANGED doing
     ELSE doing' = "done" /\ UNCHANGED out
  /\ UNCHANGED <<room, bytes, fields, ends, given>>

WireInit ==
  /\ doing = "write" /\ room \in Capacities
  /\ bytes = << >> /\ fields = << >> /\ ends = << >>
  /\ given = 0 /\ pos = 0 /\ out = << >> /\ eom = FALSE
WireNext ==
  \/ \E f \in WireFields : pb_add_field_val(f)
  \/ \E n \in 0 .. Len(bytes) : Begin(n)
  \/ pb_next

-----------------------------------------------------------------------------
(* A field takes the length that pb_eval_field_length says, so that a      *)
(* buffer of the evaluated size is always large enough.                    *)
StartOf(i) == IF i = 1 THEN 0 ELSE ends[i - 1]
LengthsKept ==
  /\ \A i \in 1 .. Len(ends) : ends[i] - StartOf(i) = pb_eval_field_length(fields[i])
  /\ doing = "full" =>
       StartOf(Len(fields)) + pb_eval_field_length(fields[Len(fields)]) > room

(* What is read is what was written, field by field, as far as the message *)
(* goes, and a message that was cut in the middle of a field is told from  *)
(* a complete one ("message not ending correctly", knv_node.cc:879).  One  *)
(* cut is not: inside a tag of several bytes, where pb_decode_tag finds    *)
(* nothing left just as it does between two fields.                        *)
WholeFields == Cardinality({i \in 1 .. Len(ends) : ends[i] <= given})
CutAt(p, n) == given - p \in 0 .. n - 1
WireFaithful ==
  /\ LengthsKept
  /\ IsPrefix(out, fields)
  /\ doing = "done" =>
       /\ Len(out) = WholeFields
       /\ eom <=> \/ WholeFields = Len(ends)
                  \/ LET next == fields[WholeFields + 1] IN
                     CutAt(StartOf(WholeFields + 1), Len(pb_add_tag(next.type, next.tag)))
=============================================================================
