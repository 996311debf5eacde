------------------------------ MODULE ResultRows ------------------------------
(***************************************************************************)
(* The rows of a result on their way from the server to the caller of the  *)
(* client library: PackResult (mysql_proxy_server.cpp) distributes them    *)
(* over sets, and mysql_proxy_fetch_row (mysql_proxy_api.cpp) walks the    *)
(* sets and takes the ones it has finished off the tree.  Rows are their   *)
(* numbers 0, 1, ...                                                       *)
(***************************************************************************)
EXTENDS Integers, Sequences

CONSTANTS
  PerSet,    \* max_row_num_for_each_set
  MaxRows,   \* bound: rows of a result
  Fields     \* mysql_num_fields

(* A result set has columns, even when it has no rows.                     *)
ASSUME RowsAssumption == PerSet \in Nat \ {0} /\ MaxRows \in Nat /\ Fields \in Nat \ {0}

VARIABLES
  phase,     \* "pack", "failed", "open" (mysql_proxy_store_result), "freed"
  num_rows,
  r,         \* the next row to be packed
  settree,   \* whether a set is open
  sets,      \* the sets: [key, rows]
  cursor,    \* current_row: [set, row] as positions, or Nowhere
  field,     \* current_field: its position, 0 for NULL
  fetched,   \* history: the rows the caller has had
  ended      \* history: mysql_proxy_fetch_row has returned NULL

rowVars == <<phase, num_rows, r, settree, sets, cursor, field, fetched, ended>>

Nowhere == [set |-> 0, row |-> 0]

RowsInit ==
  /\ phase = "pack" /\ num_rows \in 0 .. MaxRows /\ r = 0 /\ settree = FALSE
  /\ sets = << >> /\ cursor = Nowhere /\ field = 0 /\ fetched = << >> /\ ended = FALSE

-----------------------------------------------------------------------------
(* A row goes into the open set, or into a new one.                        *)
Put(ss, row) ==
  IF settree THEN [ss EXCEPT ![Len(ss)].rows = Append(@, row)]
  ELSE Append(ss, [key |-> row \div PerSet, rows |-> <<row>>])

PackRow ==
  /\ phase = "pack" /\ r < num_rows
  /\ sets' = Put(sets, r)
  /\ settree' = ~ (r # 0 /\ r % PerSet = 0)
  /\ r' = r + 1
  /\ UNCHANGED <<phase, num_rows, cursor, field, fetched, ended>>

(* InsertSubNode fails, for the fields or for a row: the request is        *)
(* answered with an error.                                                 *)
PackFails ==
  /\ phase = "pack" /\ (r = 0 \/ r < num_rows) /\ phase' = "failed"
  /\ UNCHANGED <<num_rows, r, settree, sets, cursor, field, fetched, ended>>

(* The tree is sent, and handed to the caller by mysql_proxy_store_result. *)
StoreResult ==
  /\ phase = "pack" /\ r = num_rows /\ phase' = "open"
  /\ UNCHANGED <<num_rows, r, settree, sets, cursor, field, fetched, ended>>

-----------------------------------------------------------------------------
(* mysql_proxy_fetch_row: where the cursor goes.  A set that is finished   *)
(* is removed; the sets that follow move up.                               *)
FirstRow(ss) ==
  IF \E i \in 1 .. Len(ss) : ss[i].rows # << >>
  THEN [set |-> CHOOSE i \in 1 .. Len(ss) :
                  ss[i].rows # << >> /\ \A j \in 1 .. i - 1 : ss[j].rows = << >>,
        row |-> 1]
  ELSE Nowhere
From(ss, i) == SubSeq(ss, i, Len(ss))
Shift(c, n) == IF c = Nowhere THEN c ELSE [c EXCEPT !.set = @ + n]

(* Mutant of Finished: the set stays in the tree.                          *)
FinishedKept(ss, i) == ss

Finished(ss, i) == SubSeq(ss, 1, i - 1) \o From(ss, i + 1)
FetchRow ==
  /\ phase = "open"
  /\ CASE cursor = Nowhere ->
            sets' = sets /\ cursor' = FirstRow(sets)
       [] cursor # Nowhere /\ cursor.row < Len(sets[cursor.set].rows) ->
            sets' = sets /\ cursor' = [cursor EXCEPT !.row = @ + 1]
       [] OTHER ->
            /\ sets' = Finished(sets, cursor.set)
            /\ cursor' = LET next == From(sets, cursor.set + 1)
                         IN Shift(FirstRow(next), Len(sets') - Len(next))
  /\ IF cursor' = Nowhere \/ Fields = 0 THEN ended' = TRUE /\ fetched' = fetched
     ELSE /\ fetched' = Append(fetched, sets'[cursor'.set].rows[cursor'.row])
          /\ ended' = ended
  /\ UNCHANGED <<phase, num_rows, r, settree, field>>

(* mysql_proxy_fetch_field: past the last one it starts again.             *)
FetchField ==
  /\ phase = "open" /\ field' = IF field < Fields THEN field + 1 ELSE 0
  /\ UNCHANGED <<phase, num_rows, r, settree, sets, cursor, fetched, ended>>

(* mysql_proxy_fetch_fields leaves the cursor of mysql_proxy_fetch_field   *)
(* at the start.                                                           *)
FetchFields ==
  /\ phase = "open" /\ Fields > 0 /\ field' = 0
  /\ UNCHANGED <<phase, num_rows, r, settree, sets, cursor, fetched, ended>>

FreeResult ==
  /\ phase = "open" /\ phase' = "freed"
  /\ UNCHANGED <<num_rows, r, settree, sets, cursor, field, fetched, ended>>

RowsNext ==
  \/ PackRow \/ PackFails \/ StoreResult
  \/ FetchRow \/ FetchField \/ FetchFields \/ FreeResult

RowsSpec == RowsInit /\ [][RowsNext]_rowVars

-----------------------------------------------------------------------------
(* The caller gets every row of the result once and in order, across the   *)
(* sets and whatever else it calls in between; NULL comes after the last   *)
(* row and not before, and is final.                                       *)
RowsOnce ==
  /\ \A i \in 1 .. Len(fetched) : fetched[i] = i - 1
  /\ Len(fetched) <= num_rows
  /\ ended => Len(fetched) = num_rows
=============================================================================
