--------------------------- MODULE ResultRowsProofs ---------------------------
(***************************************************************************)
(* That mysql_proxy_fetch_row returns every row of a result once and in    *)
(* order, for results of any size and sets of any size.  RowsOnce speaks   *)
(* of the rows that were returned only; that the next one is right depends *)
(* on how PackResult laid out the rows that are left in the tree.          *)
(***************************************************************************)
EXTENDS ResultRows, SequenceTheorems, TLAPS

Set == [key : Int, rows : Seq(Int)]
Packing == phase \in {"pack", "failed"}
TypeInv ==
  /\ phase \in {"pack", "failed", "open", "freed"}
  /\ num_rows \in Nat /\ r \in Nat /\ settree \in BOOLEAN
  /\ sets \in Seq(Set) /\ cursor \in [set : Nat, row : Nat]
  /\ fetched \in Seq(Int) /\ ended \in BOOLEAN

(* The sets in the tree hold consecutive rows, up to the last one packed.  *)
Run(x, n) ==
  /\ Len(x.rows) > 0 /\ x.rows[1] + Len(x.rows) <= n
  /\ \A k \in 1 .. Len(x.rows) : x.rows[k] = x.rows[1] + k - 1
Follows(x, y) == y.rows[1] = x.rows[1] + Len(x.rows)
EndsAt(x, n) == x.rows[1] + Len(x.rows) = n
Runs(ss, n) ==
  /\ \A i \in 1 .. Len(ss) : Run(ss[i], n)
  /\ \A i \in 1 .. Len(ss) - 1 : Follows(ss[i], ss[i + 1])
  /\ Len(ss) > 0 => EndsAt(ss[Len(ss)], n)

(* Before the first row is asked for, the sets begin with row 0.           *)
Whole(ss, n) == IF Len(ss) = 0 THEN n = 0 ELSE ss[1].rows[1] = 0

(* The caller has had the rows up to the cursor, which is in the first of  *)
(* the sets that are left; or all of them, and no set is left.             *)
Fetching ==
  IF cursor = Nowhere
  THEN IF Len(sets) = 0 THEN Len(fetched) = num_rows
       ELSE sets[1].rows[1] = 0 /\ Len(fetched) = 0 /\ ~ ended
  ELSE /\ cursor.set = 1 /\ Len(sets) > 0 /\ ~ ended
       /\ cursor.row \in 1 .. Len(sets[1].rows)
       /\ Len(fetched) = sets[1].rows[1] + cursor.row

RowsInv ==
  /\ TypeInv
  /\ r <= num_rows /\ Runs(sets, r)
  /\ \A i \in 1 .. Len(fetched) : fetched[i] = i - 1
  /\ Packing => /\ cursor = Nowhere /\ Len(fetched) = 0 /\ ~ ended
                /\ Whole(sets, r) /\ (settree => Len(sets) > 0)
  /\ ~ Packing => r = num_rows /\ Fetching

-----------------------------------------------------------------------------
LEMMA RowsInitially == RowsInit => RowsInv
<1> SUFFICES ASSUME RowsInit PROVE RowsInv
  OBVIOUS
<1>1. TypeInv
  <2>1. settree \in BOOLEAN /\ ended \in BOOLEAN /\ ~ ended
    BY Zenon DEF RowsInit
  <2>2. sets \in Seq(Set) /\ fetched \in Seq(Int) /\ cursor \in [set : Nat, row : Nat]
    BY DEF RowsInit, Nowhere
  <2>3. num_rows \in Nat /\ r \in Nat /\ phase = "pack"
    BY RowsAssumption DEF RowsInit
  <2> QED BY <2>1, <2>2, <2>3 DEF TypeInv
<1>2. Runs(sets, r) /\ Whole(sets, r)
  BY DEF RowsInit, Runs, Whole
<1>3. r <= num_rows /\ Len(fetched) = 0 /\ cursor = Nowhere /\ Packing
  BY RowsAssumption DEF RowsInit, Packing
<1>4. ~ ended /\ ~ settree
  BY Zenon DEF RowsInit
<1> QED BY <1>1, <1>2, <1>3, <1>4 DEF RowsInv

(* One set of the sequence is replaced, with other rows.                   *)
LEMMA Replace ==
  ASSUME NEW S, NEW s \in Seq(S), NEW m \in 1 .. Len(s), NEW y \in S
  PROVE  /\ [s EXCEPT ![m] = y] \in Seq(S) /\ Len([s EXCEPT ![m] = y]) = Len(s)
         /\ [s EXCEPT ![m] = y][m] = y
         /\ \A i \in 1 .. Len(s) \ {m} : [s EXCEPT ![m] = y][i] = s[i]
OBVIOUS

LEMMA WithRows ==
  ASSUME NEW x \in Set, NEW q \in Seq(Int)
  PROVE  [x EXCEPT !.rows = q] \in Set /\ [x EXCEPT !.rows = q].rows = q
BY DEF Set

(* A set, and what is known of it.                                         *)
LEMMA SetType ==
  ASSUME NEW x \in Set, NEW n \in Nat, Run(x, n)
  PROVE  /\ x.rows \in Seq(Int) /\ Len(x.rows) \in Nat \ {0} /\ x.rows[1] \in Int
         /\ x.rows[1] + Len(x.rows) <= n /\ Run(x, n + 1)
<1>1. x.rows \in Seq(Int) /\ Len(x.rows) \in Nat
  BY DEF Set
<1>2. Len(x.rows) > 0 /\ x.rows[1] + Len(x.rows) <= n
  BY DEF Run
<1>3. x.rows[1] \in Int
  BY <1>1, <1>2
<1>4. x.rows[1] + Len(x.rows) <= n + 1
  BY <1>1, <1>2, <1>3
<1> QED BY <1>1, <1>2, <1>3, <1>4 DEF Run

(* The rows that are returned follow from the invariant.                   *)
LEMMA RowsInvImplies == RowsInv => RowsOnce
<1> SUFFICES ASSUME RowsInv PROVE RowsOnce
  OBVIOUS
<1>1. CASE Packing
  BY <1>1 DEF RowsInv, RowsOnce, TypeInv
<1>2. CASE ~ Packing /\ cursor = Nowhere
  BY <1>2 DEF RowsInv, RowsOnce, TypeInv, Fetching
<1>3. CASE ~ Packing /\ cursor # Nowhere
  <2>1. /\ sets[1] \in Set /\ 1 \in 1 .. Len(sets) /\ ~ ended
        /\ Len(fetched) = sets[1].rows[1] + cursor.row /\ cursor.row \in 1 .. Len(sets[1].rows)
    BY <1>3 DEF RowsInv, TypeInv, Fetching
  <2>2. r \in Nat /\ Run(sets[1], r) /\ r = num_rows
    BY <1>3, <2>1 DEF RowsInv, TypeInv, Runs
  <2>3. /\ Len(sets[1].rows) \in Nat /\ sets[1].rows[1] \in Int
        /\ sets[1].rows[1] + Len(sets[1].rows) <= r
    BY <2>1, <2>2, SetType
  <2>4. Len(fetched) <= num_rows
    BY <2>1, <2>2, <2>3
  <2> QED BY <2>1, <2>4 DEF RowsInv, RowsOnce
<1> QED BY <1>1, <1>2, <1>3

-----------------------------------------------------------------------------
(* PackResult adds row n to the open set, the last one, ...                *)
LEMMA PutOpen ==
  ASSUME NEW ss \in Seq(Set), NEW n \in Nat, Runs(ss, n), Len(ss) > 0, Whole(ss, n),
         NEW tt, tt = [ss EXCEPT ![Len(ss)].rows = Append(@, n)]
  PROVE  tt \in Seq(Set) /\ Len(tt) = Len(ss) /\ Runs(tt, n + 1) /\ Whole(tt, n + 1)
<1> DEFINE m == Len(ss)
           x == ss[m]
           y == [x EXCEPT !.rows = Append(@, n)]
<1>1. m \in Nat /\ m \in 1 .. m /\ \A i \in 1 .. m : ss[i] \in Set /\ Run(ss[i], n)
  BY DEF Runs
<1>2. x \in Set /\ Run(x, n) /\ EndsAt(x, n)
  BY <1>1 DEF Runs
<1>3. tt = [ss EXCEPT ![m] = y]
  OBVIOUS
<1>4. y \in Set /\ y.rows = Append(x.rows, n)
  <2>1. x.rows \in Seq(Int)
    BY <1>2 DEF Set
  <2>2. Append(x.rows, n) \in Seq(Int)
    BY <2>1
  <2> QED BY <1>2, <2>2, WithRows
<1>5. y.rows[1] = x.rows[1] /\ Len(y.rows) = Len(x.rows) + 1
      /\ Run(y, n + 1) /\ EndsAt(y, n + 1)
  <2> HIDE DEF x, y
  <2>1. x.rows \in Seq(Int) /\ Len(x.rows) \in Nat \ {0} /\ x.rows[1] \in Int
    BY <1>2, SetType
  <2>2. Len(y.rows) = Len(x.rows) + 1 /\ y.rows[Len(x.rows) + 1] = n
        /\ \A k \in 1 .. Len(x.rows) : y.rows[k] = x.rows[k]
    BY <1>4, <2>1
  <2>3. y.rows[1] = x.rows[1]
    BY <2>1, <2>2
  <2>4. x.rows[1] + Len(x.rows) = n /\ \A k \in 1 .. Len(x.rows) : x.rows[k] = x.rows[1] + k - 1
    BY <1>2 DEF Run, EndsAt
  <2>5. y.rows[1] + Len(y.rows) = n + 1
    <3>1. y.rows[1] + Len(y.rows) = x.rows[1] + (Len(x.rows) + 1)
      BY <2>2, <2>3
    <3>2. x.rows[1] + Len(x.rows) = n
      BY <2>4
    <3>3. \A a, b \in Int : a + b = n => a + (b + 1) = n + 1
      OBVIOUS
    <3>4. x.rows[1] \in Int /\ Len(x.rows) \in Int
      BY <2>1
    <3> QED BY <3>1, <3>2, <3>3, <3>4, Zenon
  <2>6. \A k \in 1 .. Len(y.rows) : y.rows[k] = y.rows[1] + k - 1
    <3> TAKE k \in 1 .. Len(y.rows)
    <3>1. CASE k = Len(x.rows) + 1
      BY <2>1, <2>2, <2>3, <2>4, <3>1
    <3>2. CASE k \in 1 .. Len(x.rows)
      BY <2>1, <2>2, <2>3, <2>4, <3>2
    <3> QED BY <2>1, <2>2, <3>1, <3>2
  <2>7. Len(y.rows) > 0 /\ y.rows[1] + Len(y.rows) <= n + 1
    BY <2>1, <2>2, <2>5
  <2> QED BY <2>2, <2>3, <2>5, <2>6, <2>7 DEF Run, EndsAt
<1>6. tt \in Seq(Set) /\ Len(tt) = m /\ tt[m] = y /\ \A i \in 1 .. m - 1 : tt[i] = ss[i]
  <2> HIDE DEF x, y
  <2>1. tt \in Seq(Set) /\ Len(tt) = m /\ tt[m] = y /\ \A i \in 1 .. m \ {m} : tt[i] = ss[i]
    <3>1. m \in 1 .. Len(ss) /\ y \in Set
      BY <1>1, <1>4
    <3> HIDE DEF m
    <3>2. /\ [ss EXCEPT ![m] = y] \in Seq(Set) /\ Len([ss EXCEPT ![m] = y]) = Len(ss)
          /\ [ss EXCEPT ![m] = y][m] = y
          /\ \A i \in 1 .. Len(ss) \ {m} : [ss EXCEPT ![m] = y][i] = ss[i]
      BY <3>1, Replace
    <3> QED BY <1>3, <3>2 DEF m
  <2> QED BY <1>1, <2>1
<1> HIDE DEF x, y
<1>7. \A i \in 1 .. m : Run(tt[i], n + 1)
  <2> TAKE i \in 1 .. m
  <2>1. CASE i = m
    BY <1>5, <1>6, <2>1
  <2>2. CASE i \in 1 .. m - 1
    <3>1. tt[i] = ss[i] /\ ss[i] \in Set /\ Run(ss[i], n)
      BY <1>1, <1>6, <2>2
    <3> QED BY <3>1, SetType
  <2> QED BY <1>1, <2>1, <2>2
<1>8. \A i \in 1 .. m - 1 : Follows(tt[i], tt[i + 1])
  <2> TAKE i \in 1 .. m - 1
  <2>1. Follows(ss[i], ss[i + 1]) /\ tt[i] = ss[i]
    BY <1>6 DEF Runs
  <2>2. tt[i + 1].rows[1] = ss[i + 1].rows[1]
    <3>1. CASE i + 1 = m
      BY <1>5, <1>6, <3>1 DEF x
    <3>2. CASE i + 1 \in 1 .. m - 1
      BY <1>6, <3>2
    <3> QED BY <1>1, <3>1, <3>2
  <2> QED BY <2>1, <2>2 DEF Follows
<1>9. tt[1].rows[1] = ss[1].rows[1]
  <2>1. CASE m = 1
    BY <1>5, <1>6, <2>1 DEF x
  <2>2. CASE 1 \in 1 .. m - 1
    BY <1>6, <2>2
  <2> QED BY <1>1, <2>1, <2>2
<1>10. Runs(tt, n + 1)
  BY <1>5, <1>6, <1>7, <1>8 DEF Runs
<1>11. Whole(tt, n + 1)
  BY <1>6, <1>9 DEF Whole
<1> QED BY <1>6, <1>10, <1>11

(* ... or to a new set.                                                    *)
LEMMA PutNew ==
  ASSUME NEW ss \in Seq(Set), NEW n \in Nat, Runs(ss, n), Whole(ss, n),
         NEW x \in Set, x.rows = <<n>>
  PROVE  /\ Append(ss, x) \in Seq(Set) /\ Len(Append(ss, x)) = Len(ss) + 1
         /\ Runs(Append(ss, x), n + 1) /\ Whole(Append(ss, x), n + 1)
<1> DEFINE m == Len(ss)
           tt == Append(ss, x)
<1>1. m \in Nat /\ \A i \in 1 .. m : ss[i] \in Set /\ Run(ss[i], n)
  BY DEF Runs
<1>2. tt \in Seq(Set) /\ Len(tt) = m + 1 /\ tt[m + 1] = x /\ \A i \in 1 .. m : tt[i] = ss[i]
  BY <1>1
<1>3. Len(x.rows) = 1 /\ x.rows[1] = n
  OBVIOUS
<1>4. Run(x, n + 1) /\ EndsAt(x, n + 1)
  BY <1>3 DEF Run, EndsAt
<1> HIDE DEF tt
<1>5. \A i \in 1 .. m + 1 : Run(tt[i], n + 1)
  <2> TAKE i \in 1 .. m + 1
  <2>1. CASE i = m + 1
    BY <1>2, <1>4, <2>1
  <2>2. CASE i \in 1 .. m
    <3>1. tt[i] = ss[i] /\ ss[i] \in Set /\ Run(ss[i], n)
      BY <1>1, <1>2, <2>2
    <3> QED BY <3>1, SetType
  <2> QED BY <1>1, <2>1, <2>2
<1>6. \A i \in 1 .. m : Follows(tt[i], tt[i + 1])
  <2> TAKE i \in 1 .. m
  <2>1. CASE i = m
    <3>1. EndsAt(ss[m], n) /\ tt[i] = ss[m] /\ tt[i + 1] = x
      BY <1>1, <1>2, <2>1 DEF Runs
    <3> QED BY <1>3, <3>1 DEF EndsAt, Follows
  <2>2. CASE i \in 1 .. m - 1
    <3>1. Follows(ss[i], ss[i + 1]) /\ tt[i] = ss[i]
      BY <1>2, <2>2 DEF Runs
    <3>2. tt[i + 1] = ss[i + 1]
      BY <1>1, <1>2, <2>2
    <3> QED BY <3>1, <3>2
  <2> QED BY <1>1, <2>1, <2>2
<1>7. Runs(tt, n + 1)
  BY <1>1, <1>2, <1>4, <1>5, <1>6 DEF Runs
<1>8. Whole(tt, n + 1)
  <2>1. CASE m = 0
    BY <1>2, <1>3, <2>1 DEF Whole
  <2>2. CASE 1 \in 1 .. m
    BY <1>1, <1>2, <2>2 DEF Whole
  <2> QED BY <1>1, <2>1, <2>2
<1> QED BY <1>2, <1>7, <1>8 DEF tt

LEMMA PackRowKeeps == RowsInv /\ PackRow => RowsInv'
<1> SUFFICES ASSUME RowsInv, PackRow PROVE RowsInv'
  OBVIOUS
<1>1. /\ phase = "pack" /\ r \in Nat /\ num_rows \in Nat /\ r < num_rows
      /\ r' = r + 1 /\ sets \in Seq(Set)
  BY DEF RowsInv, PackRow, TypeInv
<1>2. Runs(sets, r) /\ Whole(sets, r) /\ (settree => Len(sets) > 0)
  BY <1>1 DEF RowsInv, Packing
<1>3. sets' \in Seq(Set) /\ Len(sets') > 0 /\ Runs(sets', r + 1) /\ Whole(sets', r + 1)
  <2>1. CASE settree
    BY <1>1, <1>2, <2>1, PutOpen DEF PackRow, Put
  <2>2. CASE ~ settree
    <3> DEFINE x == [key |-> r \div PerSet, rows |-> <<r>>]
    <3>1. x \in Set /\ x.rows = <<r>>
      BY <1>1, RowsAssumption DEF Set
    <3>2. sets' = Append(sets, x)
      BY <2>2 DEF PackRow, Put
    <3> HIDE DEF x
    <3> QED BY <1>1, <1>2, <3>1, <3>2, PutNew
  <2> QED BY <2>1, <2>2
<1>4. settree' \in BOOLEAN
  BY DEF PackRow
<1>5. UNCHANGED <<phase, num_rows, cursor, fetched, ended>>
  BY DEF PackRow
<1>6. TypeInv'
  BY <1>1, <1>3, <1>4, <1>5 DEF RowsInv, TypeInv
<1>7. Packing' /\ cursor' = Nowhere' /\ Len(fetched') = 0 /\ ~ ended'
  BY <1>1, <1>5 DEF RowsInv, Packing, Nowhere
<1>8. r' <= num_rows'
  BY <1>1, <1>5
<1>9. \A i \in 1 .. Len(fetched') : fetched'[i] = i - 1
  BY <1>5 DEF RowsInv
<1> QED BY <1>1, <1>3, <1>6, <1>7, <1>8, <1>9 DEF RowsInv

-----------------------------------------------------------------------------
(* FirstRow finds the first set, since no set is empty.                    *)
LEMMA FirstIsFirst ==
  ASSUME NEW ss \in Seq(Set), NEW n \in Nat, \A i \in 1 .. Len(ss) : Run(ss[i], n)
  PROVE  FirstRow(ss) = IF Len(ss) = 0 THEN Nowhere ELSE [set |-> 1, row |-> 1]
<1>1. \A i \in 1 .. Len(ss) : ss[i].rows # << >>
  <2> TAKE i \in 1 .. Len(ss)
  <2>1. Len(ss[i].rows) > 0
    BY DEF Run
  <2> QED BY <2>1
<1>2. CASE Len(ss) = 0
  BY <1>2 DEF FirstRow
<1>3. CASE Len(ss) # 0
  <2>1. 1 \in 1 .. Len(ss) /\ ss[1].rows # << >>
    BY <1>1, <1>3
  <2> DEFINE P(i) == ss[i].rows # << >> /\ \A j \in 1 .. i - 1 : ss[j].rows = << >>
  <2>2. P(1)
    BY <2>1
  <2>3. \A i \in 1 .. Len(ss) : P(i) => i = 1
    <3> SUFFICES ASSUME NEW i \in 1 .. Len(ss), P(i), i # 1 PROVE FALSE
      OBVIOUS
    <3>1. 1 \in 1 .. i - 1
      OBVIOUS
    <3> QED BY <2>1, <3>1
  <2>4. (CHOOSE i \in 1 .. Len(ss) : P(i)) = 1
    <3> HIDE DEF P
    <3> QED BY <2>1, <2>2, <2>3
  <2> QED BY <1>3, <2>1, <2>4 DEF FirstRow
<1> QED BY <1>2, <1>3

(* The sets that are left when the first is finished.                      *)
LEMMA Rest ==
  ASSUME NEW ss \in Seq(Set), NEW n \in Nat, Runs(ss, n), Len(ss) > 0
  PROVE  /\ From(ss, 2) \in Seq(Set) /\ Len(From(ss, 2)) = Len(ss) - 1
         /\ \A i \in 1 .. Len(ss) - 1 : From(ss, 2)[i] = ss[i + 1]
         /\ Runs(From(ss, 2), n) /\ Finished(ss, 1) = From(ss, 2)
<1> DEFINE tt == From(ss, 2)
           m == Len(ss) - 1
<1>1. Len(ss) \in Nat /\ m \in Nat /\ tt = SubSeq(ss, 2, Len(ss))
  BY DEF From
<1>2. tt \in Seq(Set) /\ Len(tt) = m /\ \A i \in 1 .. m : tt[i] = ss[i + 1]
  <2>1. \A i \in 2 .. Len(ss) : ss[i] \in Set
    BY <1>1
  <2>2. /\ SubSeq(ss, 2, Len(ss)) \in Seq(Set)
        /\ Len(SubSeq(ss, 2, Len(ss))) = IF 2 <= Len(ss) THEN Len(ss) - 2 + 1 ELSE 0
        /\ \A i \in 1 .. Len(ss) - 2 + 1 : SubSeq(ss, 2, Len(ss))[i] = ss[2 + i - 1]
    BY <1>1, <2>1, SubSeqProperties
  <2>3. Len(ss) - 2 + 1 = m /\ (IF 2 <= Len(ss) THEN Len(ss) - 2 + 1 ELSE 0) = m
    <3>1. \A a \in Nat : a > 0 => a - 2 + 1 = a - 1 /\ (IF 2 <= a THEN a - 2 + 1 ELSE 0) = a - 1
      OBVIOUS
    <3>2. Len(ss) \in Nat
      BY <1>1
    <3> QED BY <3>1, <3>2
  <2> HIDE DEF tt
  <2>4. tt \in Seq(Set) /\ Len(tt) = m /\ \A i \in 1 .. m : tt[i] = ss[2 + i - 1]
    BY <1>1, <2>2, <2>3
  <2>5. \A i \in 1 .. m : tt[i] = ss[i + 1]
    <3> TAKE i \in 1 .. m
    <3>1. 2 + i - 1 = i + 1
      OBVIOUS
    <3> QED BY <2>4, <3>1
  <2> QED BY <2>4, <2>5
<1>3. Finished(ss, 1) = tt
  <2>1. SubSeq(ss, 1, 0) = << >>
    OBVIOUS
  <2>2. << >> \o tt = tt
    <3> HIDE DEF tt
    <3> QED BY <1>2, ConcatEmptySeq
  <2>3. Finished(ss, 1) = SubSeq(ss, 1, 0) \o tt
    <3>1. 1 - 1 = 0 /\ 1 + 1 = 2
      OBVIOUS
    <3> QED BY <3>1, Zenon DEF Finished
  <2> QED BY <2>1, <2>2, <2>3
<1> HIDE DEF tt
<1>4. \A i \in 1 .. m : Run(tt[i], n)
  BY <1>1, <1>2 DEF Runs
<1>5. \A i \in 1 .. m - 1 : Follows(tt[i], tt[i + 1])
  <2> TAKE i \in 1 .. m - 1
  <2>1. tt[i] = ss[i + 1] /\ tt[i + 1] = ss[(i + 1) + 1]
    BY <1>1, <1>2
  <2>2. i + 1 \in 1 .. Len(ss) - 1
    BY <1>1
  <2> QED BY <2>1, <2>2 DEF Runs
<1>6. m > 0 => EndsAt(tt[m], n)
  BY <1>1, <1>2 DEF Runs
<1>7. Runs(tt, n)
  BY <1>2, <1>4, <1>5, <1>6 DEF Runs
<1> QED BY <1>2, <1>3, <1>7 DEF tt

(* One more row, the one that follows.                                     *)
LEMMA OneMore ==
  ASSUME NEW s \in Seq(Int), \A i \in 1 .. Len(s) : s[i] = i - 1,
         NEW x \in Int, x = Len(s)
  PROVE  /\ Append(s, x) \in Seq(Int) /\ Len(Append(s, x)) = Len(s) + 1
         /\ \A i \in 1 .. Len(Append(s, x)) : Append(s, x)[i] = i - 1
<1> DEFINE tt == Append(s, x)
<1>1. tt \in Seq(Int) /\ Len(s) \in Nat /\ Len(tt) = Len(s) + 1 /\ tt[Len(s) + 1] = x
      /\ \A i \in 1 .. Len(s) : tt[i] = s[i]
  OBVIOUS
<1> HIDE DEF tt
<1>2. \A i \in 1 .. Len(s) + 1 : tt[i] = i - 1
  <2> TAKE i \in 1 .. Len(s) + 1
  <2>1. CASE i = Len(s) + 1
    BY <1>1, <2>1
  <2>2. CASE i \in 1 .. Len(s)
    BY <1>1, <2>2
  <2> QED BY <1>1, <2>1, <2>2
<1> QED BY <1>1, <1>2 DEF tt

(* mysql_proxy_fetch_row moves to the next row of the first set that is    *)
(* left, to the first row of the one after it, or past the last.           *)
LEMMA FetchRowKeeps == RowsInv /\ FetchRow => RowsInv'
<1> SUFFICES ASSUME RowsInv, FetchRow PROVE RowsInv'
  OBVIOUS
<1>1. /\ ~ Packing /\ ~ Packing' /\ phase' \in {"pack", "failed", "open", "freed"}
      /\ UNCHANGED <<num_rows, r, settree>>
  BY DEF FetchRow, Packing
<1>2. /\ r \in Nat /\ r = num_rows /\ Runs(sets, r) /\ Fetching
      /\ sets \in Seq(Set) /\ fetched \in Seq(Int)
      /\ \A i \in 1 .. Len(fetched) : fetched[i] = i - 1
      /\ settree \in BOOLEAN
  BY <1>1 DEF RowsInv, TypeInv
<1>3. ended \in BOOLEAN /\ cursor \in [set : Nat, row : Nat]
  BY DEF RowsInv, TypeInv
<1>4. \A i \in 1 .. Len(sets) : Run(sets[i], r) /\ sets[i] \in Set
  BY <1>2 DEF Runs
<1> DEFINE At(k) == [set |-> 1, row |-> k]
(* It finds the next row, ...                                              *)
<1>5. ASSUME NEW k \in Nat, cursor' = At(k), ~ ended,
             sets' \in Seq(Set), Runs(sets', r), Len(sets') > 0,
             k \in 1 .. Len(sets'[1].rows), Len(fetched) = sets'[1].rows[1] + k - 1
      PROVE  RowsInv'
  <2>1. At(k) # Nowhere /\ At(k).set = 1 /\ At(k).row = k /\ At(k) \in [set : Nat, row : Nat]
    BY DEF Nowhere
  <2>2. fetched' = Append(fetched, sets'[1].rows[k]) /\ ended' = ended
    BY <1>5, <2>1, RowsAssumption DEF FetchRow
  <2>3. Run(sets'[1], r) /\ sets'[1] \in Set
    BY <1>5 DEF Runs
  <2>4. sets'[1].rows[1] \in Int /\ sets'[1].rows[k] = sets'[1].rows[1] + k - 1
    <3>1. sets'[1].rows[1] \in Int
      BY <1>2, <2>3, SetType
    <3> QED BY <1>5, <2>3, <3>1 DEF Run
  <2>5. sets'[1].rows[k] \in Int /\ sets'[1].rows[k] = Len(fetched)
    BY <1>2, <1>5, <2>4
  <2>6. /\ fetched' \in Seq(Int) /\ Len(fetched') = Len(fetched) + 1
        /\ \A i \in 1 .. Len(fetched') : fetched'[i] = i - 1
    BY <1>2, <2>2, <2>5, OneMore
  <2>7. Len(fetched') = sets'[1].rows[1] + k
    <3>1. \A a \in Int : (a + k - 1) + 1 = a + k
      OBVIOUS
    <3>2. Len(fetched') = (sets'[1].rows[1] + k - 1) + 1
      BY <1>5, <2>6
    <3> QED BY <2>4, <3>1, <3>2, Zenon
  <2>8. Fetching'
    BY <1>5, <2>1, <2>2, <2>7 DEF Fetching, Nowhere
  <2>9. TypeInv'
    BY <1>1, <1>2, <1>3, <1>5, <2>1, <2>2, <2>6 DEF TypeInv
  <2> QED BY <1>1, <1>2, <1>5, <2>6, <2>8, <2>9 DEF RowsInv
(* ... or there is none.                                                   *)
<1>6. ASSUME cursor' = Nowhere, sets' \in Seq(Set), Len(sets') = 0, Len(fetched) = num_rows
      PROVE  RowsInv'
  <2>1. fetched' = fetched /\ ended' = TRUE
    BY <1>6 DEF FetchRow
  <2>2. Runs(sets', r)
    BY <1>6 DEF Runs
  <2>3. Fetching'
    BY <1>1, <1>6, <2>1 DEF Fetching, Nowhere
  <2>4. cursor' \in [set : Nat, row : Nat] /\ ended' \in BOOLEAN
    BY <1>6, <2>1 DEF Nowhere
  <2>5. TypeInv'
    BY <1>1, <1>2, <1>6, <2>1, <2>4 DEF TypeInv
  <2> QED BY <1>1, <1>2, <2>1, <2>2, <2>3, <2>5 DEF RowsInv
<1>7. CASE cursor = Nowhere
  <2>1. sets' = sets /\ cursor' = FirstRow(sets)
    BY <1>7 DEF FetchRow
  <2>2. FirstRow(sets) = IF Len(sets) = 0 THEN Nowhere ELSE At(1)
    BY <1>2, <1>4, FirstIsFirst
  <2>3. CASE Len(sets) = 0
    <3>1. Len(fetched) = num_rows
      BY <1>2, <1>7, <2>3 DEF Fetching
    <3> QED BY <1>2, <1>6, <2>1, <2>2, <2>3, <3>1
  <2>4. CASE Len(sets) # 0
    <3>1. /\ sets[1].rows[1] = 0 /\ Len(fetched) = 0 /\ ~ ended
          /\ Len(sets) > 0 /\ 1 \in 1 .. Len(sets)
      BY <1>2, <1>7, <2>4 DEF Fetching
    <3>2. Len(sets[1].rows) \in Nat \ {0}
      BY <1>2, <1>4, <3>1, SetType
    <3>3. 1 \in 1 .. Len(sets[1].rows) /\ Len(fetched) = sets[1].rows[1] + 1 - 1
      BY <3>1, <3>2
    <3> HIDE DEF At
    <3> QED BY <1>2, <1>5, <2>1, <2>2, <2>4, <3>1, <3>3
  <2> QED BY <2>3, <2>4
<1>8. CASE cursor # Nowhere
  <2>1. /\ cursor.set = 1 /\ Len(sets) > 0 /\ 1 \in 1 .. Len(sets) /\ ~ ended
        /\ cursor.row \in 1 .. Len(sets[1].rows)
        /\ Len(fetched) = sets[1].rows[1] + cursor.row
    BY <1>2, <1>8 DEF Fetching
  <2>2. /\ Len(sets[1].rows) \in Nat \ {0} /\ sets[1].rows[1] \in Int
    BY <1>2, <1>4, <2>1, SetType
  <2>3. CASE cursor.row < Len(sets[1].rows)
    <3>1. sets' = sets /\ cursor' = [cursor EXCEPT !.row = @ + 1]
      BY <1>8, <2>1, <2>3 DEF FetchRow
    <3>2. cursor' = At(cursor.row + 1)
      BY <1>3, <2>1, <3>1
    <3>3. /\ cursor.row + 1 \in Nat /\ cursor.row + 1 \in 1 .. Len(sets[1].rows)
          /\ Len(fetched) = sets[1].rows[1] + (cursor.row + 1) - 1
      BY <2>1, <2>2, <2>3
    <3> HIDE DEF At
    <3> QED BY <1>2, <1>5, <2>1, <3>1, <3>2, <3>3
  <2>4. CASE ~ (cursor.row < Len(sets[1].rows))
    <3> DEFINE rest == From(sets, 2)
    <3>1. cursor.row = Len(sets[1].rows)
      BY <2>1, <2>2, <2>4
    <3>2. /\ rest \in Seq(Set) /\ Len(rest) = Len(sets) - 1 /\ Runs(rest, r)
          /\ \A i \in 1 .. Len(sets) - 1 : rest[i] = sets[i + 1]
          /\ Finished(sets, 1) = rest
      BY <1>2, <2>1, Rest
    <3>3. sets' = rest /\ cursor' = Shift(FirstRow(rest), Len(rest) - Len(rest))
      <4>1. /\ sets' = Finished(sets, cursor.set)
            /\ cursor' = LET next == From(sets, cursor.set + 1)
                         IN Shift(FirstRow(next), Len(sets') - Len(next))
        BY <1>8, <2>1, <2>4 DEF FetchRow
      <4>2. cursor.set + 1 = 2
        BY <2>1
      <4> QED BY <2>1, <3>2, <4>1, <4>2
    <3> HIDE DEF rest
    <3>4. FirstRow(rest) = IF Len(rest) = 0 THEN Nowhere ELSE At(1)
      BY <1>2, <3>2, FirstIsFirst DEF Runs
    <3>5. CASE Len(rest) = 0
      <4>1. cursor' = Nowhere
        BY <3>3, <3>4, <3>5 DEF Shift
      <4>2. Len(sets) = 1 /\ EndsAt(sets[1], r)
        <5>1. Len(sets) = 1
          BY <1>2, <3>2, <3>5
        <5>2. EndsAt(sets[Len(sets)], r)
          BY <1>2, <2>1 DEF Runs
        <5> QED BY <5>1, <5>2
      <4>3. Len(fetched) = num_rows
        BY <1>2, <2>1, <3>1, <4>2 DEF EndsAt
      <4> QED BY <1>6, <3>2, <3>3, <3>5, <4>1, <4>3
    <3>6. CASE Len(rest) # 0
      <4>1. Len(rest) > 0 /\ Len(rest) \in Nat /\ 1 \in 1 .. Len(sets) - 1 /\ 1 \in 1 .. Len(rest)
        BY <1>2, <3>2, <3>6
      <4>2. cursor' = At(1)
        <5>1. Len(rest) - Len(rest) = 0
          BY <4>1
        <5>2. At(1) # Nowhere /\ [At(1) EXCEPT !.set = @ + 0] = At(1)
          BY DEF Nowhere
        <5> QED BY <3>3, <3>4, <3>6, <5>1, <5>2 DEF Shift
      <4>3. rest[1] = sets[1 + 1] /\ Follows(sets[1], sets[1 + 1])
        BY <1>2, <3>2, <4>1 DEF Runs
      <4>4. rest[1].rows[1] = Len(fetched)
        BY <2>1, <3>1, <4>3 DEF Follows
      <4>5. rest[1] \in Set /\ Run(rest[1], r)
        BY <3>2, <4>1 DEF Runs
      <4>6. Len(rest[1].rows) \in Nat \ {0} /\ rest[1].rows[1] \in Int
        BY <1>2, <4>5, SetType
      <4>7. 1 \in 1 .. Len(rest[1].rows) /\ Len(fetched) = rest[1].rows[1] + 1 - 1
        BY <4>4, <4>6
      <4> HIDE DEF At
      <4> QED BY <1>5, <2>1, <3>2, <3>3, <4>1, <4>2, <4>7
    <3> QED BY <3>5, <3>6
  <2> QED BY <2>3, <2>4
<1> QED BY <1>7, <1>8

-----------------------------------------------------------------------------
LEMMA RowsInductive == RowsInv /\ [RowsNext]_rowVars => RowsInv'
<1> SUFFICES ASSUME RowsInv, [RowsNext]_rowVars PROVE RowsInv'
  OBVIOUS
<1>1. CASE PackRow
  BY <1>1, PackRowKeeps
<1>2. CASE FetchRow
  BY <1>2, FetchRowKeeps
<1>3. CASE PackFails
  <2>1. Packing /\ Packing' /\ phase' = "failed"
    BY <1>3 DEF PackFails, Packing
  <2>2. UNCHANGED <<num_rows, r, settree, sets, cursor, fetched, ended>>
    BY <1>3 DEF PackFails
  <2> QED BY <2>1, <2>2 DEF RowsInv, TypeInv, Runs, Whole, Nowhere
<1>4. CASE StoreResult
  <2>1. Packing /\ ~ Packing' /\ phase' = "open" /\ r = num_rows
    BY <1>4 DEF StoreResult, Packing
  <2>2. UNCHANGED <<num_rows, r, settree, sets, cursor, fetched, ended>>
    BY <1>4 DEF StoreResult
  <2>3. Fetching'
    BY <2>1, <2>2 DEF RowsInv, TypeInv, Whole, Fetching, Nowhere
  <2> QED BY <2>1, <2>2, <2>3 DEF RowsInv, TypeInv, Runs
<1>5. CASE FetchField \/ FetchFields \/ FreeResult \/ UNCHANGED rowVars
  <2>1. /\ Packing' = Packing /\ phase' \in {phase, "freed"}
        /\ UNCHANGED <<num_rows, r, settree, sets, cursor, fetched, ended>>
    BY <1>5 DEF FetchField, FetchFields, FreeResult, rowVars, Packing
  <2> QED BY <2>1 DEF RowsInv, TypeInv, Runs, Whole, Fetching, Nowhere
<1> QED BY <1>1, <1>2, <1>3, <1>4, <1>5 DEF RowsNext

(* Every row of a result is returned once and in order, across sets of any *)
(* size, and NULL only after the last (PackResult, mysql_proxy_fetch_row). *)
THEOREM EveryRowOnce == RowsSpec => []RowsOnce
<1>1. RowsSpec => []RowsInv
  BY RowsInitially, RowsInductive, PTL DEF RowsSpec
<1> QED BY <1>1, RowsInvImplies, PTL
=============================================================================
