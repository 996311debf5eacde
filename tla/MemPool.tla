------------------------------- MODULE MemPool -------------------------------
(***************************************************************************)
(* UcMemPool and UcMemManager (knv/mem_pool.cc): buffers of a few sizes,   *)
(* one pool for each, with counters of the bytes in use and free, and a    *)
(* quota that Shrink moves from one pool to another.  All threads of a     *)
(* process share the pools; only the counters' single updates are atomic.  *)
(*                                                                         *)
(* The ObjPool of a pool is a stack here, of objects with and without      *)
(* their buffer (m->mem): what ObjPool guarantees while no CAS of its New  *)
(* has stored an outdated link.  The counters are words of W values,       *)
(* compared as unsigned numbers and tested for "< 0" as signed ones.  The  *)
(* reads of several counters for one test are one step.                    *)
(***************************************************************************)
EXTENDS Integers, Sequences, SequencesExt, FiniteSetsExt

CONSTANTS
  Users,       \* the threads
  Sizes,       \* magics[].sz, a sequence
  Cases,       \* the cases to look at: quota is sz_max / nr_magics, wants the
               \* size that each thread asks for; most bounds the buffers in use,
               \* calls how often a thread asks, unless it is -1
  W,           \* values of an unsigned long
  MaxRaces,    \* bound: how often sz_free may go below zero
  MaxDrift,    \* bound: the quota that Shrink may create or lose
  MaxTaken     \* bound: the free buffers' worth that one Shrink takes

Magics == 1 .. Len(Sizes)

VARIABLES
  case, left,                \* a member of Cases, what is left of its calls
  stack,                     \* the free objects of each pool: TRUE with mem
  sz_total, sz_free, sz_max, \* the counters of each pool
  held,                      \* how many buffers of each pool a thread has
  mt,                        \* the threads: their place in a call and locals
  races,                     \* history: how often sz_free went below zero
  drift                      \* history: the quota that Shrink created, or lost

memVars == <<case, left, stack, sz_total, sz_free, sz_max, held, mt, races, drift>>
counters == <<sz_total, sz_free, sz_max>>

Add(c, k, n) == [c EXCEPT ![k] = (@ + n) % W]
Negative(x) == x % W >= W \div 2

(* k the pool of the request, again whether this is the second attempt, j  *)
(* the pool being shrunk, got what Shrink has taken from the others, shk   *)
(* what it takes from this one, resv, used and new its resv_max,           *)
(* sz_allocated and new_max.                                               *)
AtRest == [pc |-> "idle", k |-> 0, again |-> FALSE, j |-> 0, got |-> 0,
           shk |-> 0, resv |-> 0, used |-> 0, new |-> 0]

(* GetPool creates a pool with its share of the limit.                     *)
MemInit ==
  /\ case \in Cases /\ left = case.calls
  /\ stack = [k \in Magics |-> << >>]
  /\ sz_total = [k \in Magics |-> 0] /\ sz_free = [k \in Magics |-> 0]
  /\ sz_max = [k \in Magics |-> case.quota]
  /\ held = [t \in Users |-> [k \in Magics |-> 0]]
  /\ mt = [t \in Users |-> AtRest]
  /\ races = [k \in Magics |-> 0] /\ drift = 0

(* get_magic: a binary search for the first size that is large enough.     *)
Largest == Sizes[Len(Sizes)]
Search[q \in 0 .. Largest, low \in Magics, high \in Magics] ==
  LET mid == (low + high - 2) \div 2 + 1 IN
  IF low >= high THEN low
  ELSE IF q = Sizes[mid] THEN mid
  ELSE IF q > Sizes[mid] THEN Search[q, IF low < mid THEN mid ELSE low + 1, high]
  ELSE Search[q, low, IF high > mid THEN mid ELSE high - 1]

get_magic(q) == Search[q, 1, Len(Sizes)]

(* The first free object of a pool, or a new one, which has no buffer.     *)
New(k) == IF stack[k] = << >> THEN FALSE ELSE Head(stack[k])
Popped(k) == [stack EXCEPT ![k] = IF @ = << >> THEN @ ELSE Tail(@)]
Pushed(k, mem) == [stack EXCEPT ![k] = <<mem>> \o @]

Sum(f) == MapThenSumSet(LAMBDA x : f[x], DOMAIN f)
InUse == Sum([t \in Users |-> Sum(held[t])])

MAt(t, at) == mt[t].pc = at
MGoto(t, rec) == mt' = [mt EXCEPT ![t] = rec]

-----------------------------------------------------------------------------
(* UcMemManager::Alloc.                                                    *)
Ask(t) ==
  /\ MAt(t, "idle") /\ InUse < case.most /\ left[t] # 0
  /\ left' = [left EXCEPT ![t] = IF @ > 0 THEN @ - 1 ELSE @]
StartAlloc(t) ==
  /\ Ask(t) /\ case.wants[t] <= Largest
  /\ MGoto(t, [AtRest EXCEPT !.pc = "new", !.k = get_magic(case.wants[t])])
  /\ UNCHANGED <<stack, counters, held, races, drift>>

(* A size that no pool has gets a buffer of its own, which Free deletes.   *)
AllocDirectly(t) ==
  /\ Ask(t) /\ case.wants[t] > Largest
  /\ UNCHANGED <<stack, counters, held, mt, races, drift>>

(* UcMemPool::Alloc.                                                       *)
TakeObject(t) ==
  LET k == mt[t].k IN
  /\ MAt(t, "new")
  /\ MGoto(t, [mt[t] EXCEPT !.pc = IF New(k) THEN "unfree" ELSE "limit"])
  /\ stack' = Popped(k)
  /\ UNCHANGED <<counters, held, races, drift>>

NewFails(t) ==
  /\ MAt(t, "new") /\ stack[mt[t].k] = << >> /\ MGoto(t, AtRest)
  /\ UNCHANGED <<stack, counters, held, races, drift>>

OverLimit(k) == (sz_total[k] + Sizes[k]) % W > sz_max[k]

(* The object has no buffer: the limit is tested before the new one is     *)
(* counted.                                                                *)
Malloc(t) ==
  LET k == mt[t].k IN
  /\ MAt(t, "limit") /\ ~ OverLimit(k)
  /\ MGoto(t, [mt[t] EXCEPT !.pc = "count"])
  /\ UNCHANGED <<stack, counters, held, races, drift>>
MallocFails(t) ==
  LET k == mt[t].k IN
  /\ MAt(t, "limit") /\ ~ OverLimit(k)
  /\ stack' = Pushed(k, FALSE) /\ MGoto(t, AtRest)
  /\ UNCHANGED <<counters, held, races, drift>>
ExceedLimit(t) ==
  LET k == mt[t].k IN
  /\ MAt(t, "limit") /\ OverLimit(k)
  /\ stack' = Pushed(k, FALSE)
  /\ MGoto(t, IF mt[t].again THEN AtRest
              ELSE [mt[t] EXCEPT !.pc = "next", !.j = Len(Sizes) + 1])
  /\ UNCHANGED <<counters, held, races, drift>>

(* The object has one: it is no longer free.                               *)
Unfree(t) ==
  LET k == mt[t].k
      below == Negative(sz_free[k] - Sizes[k])
  IN
  /\ MAt(t, "unfree") /\ (below => Sum(races) < MaxRaces)
  /\ sz_free' = Add(sz_free, k, - Sizes[k])
  /\ races' = [races EXCEPT ![k] = IF below THEN @ + 1 ELSE @]
  /\ MGoto(t, [mt[t] EXCEPT !.pc = IF below THEN "refree" ELSE "count"])
  /\ UNCHANGED <<stack, sz_total, sz_max, held, drift>>

(* Mutant of Refree: the counter stays below zero.                         *)
RefreeNothing(t) ==
  /\ MAt(t, "refree") /\ MGoto(t, [mt[t] EXCEPT !.pc = "count"])
  /\ UNCHANGED <<stack, counters, held, races, drift>>

Refree(t) ==
  LET k == mt[t].k IN
  /\ MAt(t, "refree") /\ sz_free' = Add(sz_free, k, Sizes[k])
  /\ MGoto(t, [mt[t] EXCEPT !.pc = "count"])
  /\ UNCHANGED <<stack, sz_total, sz_max, held, races, drift>>

Count(t) ==
  LET k == mt[t].k IN
  /\ MAt(t, "count") /\ sz_total' = Add(sz_total, k, Sizes[k])
  /\ held' = [held EXCEPT ![t][k] = @ + 1] /\ MGoto(t, AtRest)
  /\ UNCHANGED <<stack, sz_free, sz_max, races, drift>>

-----------------------------------------------------------------------------
(* UcMemPool::Free gives the object back before it counts it.              *)
Free(t, k) ==
  /\ MAt(t, "idle") /\ held[t][k] > 0
  /\ held' = [held EXCEPT ![t][k] = @ - 1] /\ stack' = Pushed(k, TRUE)
  /\ MGoto(t, [AtRest EXCEPT !.pc = "freed", !.k = k])
  /\ UNCHANGED <<counters, races, drift>>
FreeCount(t) ==
  LET k == mt[t].k IN
  /\ MAt(t, "freed") /\ sz_free' = Add(sz_free, k, Sizes[k])
  /\ MGoto(t, [mt[t] EXCEPT !.pc = "uncount"])
  /\ UNCHANGED <<stack, sz_total, sz_max, held, races, drift>>
Uncount(t) ==
  LET k == mt[t].k IN
  /\ MAt(t, "uncount")
  /\ sz_total' = IF Negative(sz_total[k] - Sizes[k]) THEN sz_total
                 ELSE Add(sz_total, k, - Sizes[k])
  /\ MGoto(t, AtRest)
  /\ UNCHANGED <<stack, sz_free, sz_max, held, races, drift>>

-----------------------------------------------------------------------------
(* UcMemManager::Shrink goes through the larger pools, until it has        *)
(* enough, then through all smaller ones.                                  *)
Enough(r) == r.j > r.k /\ r.got >= Sizes[r.k]
NextPool(t) ==
  LET r == mt[t]
      j == IF r.j - 1 = r.k THEN r.j - 2 ELSE r.j - 1
  IN
  /\ MAt(t, "next")
  /\ MGoto(t, IF j = 0 \/ Enough(r) THEN [r EXCEPT !.pc = "grant", !.j = 0]
              ELSE [r EXCEPT !.pc = "reserve", !.j = j, !.shk = 0,
                             !.resv = sz_max[j],
                             !.used = (sz_total[j] + sz_free[j]) % W])
  /\ UNCHANGED <<stack, counters, held, races, drift>>

(* UcMemPool::Shrink, first part: half of what is not allocated, in whole  *)
(* buffers (the sizes are powers of two).                                  *)
Half(r) == LET h == (r.resv - r.used) \div 2 IN h - (h % Sizes[r.j])
Reserve(t) ==
  LET r == mt[t]
      some == r.resv > (r.used * 2) % W /\ Half(r) > Sizes[r.j]
  IN
  /\ MAt(t, "reserve")
  /\ MGoto(t, IF some THEN [r EXCEPT !.pc = "cas", !.shk = Half(r), !.used = 0,
                                     !.new = (sz_max[r.j] - Half(r)) % W]
              ELSE [r EXCEPT !.pc = "trim", !.resv = 0, !.used = 0])
  /\ UNCHANGED <<stack, counters, held, races, drift>>

(* new_max is what sz_max was after the test, less shk; the CAS compares   *)
(* sz_max with what it was before.  The two differ when sz_max has changed *)
(* and changed back: then shk is not what the pool loses.                  *)
CasMax(t) ==
  LET r == mt[t]
      d == r.new + r.shk - r.resv
  IN
  /\ MAt(t, "cas") /\ sz_max[r.j] = r.resv
  /\ drift + d \in - MaxDrift .. MaxDrift
  /\ sz_max' = [sz_max EXCEPT ![r.j] = r.new] /\ drift' = drift + d
  /\ MGoto(t, [r EXCEPT !.pc = "next", !.got = @ + r.shk, !.shk = 0,
                        !.resv = 0, !.new = 0])
  /\ UNCHANGED <<stack, sz_total, sz_free, held, races>>
CasMaxFails(t) ==
  LET r == mt[t] IN
  /\ MAt(t, "cas") /\ sz_max[r.j] # r.resv
  /\ MGoto(t, [r EXCEPT !.pc = "reserve", !.shk = 0, !.new = 0,
                        !.resv = sz_max[r.j],
                        !.used = (sz_total[r.j] + sz_free[r.j]) % W])
  /\ UNCHANGED <<stack, counters, held, races, drift>>

(* Second part: the buffers of free objects, while there are more than a   *)
(* quarter of the quota.  The object goes back without its buffer, on top. *)
MaxFree(j) == Min({sz_max[j] \div 4, sz_total[j]})
Trim(t) ==
  LET j == mt[t].j IN
  /\ MAt(t, "trim") /\ mt[t].shk < MaxTaken
  /\ MGoto(t, [mt[t] EXCEPT !.pc = IF sz_free[j] > MaxFree(j) THEN "pop"
                                   ELSE "release"])
  /\ UNCHANGED <<stack, counters, held, races, drift>>
Pop(t) ==
  LET j == mt[t].j IN
  /\ MAt(t, "pop") /\ stack' = Popped(j)
  /\ MGoto(t, [mt[t] EXCEPT !.pc = IF New(j) THEN "drop" ELSE "none"])
  /\ UNCHANGED <<counters, held, races, drift>>
PopFails(t) ==
  /\ MAt(t, "pop") /\ stack[mt[t].j] = << >>
  /\ MGoto(t, [mt[t] EXCEPT !.pc = "release"])
  /\ UNCHANGED <<stack, counters, held, races, drift>>
Drop(t) ==
  /\ mt[t].pc \in {"drop", "none"}
  /\ stack' = Pushed(mt[t].j, FALSE)
  /\ MGoto(t, [mt[t] EXCEPT !.pc = IF @ = "drop" THEN "dropped" ELSE "release"])
  /\ UNCHANGED <<counters, held, races, drift>>
Dropped(t) ==
  LET j == mt[t].j
      below == Negative(sz_free[j] - Sizes[j])
  IN
  /\ MAt(t, "dropped") /\ (below => Sum(races) < MaxRaces)
  /\ sz_free' = Add(sz_free, j, - Sizes[j])
  /\ races' = [races EXCEPT ![j] = IF below THEN @ + 1 ELSE @]
  /\ MGoto(t, [mt[t] EXCEPT !.pc = IF below THEN "redrop" ELSE "trim",
                           !.shk = @ + Sizes[j]])
  /\ UNCHANGED <<stack, sz_total, sz_max, held, drift>>
Redrop(t) ==
  LET j == mt[t].j IN
  /\ MAt(t, "redrop") /\ sz_free' = Add(sz_free, j, Sizes[j])
  /\ MGoto(t, [mt[t] EXCEPT !.pc = "trim"])
  /\ UNCHANGED <<stack, sz_total, sz_max, held, races, drift>>

(* The quota goes down by as much, or back up when that is below zero.     *)
Release(t) ==
  LET r == mt[t]
      below == Negative(sz_max[r.j] - r.shk)
  IN
  /\ MAt(t, "release") /\ (below => drift + r.shk <= MaxDrift)
  /\ sz_max' = Add(sz_max, r.j, - r.shk)
  /\ MGoto(t, [r EXCEPT !.pc = IF below THEN "restore" ELSE "next",
                        !.got = @ + r.shk, !.shk = IF below THEN @ ELSE 0])
  /\ UNCHANGED <<stack, sz_total, sz_free, held, races, drift>>
Restore(t) ==
  LET r == mt[t] IN
  /\ MAt(t, "restore") /\ sz_max' = Add(sz_max, r.j, r.shk)
  /\ drift' = drift + r.shk
  /\ MGoto(t, [r EXCEPT !.pc = "next", !.shk = 0])
  /\ UNCHANGED <<stack, sz_total, sz_free, held, races>>

(* UcMemManager::Alloc: the quota goes to the pool of the request, which   *)
(* is tried once more.                                                     *)
Grant(t) ==
  LET r == mt[t] IN
  /\ MAt(t, "grant")
  /\ sz_max' = Add(sz_max, r.k, r.got)
  /\ MGoto(t, IF r.got = 0 THEN AtRest
              ELSE [AtRest EXCEPT !.pc = "new", !.k = r.k, !.again = TRUE])
  /\ UNCHANGED <<stack, sz_total, sz_free, held, races, drift>>

MemStep(t) ==
  \/ TakeObject(t) \/ NewFails(t) \/ Malloc(t) \/ MallocFails(t) \/ ExceedLimit(t)
  \/ Unfree(t) \/ Refree(t) \/ Count(t)
  \/ \E k \in Magics : Free(t, k)
  \/ FreeCount(t) \/ Uncount(t)
  \/ NextPool(t) \/ Reserve(t) \/ CasMax(t) \/ CasMaxFails(t)
  \/ Trim(t) \/ Pop(t) \/ PopFails(t) \/ Drop(t)
  \/ Dropped(t) \/ Redrop(t) \/ Release(t) \/ Restore(t) \/ Grant(t)
MemNext ==
  /\ UNCHANGED case
  /\ \E t \in DOMAIN case.wants :
       \/ StartAlloc(t) \/ AllocDirectly(t)
       \/ MemStep(t) /\ UNCHANGED left

-----------------------------------------------------------------------------
(* The quota that Shrink takes from the pools is what it hands out,        *)
(* whatever the other threads allocate, free and shrink in the meantime;   *)
(* the exception is a pool whose free buffers are worth more than the      *)
(* quota it has left, which keeps it.                                      *)
QuotaConserved ==
  (Sum(sz_max) + Sum([t \in Users |-> mt[t].got])) % W
    = (case.quota * Len(Sizes) + drift) % W

(* With no call under way, sz_total is what the threads hold, and sz_free  *)
(* the buffers of the free objects, plus one for each time that an         *)
(* allocation took a buffer that Free had not yet counted.                 *)
CountersExact ==
  (\A t \in Users : mt[t].pc = "idle") =>
    \A k \in Magics :
      /\ sz_total[k] = Sizes[k] * Sum([t \in Users |-> held[t][k]])
      /\ sz_free[k] = Sizes[k] * (Len(SelectSeq(stack[k], LAMBDA m : m)) + races[k])

(* The memory of the pools is accounted for, by UcMemManager in quota and  *)
(* by UcMemPool in bytes: no interleaving of Alloc, Free and Shrink makes  *)
(* or loses any, but for the two exceptions above.                         *)
MemoryAccounted == QuotaConserved /\ CountersExact
=============================================================================
