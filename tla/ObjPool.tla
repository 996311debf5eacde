------------------------------- MODULE ObjPool -------------------------------
(***************************************************************************)
(* ObjPool<obj_type> (knv/obj_pool.h): a free list of objects shared by    *)
(* all threads, changed by compare-and-swap only, and lists of objects     *)
(* that belong to one thread.  KnvNode and UcMem come from such pools.     *)
(*                                                                         *)
(* An object is linked to its list in the step that takes it from the free *)
(* list: until then no other thread can have seen a change of it, and the  *)
(* old value of next is one that the other thread could have read before.  *)
(*                                                                         *)
(* free, list and seg are history: the free list, the threads' lists and   *)
(* the objects on their way to the free list, as sequences.                *)
(***************************************************************************)
EXTENDS Naturals, Sequences, SequencesExt

CONSTANTS Threads, Objs, Null

VARIABLES
  obj_freelist, next, prev,
  made,        \* the objects that new has created
  first,       \* the head of each thread's list
  alone,       \* the objects each thread holds outside of its list
  th,          \* the threads: their place in a call and their locals
  free, list, seg,
  stale        \* history: a CAS of New has stored a link that was out of date

poolVars == <<obj_freelist, next, prev, made, first, alone, th, free, list,
              seg, stale>>

Idle == [pc |-> "idle", mode |-> "alone", o |-> Null, n |-> Null]

PoolInit ==
  /\ obj_freelist = Null /\ made = {} /\ free = << >> /\ stale = FALSE
  /\ next = [x \in Objs |-> Null] /\ prev = [x \in Objs |-> Null]
  /\ first = [t \in Threads |-> Null] /\ alone = [t \in Threads |-> {}]
  /\ th = [t \in Threads |-> Idle]
  /\ list = [t \in Threads |-> << >>] /\ seg = [t \in Threads |-> << >>]

At(t, at) == ~ stale /\ th[t].pc = at
Goto(t, rec) == th' = [th EXCEPT ![t] = rec]

-----------------------------------------------------------------------------
(* The lists of a thread: prev of the first object is the last one.        *)

(* New(), New(first) and NewFront(first), once they have the object.       *)
Link(t, x, mode) ==
  LET f == first[t]
      add == mode # "alone" /\ f # Null
  IN
  /\ next' = CASE add /\ mode = "back"  -> [next EXCEPT ![x] = Null, ![prev[f]] = x]
               [] add /\ mode = "front" -> [next EXCEPT ![x] = f]
               [] OTHER                 -> [next EXCEPT ![x] = Null]
  /\ prev' = CASE add -> [prev EXCEPT ![x] = prev[f], ![f] = x]
               [] OTHER -> [prev EXCEPT ![x] = x]
  /\ first' = [first EXCEPT ![t] = IF mode # "alone" /\ ~ (add /\ mode = "back")
                                   THEN x ELSE @]
  /\ alone' = [alone EXCEPT ![t] = IF mode = "alone" THEN @ \cup {x} ELSE @]
  /\ list' = [list EXCEPT ![t] = CASE mode = "back"  -> Append(@, x)
                                   [] mode = "front" -> <<x>> \o @
                                   [] OTHER          -> @]

(* What Delete(first, obj) and Detach(first, obj) do to the list.          *)
NextWithout(t, x) == IF x = first[t] THEN next ELSE [next EXCEPT ![prev[x]] = next[x]]
PrevWithout(t, x) ==
  IF next[x] # Null THEN [prev EXCEPT ![next[x]] = prev[x]]
  ELSE IF x = first[t] THEN prev
  ELSE [prev EXCEPT ![first[t]] = prev[x]]
Unlink(t, x) ==
  /\ first' = [first EXCEPT ![t] = IF x = @ THEN next[x] ELSE @]
  /\ list' = [list EXCEPT ![t] = Remove(@, x)]

Detach(t, x) ==
  /\ At(t, "idle") /\ x \in Range(list[t])
  /\ Unlink(t, x)
  /\ next' = [NextWithout(t, x) EXCEPT ![x] = Null]
  /\ prev' = [PrevWithout(t, x) EXCEPT ![x] = Null]
  /\ alone' = [alone EXCEPT ![t] = @ \cup {x}]
  /\ UNCHANGED <<obj_freelist, made, th, free, seg, stale>>

-----------------------------------------------------------------------------
(* New.                                                                    *)
StartNew(t, mode) ==
  /\ At(t, "idle") /\ Goto(t, [Idle EXCEPT !.pc = "head", !.mode = mode])
  /\ UNCHANGED <<obj_freelist, next, prev, made, first, alone, free, list, seg, stale>>

ReadHead(t) ==
  /\ At(t, "head")
  /\ Goto(t, [th[t] EXCEPT !.pc = IF obj_freelist = Null THEN "make" ELSE "next",
                           !.o = obj_freelist])
  /\ UNCHANGED <<obj_freelist, next, prev, made, first, alone, free, list, seg, stale>>

ReadNext(t) ==
  /\ At(t, "next") /\ Goto(t, [th[t] EXCEPT !.pc = "cas", !.n = next[th[t].o]])
  /\ UNCHANGED <<obj_freelist, next, prev, made, first, alone, free, list, seg, stale>>

(* Mutant of CasNew: it stores the successor without a comparison.         *)
CasNewBlind(t) ==
  /\ At(t, "cas") /\ obj_freelist # Null
  /\ obj_freelist' = th[t].n /\ stale' = (obj_freelist = th[t].o /\ th[t].n # next[th[t].o])
  /\ free' = Tail(free) /\ Link(t, th[t].o, th[t].mode) /\ Goto(t, Idle)
  /\ UNCHANGED <<made, seg>>

(* The CAS compares the head only.                                         *)
CasNew(t) ==
  LET o == th[t].o IN
  /\ At(t, "cas") /\ obj_freelist = o
  /\ obj_freelist' = th[t].n /\ stale' = (th[t].n # next[o])
  /\ free' = Tail(free) /\ Link(t, o, th[t].mode) /\ Goto(t, Idle)
  /\ UNCHANGED <<made, seg>>

CasNewFails(t) ==
  /\ At(t, "cas") /\ obj_freelist # th[t].o
  /\ Goto(t, [th[t] EXCEPT !.pc = "head", !.o = Null, !.n = Null])
  /\ UNCHANGED <<obj_freelist, next, prev, made, first, alone, free, list, seg, stale>>

(* The free list was empty: new obj_type(), or NULL when that throws.      *)
Make(t, x) ==
  /\ At(t, "make") /\ x \in Objs \ made
  /\ made' = made \cup {x} /\ Link(t, x, th[t].mode) /\ Goto(t, Idle)
  /\ UNCHANGED <<obj_freelist, free, seg, stale>>
MakeFails(t) ==
  /\ At(t, "make") /\ Goto(t, Idle)
  /\ UNCHANGED <<obj_freelist, next, prev, made, first, alone, free, list, seg, stale>>

-----------------------------------------------------------------------------
(* Delete(obj), Delete(first, obj) and DeleteAll(first) put a chain with   *)
(* the given first object on the free list.                                *)
DeleteAlone(t, x) ==
  /\ At(t, "idle") /\ x \in alone[t]
  /\ alone' = [alone EXCEPT ![t] = @ \ {x}] /\ seg' = [seg EXCEPT ![t] = <<x>>]
  /\ Goto(t, [Idle EXCEPT !.pc = "push", !.n = x])
  /\ UNCHANGED <<obj_freelist, next, prev, made, first, free, list, stale>>

DeleteOne(t, x) ==
  /\ At(t, "idle") /\ x \in Range(list[t])
  /\ Unlink(t, x) /\ next' = NextWithout(t, x) /\ prev' = PrevWithout(t, x)
  /\ seg' = [seg EXCEPT ![t] = <<x>>]
  /\ Goto(t, [Idle EXCEPT !.pc = "push", !.n = x])
  /\ UNCHANGED <<obj_freelist, made, alone, free, stale>>

DeleteAll(t) ==
  /\ At(t, "idle") /\ first[t] # Null
  /\ seg' = [seg EXCEPT ![t] = list[t]] /\ list' = [list EXCEPT ![t] = << >>]
  /\ first' = [first EXCEPT ![t] = Null]
  /\ Goto(t, [Idle EXCEPT !.pc = "push", !.mode = "list", !.n = first[t]])
  /\ UNCHANGED <<obj_freelist, next, prev, made, alone, free, stale>>

(* The last object of the chain: obj itself, or prev of the first one in   *)
(* AddToFreeList.                                                          *)
Last1(t) == IF th[t].mode = "list" THEN prev[th[t].n] ELSE th[t].n

Push(t) ==
  /\ At(t, "push")
  /\ next' = [next EXCEPT ![Last1(t)] = obj_freelist]
  /\ Goto(t, [th[t] EXCEPT !.pc = "pushcas", !.o = obj_freelist])
  /\ UNCHANGED <<obj_freelist, prev, made, first, alone, free, list, seg, stale>>

PushCas(t) ==
  /\ At(t, "pushcas") /\ obj_freelist = th[t].o
  /\ obj_freelist' = th[t].n /\ free' = seg[t] \o free
  /\ seg' = [seg EXCEPT ![t] = << >>] /\ Goto(t, Idle)
  /\ UNCHANGED <<next, prev, made, first, alone, list, stale>>
PushCasFails(t) ==
  /\ At(t, "pushcas") /\ obj_freelist # th[t].o
  /\ Goto(t, [th[t] EXCEPT !.pc = "push", !.o = Null])
  /\ UNCHANGED <<obj_freelist, next, prev, made, first, alone, free, list, seg, stale>>

PoolStep(t) ==
  \/ \E mode \in {"alone", "back", "front"} : StartNew(t, mode)
  \/ ReadHead(t) \/ ReadNext(t) \/ CasNew(t) \/ CasNewFails(t)
  \/ MakeFails(t) \/ DeleteAll(t) \/ Push(t) \/ PushCas(t) \/ PushCasFails(t)
  \/ \E x \in Objs : \/ Make(t, x) \/ Detach(t, x)
                     \/ DeleteAlone(t, x) \/ DeleteOne(t, x)
PoolNext == \E t \in Threads : PoolStep(t)

-----------------------------------------------------------------------------
(* The objects from x on, along next, are those of s.                      *)
ChainIs(x, s) ==
  IF s = << >> THEN x = Null
  ELSE /\ x = s[1] /\ next[s[Len(s)]] = Null
       /\ \A k \in 1 .. Len(s) - 1 : next[s[k]] = s[k + 1]

Held(t) == alone[t] \cup Range(list[t]) \cup Range(seg[t])

(* "A general-purpose object pool, muti-thread safe" (obj_pool.h): an      *)
(* object that New returned belongs to the thread that got it.  No other   *)
(* thread has it, and it is not the one that the next New takes.  That     *)
(* fails once a CAS of New finds the head it has read, back after other    *)
(* calls, and stores the link it had before them.                          *)
Exclusive ==
  \A t \in Threads :
    /\ obj_freelist \notin Held(t)
    /\ \A u \in Threads \ {t} : Held(t) \cap Held(u) = {}

(* As long as no CAS of New has stored an outdated link, the free list is  *)
(* exactly the objects nobody holds, so that none is given out twice and a *)
(* failed CAS, of New or of Delete, leaks none; and the list of a thread   *)
(* is what the calls on it made of it, forwards along next and backwards   *)
(* along prev, with prev of the first object the last one.                 *)
PoolSound ==
  stale \/ /\ Exclusive
           /\ ChainIs(obj_freelist, free) /\ IsInjective(free)
           /\ \A t \in Threads : Held(t) \cap Range(free) = {}
           /\ made = Range(free) \cup UNION {Held(t) : t \in Threads}
           /\ \A t \in Threads :
                LET s == list[t] IN
                /\ ChainIs(first[t], s) /\ IsInjective(s)
                /\ s # << >> => prev[first[t]] = s[Len(s)]
                /\ \A k \in 2 .. Len(s) : prev[s[k]] = s[k - 1]
=============================================================================
