------------------------------ MODULE TrafficCtl ------------------------------
(***************************************************************************)
(* The traffic control of mysql_proxy_server.cpp.  Every worker adds the   *)
(* bytes it has sent to the current slot of a ring of six counters that    *)
(* all the processes share (atomic_counter_array.c).  The main loop of     *)
(* each process moves the ring on and refuses connections while the        *)
(* traffic of the last five slots is over the limit.  The ring is shared,  *)
(* the times at which its slots were started are kept per process.         *)
(*                                                                         *)
(* Times are kept as ages in ticks: age[p][k] is the time since tvTime[k], *)
(* and Long stands for every age of 5000 * iUTimePice s and more.          *)
(***************************************************************************)
EXTENDS Integers, FiniteSets, FiniteSetsExt

CONSTANTS
  Servers,    \* the processes
  Senders,    \* their workers: s[1] is the process of worker s
  Ring,       \* the number of slots: 6
  Piece,      \* the time slice, in ticks
  Long,       \* the age at which the times are taken to be wrong
  Limit,      \* iSendBytesLimit
  UInt32,     \* 2^32: the counters wrap
  MaxSent,    \* bound: answers sent
  MaxCall     \* bound: ticks one call of TrafficCtl takes

VARIABLES
  cIdx,       \* the current slot
  slot,       \* the counters
  age,        \* age[p][k]
  loop,       \* the main loops: place, age of tvNow, and iClose
  idx,        \* the slot a worker has read and not yet added to
  late,       \* history: workers whose slot was cleared before they added to it
  stray,      \* history: the bytes in slot k that such workers have added
  since,      \* history: bytes sent since p started slot k
  sent        \* history: bytes sent in all

trafficVars == <<cIdx, slot, age, loop, idx, late, stray, since, sent>>

Slots == 0 .. Ring - 1
None == -1
Back(k) == (cIdx + k) % Ring
Oldest == Back(Ring - 2)

TrafficInit ==
  /\ cIdx = 0 /\ slot = [k \in Slots |-> 0]
  /\ age = [p \in Servers |-> [k \in Slots |-> Long]]
  /\ loop = [p \in Servers |-> [pc |-> "call", now |-> 0, close |-> FALSE]]
  /\ idx = [s \in Senders |-> None] /\ late = {} /\ stray = [k \in Slots |-> 0]
  /\ since = [p \in Servers |-> [k \in Slots |-> 0]] /\ sent = 0

LoopAt(p, here, next) == loop[p].pc = here /\ loop' = [loop EXCEPT ![p].pc = next]

(* atomic_counter_array_get_five_slots.                                    *)
Window == {Back(i) : i \in 0 .. Ring - 2}
get_five_slots == MapThenSumSet(LAMBDA k : slot[k], Window) % UInt32

(* The additions under way.                                                *)
Adding(ks) == {s \in Senders : idx[s] \in ks}
Pending == Cardinality(Adding(Slots))

-----------------------------------------------------------------------------
(* SendResponse: atomic_counter_array_add_current_slot.                    *)
ReadIdx(s) ==
  /\ idx[s] = None /\ sent < MaxSent
  /\ idx' = [idx EXCEPT ![s] = cIdx] /\ sent' = sent + 1
  /\ since' = [p \in Servers |-> [k \in Slots |-> since[p][k] + 1]]
  /\ UNCHANGED <<cIdx, slot, age, loop, late, stray>>
AddToSlot(s) ==
  /\ idx[s] # None
  /\ slot' = [slot EXCEPT ![idx[s]] = (@ + 1) % UInt32]
  /\ idx' = [idx EXCEPT ![s] = None] /\ late' = late \ {s}
  /\ stray' = IF s \in late THEN [stray EXCEPT ![idx[s]] = @ + 1] ELSE stray
  /\ UNCHANGED <<cIdx, age, loop, since, sent>>

-----------------------------------------------------------------------------
(* The counters ks are set to zero.                                        *)
Clear(ks) ==
  /\ slot' = [k \in Slots |-> IF k \in ks THEN 0 ELSE slot[k]]
  /\ stray' = [k \in Slots |-> IF k \in ks THEN 0 ELSE stray[k]]
  /\ late' = late \cup Adding(ks)

(* TrafficCtl.  The times of a process that has just been started, or that *)
(* has not looked for long, are wrong: everything begins anew.             *)
Reset(p) ==
  /\ LoopAt(p, "call", "accept") /\ age[p][cIdx] >= Long
  /\ cIdx' = 0 /\ Clear(Slots)
  /\ age' = [age EXCEPT ![p] = [k \in Slots |-> 0]]
  /\ since' = [since EXCEPT ![p] = [k \in Slots |-> 0]]
  /\ UNCHANGED <<idx, sent>>

Call(p) ==
  /\ age[p][cIdx] < Long
  /\ LoopAt(p, "call", IF age[p][cIdx] > Piece THEN "clear" ELSE "rate")
  /\ UNCHANGED <<cIdx, slot, age, idx, late, stray, since, sent>>

(* Mutant of ClearSlot: the slot before the last one is cleared.           *)
ClearSlotBefore(p) ==
  /\ LoopAt(p, "clear", "move") /\ Clear({Back(Ring - 3)})
  /\ UNCHANGED <<cIdx, age, idx, since, sent>>

(* atomic_counter_array_set_lastest_slot.                                  *)
ClearSlot(p) ==
  /\ LoopAt(p, "clear", "move") /\ Clear({Oldest})
  /\ UNCHANGED <<cIdx, age, idx, since, sent>>

Move(p) ==
  /\ LoopAt(p, "move", "stamp") /\ cIdx' = Back(Ring - 1)
  /\ since' = [since EXCEPT ![p][cIdx'] = 0]
  /\ UNCHANGED <<slot, age, idx, late, stray, sent>>
Stamp(p) ==
  /\ LoopAt(p, "stamp", "rate")
  /\ age' = [age EXCEPT ![p][cIdx] = loop[p].now]
  /\ UNCHANGED <<cIdx, slot, idx, late, stray, since, sent>>

(* The traffic since the oldest of the five slots was started.             *)
Over(p) ==
  LET usec == age[p][Oldest] - loop[p].now
  IN usec >= Piece /\ get_five_slots \div usec > Limit
Rate(p) ==
  /\ loop[p].pc = "rate"
  /\ loop' = [loop EXCEPT ![p] = [pc |-> "accept", now |-> 0, close |-> Over(p)]]
  /\ UNCHANGED <<cIdx, slot, age, idx, late, stray, since, sent>>

(* main: the next round of the loop, after a connection was accepted or    *)
(* closed or select timed out.                                             *)
NextRound(p) ==
  /\ loop[p].pc = "accept"
  /\ loop' = [loop EXCEPT ![p] = [pc |-> "call", now |-> 0, close |-> FALSE]]
  /\ UNCHANGED <<cIdx, slot, age, idx, late, stray, since, sent>>

(* A process dies with its workers, wherever it is, and ForkChildren       *)
(* starts another.  What the workers had not yet added is not counted as   *)
(* sent.                                                                   *)
RestartServer(p) ==
  LET dead == {s \in Senders : s[1] = p /\ idx[s] # None} IN
  /\ loop' = [loop EXCEPT ![p] = [pc |-> "call", now |-> 0, close |-> FALSE]]
  /\ age' = [age EXCEPT ![p] = [k \in Slots |-> Long]]
  /\ idx' = [s \in Senders |-> IF s \in dead THEN None ELSE idx[s]]
  /\ late' = late \ dead
  /\ since' = [q \in Servers |-> [k \in Slots |-> Max({0, since[q][k] - Cardinality(dead)})]]
  /\ UNCHANGED <<cIdx, slot, stray, sent>>

Older(a) == IF a < Long THEN a + 1 ELSE Long
Tick ==
  /\ \A p \in Servers : loop[p].pc \notin {"call", "accept"} => loop[p].now < MaxCall
  /\ loop' = [p \in Servers |->
                IF loop[p].pc \in {"call", "accept"} THEN loop[p]
                ELSE [loop[p] EXCEPT !.now = @ + 1]]
  /\ age' = [p \in Servers |-> [k \in Slots |-> Older(age[p][k])]]
  /\ UNCHANGED <<cIdx, slot, idx, late, stray, since, sent>>

TrafficNext ==
  \/ \E s \in Senders : ReadIdx(s) \/ AddToSlot(s)
  \/ \E p \in Servers :
       \/ Reset(p) \/ Call(p) \/ ClearSlot(p) \/ Move(p) \/ Stamp(p)
       \/ Rate(p) \/ NextRound(p) \/ RestartServer(p)
  \/ Tick

-----------------------------------------------------------------------------
(* When one process runs, the five slots hold exactly the bytes sent since *)
(* the start of the oldest of them, the time that TrafficCtl divides by,   *)
(* modulo 2^32, unless it is just about to move the ring.  But for two     *)
(* things: the additions under way are missing, and a worker that is held  *)
(* up between the two steps of an addition until its slot is cleared adds  *)
(* its bytes to a later time.                                              *)
WindowExact ==
  \A p \in Servers :
    Servers = {p} /\ age[p][cIdx] < Long /\ loop[p].pc # "move" =>
      (get_five_slots + Pending) % UInt32 =
        (since[p][Oldest] + Cardinality(late) + MapThenSumSet(LAMBDA k : stray[k], Window))
          % UInt32

(* "max bytes per second" (SEND_BYTES_LIMIT of mysql_proxy_server.conf): a *)
(* process refuses the next connection when, by its own times, more than   *)
(* the limit has been sent since the oldest slot was started.  It does not *)
(* with several processes, of which each moves the ring for all, at times  *)
(* the others do not know, and clears it when it starts.                   *)
LimitKept ==
  \A p \in Servers :
    LET usec == age[p][Oldest] - loop[p].now IN
    loop[p].pc = "rate" /\ usec >= Piece /\ age[p][Oldest] < Long
      /\ (since[p][Oldest] - Pending) \div usec > Limit
    => Over(p)
=============================================================================
