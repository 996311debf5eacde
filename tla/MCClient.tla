------------------------------- MODULE MCClient -------------------------------
(* A query's way to the server and back, its rows, their encoding and      *)
(* encryption, and the server's processes, side by side: one is chosen at  *)
(* the start, and the others rest.                                         *)
(* Three queries, of the greatest length the server allows and one longer; *)
(* results of up to six rows in sets of two; texts up to two pieces long.  *)
(* Two workers, and the process ids they and their replacements can hold   *)
(* at once: recorded, running unrecorded, and one to spare.                *)
(* Bytes of five bits, four of them for a varint, so that tag 1 takes one  *)
(* byte and tag 2 takes two, and the greatest numbers fill their seven     *)
(* bytes with a bit in the last one, as 64 bits do with ten.               *)
EXTENDS ClientServer, ResultRows, PacketCrypt, ForkChildren, WireFormat

CONSTANTS x1, x2, x3, x4
MCPids == {x1, x2, x3, x4}
MCSigned == {-(2 ^ 24), -1, 0, 8, 2 ^ 24 - 1}
MCTexts == {<< >>, <<31, 0>>}

VARIABLE which

allVars == <<which, clientVars, rowVars, cryptVars, forkVars, wireVars>>

Init ==
  /\ which \in {"wire", "rows", "crypt", "fork", "format"}
  /\ ClientInit /\ RowsInit /\ CryptInit /\ ForkInit /\ WireInit
  /\ which # "wire" => timed = TRUE
  /\ which # "rows" => num_rows = 0
  /\ which # "format" => room = CHOOSE n \in Capacities : TRUE
  /\ which # "crypt" => text = << >> /\ key = CHOOSE k \in CryptKeys : TRUE
Next ==
  /\ UNCHANGED which
  /\ \/ /\ which = "wire" /\ ClientNext
        /\ UNCHANGED <<rowVars, cryptVars, forkVars, wireVars>>
     \/ /\ which = "rows" /\ RowsNext
        /\ UNCHANGED <<clientVars, cryptVars, forkVars, wireVars>>
     \/ /\ which = "crypt" /\ CryptNext
        /\ UNCHANGED <<clientVars, rowVars, forkVars, wireVars>>
     \/ /\ which = "fork" /\ ForkNext
        /\ UNCHANGED <<clientVars, rowVars, cryptVars, wireVars>>
     \/ /\ which = "format" /\ WireNext
        /\ UNCHANGED <<clientVars, rowVars, cryptVars, forkVars>>

(* The fairness of the part that runs.  The client keeps reading, or its   *)
(* timeout fires, and the thread of the server keeps running; the parent   *)
(* of the workers has that of ForkFairSpec.                                *)
Fairness ==
  /\ WF_clientVars(which = "wire" /\ Client)
  /\ WF_clientVars(which = "wire" /\ Server)
  /\ WF_forkVars(which = "fork" /\ Parent)
  /\ WF_forkVars(which = "fork" /\ DealSigChld)
  /\ \A n \in Numbers : SF_forkVars(which = "fork" /\ Restart(n))
Spec == Init /\ [][Next]_allVars /\ Fairness
=============================================================================
