----------------------------- MODULE ResultStream ----------------------------
(***************************************************************************)
(* What the multishot objects promise their user: the results, numbered in *)
(* the order in which the kernel produces them, are handed over by next()  *)
(* one by one, in that order, none twice, none skipped and none before it  *)
(* exists; once the object is being destroyed none is handed over.         *)
(* MultishotRecv and MultishotAcceptor implement it.                       *)
(***************************************************************************)
EXTENDS Naturals

VARIABLES arrived,   \* the number of the last result that exists
          handed,    \* the number of the last result handed over
          phase      \* life of the object

Init == arrived = 0 /\ handed = 0 /\ phase = "open"

Arrive == arrived' = arrived + 1 /\ UNCHANGED <<handed, phase>>

HandOver ==
    /\ phase = "open" /\ handed < arrived
    /\ handed' = handed + 1
    /\ UNCHANGED <<arrived, phase>>

Close == phase = "open" /\ phase' = "closed" /\ UNCHANGED <<arrived, handed>>

Next == Arrive \/ HandOver \/ Close

Spec == Init /\ [][Next]_<<arrived, handed, phase>>
=============================================================================
