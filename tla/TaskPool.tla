------------------------------- MODULE TaskPool ------------------------------
(***************************************************************************)
(* What context promises its users (context.hpp, and the shutdown drain    *)
(* of docs/IDEAS.md): a task is started at most once and only after it was *)
(* posted; a task that was started finishes before the context is gone;    *)
(* once it is gone nothing starts or finishes.  Tasks still queued when    *)
(* the pool closes may never be started.                                   *)
(***************************************************************************)
CONSTANT Tasks

VARIABLES status,   \* life of each task
          phase     \* life of the pool

Init == status = [k \in Tasks |-> "new"] /\ phase = "open"

Move(k, from, to) ==
    /\ phase # "destroyed"
    /\ status[k] = from
    /\ status' = [status EXCEPT ![k] = to]
    /\ UNCHANGED phase

Post(k) == Move(k, "new", "posted")
Start(k) == Move(k, "posted", "started")
Finish(k) == Move(k, "started", "finished")

Close == phase = "open" /\ phase' = "closing" /\ UNCHANGED status

Destroy ==
    /\ phase = "closing"
    /\ \A k \in Tasks : status[k] # "started"
    /\ phase' = "destroyed"
    /\ UNCHANGED status

Next == (\E k \in Tasks : Post(k) \/ Start(k) \/ Finish(k)) \/ Close \/ Destroy

Spec == Init /\ [][Next]_<<status, phase>>
=============================================================================
