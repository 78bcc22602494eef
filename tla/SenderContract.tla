--------------------------- MODULE SenderContract ----------------------------
(***************************************************************************)
(* What every operation state promises to the receiver it is connected to: *)
(* after start it completes at most once, with one signal, and it is       *)
(* destroyed before start or after the completion, never in between.       *)
(* RunSender and FiberBulk implement it.                                   *)
(***************************************************************************)
CONSTANT Ops         \* the operation states

VARIABLES
    phase,           \* how far each operation is
    signal           \* what it has sent to its receiver

Signals == {"value", "error", "stopped"}

Init ==
    /\ phase = [o \in Ops |-> "connected"]
    /\ signal = [o \in Ops |-> "none"]

Start(o) ==
    /\ phase[o] = "connected"
    /\ phase' = [phase EXCEPT ![o] = "started"]
    /\ UNCHANGED signal

Complete(o) ==
    /\ phase[o] = "started"
    /\ phase' = [phase EXCEPT ![o] = "completed"]
    /\ \E s \in Signals : signal' = [signal EXCEPT ![o] = s]

Destroy(o) ==
    /\ phase[o] \in {"connected", "completed"}
    /\ phase' = [phase EXCEPT ![o] = "destroyed"]
    /\ UNCHANGED signal

Next == \E o \in Ops : Start(o) \/ Complete(o) \/ Destroy(o)

Spec == Init /\ [][Next]_<<phase, signal>>
=============================================================================
