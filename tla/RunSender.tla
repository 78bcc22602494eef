----------------------------- MODULE RunSender -------------------------------
(***************************************************************************)
(* The operation states of run(sched, fn) and schedule(sched): start,      *)
(* which bridges the receiver's stop token to a stop source of the fiber   *)
(* and posts the fiber; the fiber, which runs fn and completes the         *)
(* receiver; the thread that requests stop and runs the stop callbacks;    *)
(* and the owner, which destroys the state once it has completed.          *)
(*                                                                         *)
(* The receivers of all operations share one stop source, as the children  *)
(* of a when_all do.  For schedule fn is what is chained to it: it runs    *)
(* inside set_value.  How a stopped token ends a wait is the subject of    *)
(* IoCancel, that a posted fiber starts of FiberPool.  A fiber is never    *)
(* unwound by force: the pool waits for its fibers (FiberPool!SafeExit).   *)
(***************************************************************************)
EXTENDS Naturals

CONSTANTS
    Ops,          \* the operation states
    Nobody,       \* no operation
    MaxWaits      \* bound: the asynchronous operations of one fn

ASSUME RunAssumption == Nobody \notin Ops /\ MaxWaits \in Nat

VARIABLES
    kind,         \* is it a run or a schedule operation?
    stoppable,    \* env_tok.stop_possible()
    requested,    \* has stop been requested on the receivers' source?
    callbacks,    \* the operations whose stop_cb_ is registered there
    running,      \* the operation whose callback request_stop executes
    spc,          \* where start stands
    alive,        \* has the operation state not been destroyed?
    state,        \* the state behind fiber_stop_: none, clear or set
    tok,          \* does the fiber's token have that state?
    fpc,          \* where the fiber stands
    waits,        \* the asynchronous operations fn has called
    signal        \* what was sent to the receiver

vars == <<kind, stoppable, requested, callbacks, running, spc, alive, state, tok, fpc, waits, signal>>
config == <<kind, stoppable>>
source == <<requested, callbacks, running>>
fiber == <<fpc, waits, signal>>

TypeOK ==
    /\ kind \in [Ops -> {"run", "schedule"}] /\ stoppable \in BOOLEAN
    /\ requested \in BOOLEAN /\ callbacks \subseteq Ops /\ running \in Ops \cup {Nobody}
    /\ spc \in [Ops -> {"connected", "bridge", "post", "returned"}]
    /\ alive \in [Ops -> BOOLEAN] /\ state \in [Ops -> {"none", "clear", "set"}]
    /\ tok \in [Ops -> BOOLEAN]
    /\ fpc \in [Ops -> {"none", "queued", "fn", "waiting", "deaf", "cancelled", "done"}]
    /\ waits \in [Ops -> 0..MaxWaits]
    /\ signal \in [Ops -> {"none", "value", "error", "stopped"}]

(* connect: the state without a source and without a callback. *)
Init ==
    /\ kind \in [Ops -> {"run", "schedule"}] /\ stoppable \in BOOLEAN
    /\ requested = FALSE /\ callbacks = {} /\ running = Nobody
    /\ spc = [o \in Ops |-> "connected"] /\ alive = [o \in Ops |-> TRUE]
    /\ state = [o \in Ops |-> "none"] /\ tok = [o \in Ops |-> FALSE]
    /\ fpc = [o \in Ops |-> "none"] /\ waits = [o \in Ops |-> 0]
    /\ signal = [o \in Ops |-> "none"]

(* stop_source::request_stop: a source without state ignores it. *)
Stopped(s) == IF s = "none" THEN "none" ELSE "set"

-----------------------------------------------------------------------------
(* start: make the source, register the callback, post the fiber.          *)

Start(o) ==
    /\ spc[o] = "connected" /\ alive[o]
    /\ IF stoppable
       THEN spc' = [spc EXCEPT ![o] = "bridge"] /\ state' = [state EXCEPT ![o] = "clear"]
       ELSE spc' = [spc EXCEPT ![o] = "post"] /\ UNCHANGED state
    /\ UNCHANGED <<config, source, alive, tok, fiber>>

(* Mutation of Bridge: the callback is registered without a look at the source. *)
BridgeBlind(o) ==
    /\ spc[o] = "bridge"
    /\ callbacks' = IF requested THEN callbacks ELSE callbacks \cup {o}
    /\ spc' = [spc EXCEPT ![o] = "post"]
    /\ UNCHANGED <<config, requested, running, alive, state, tok, fiber>>

(* A callback constructed after the request runs at once, in the constructor. *)
Bridge(o) ==
    /\ spc[o] = "bridge"
    /\ IF requested
       THEN state' = [state EXCEPT ![o] = Stopped(@)] /\ UNCHANGED callbacks
       ELSE callbacks' = callbacks \cup {o} /\ UNCHANGED state
    /\ spc' = [spc EXCEPT ![o] = "post"]
    /\ UNCHANGED <<config, requested, running, alive, tok, fiber>>

(* Mutation of Post: the closure does not take the token. *)
PostTokenless(o) ==
    /\ spc[o] = "post"
    /\ spc' = [spc EXCEPT ![o] = "returned"]
    /\ fpc' = [fpc EXCEPT ![o] = "queued"]
    /\ UNCHANGED <<config, source, alive, state, tok, waits, signal>>

(* schedule_task, with the token in the closure: the last use of the state. *)
Post(o) ==
    /\ spc[o] = "post"
    /\ spc' = [spc EXCEPT ![o] = "returned"]
    /\ tok' = [tok EXCEPT ![o] = state[o] # "none"]
    /\ fpc' = [fpc EXCEPT ![o] = "queued"]
    /\ UNCHANGED <<config, source, alive, state, waits, signal>>

-----------------------------------------------------------------------------
(* The fiber: install the token, run fn, complete the receiver.            *)

Begin(o) ==
    /\ fpc[o] = "queued"
    /\ fpc' = [fpc EXCEPT ![o] = "fn"]
    /\ signal' = [signal EXCEPT ![o] = IF kind[o] = "schedule" THEN "value" ELSE @]
    /\ UNCHANGED <<config, source, spc, alive, state, tok, waits>>

StopSeen(o) == tok[o] /\ state[o] = "set"

(* fn calls an async operation, which looks at the token before it waits. *)
Wait(o) ==
    /\ fpc[o] = "fn" /\ waits[o] < MaxWaits
    /\ fpc' = [fpc EXCEPT ![o] = IF StopSeen(o) THEN "cancelled" ELSE "waiting"]
    /\ waits' = [waits EXCEPT ![o] = @ + 1]
    /\ UNCHANGED <<config, source, spc, alive, state, tok, signal>>

(***************************************************************************)
(* fn calls what suspends it in a wait that no stop ends: async_send_zc,   *)
(* which knows no token, a channel's pop, or a chain past its first        *)
(* operation and the next of a multishot stream, which look at the token   *)
(* before the wait only (the first throws ECANCELED, the second returns).  *)
(***************************************************************************)
DeafWait(o) ==
    /\ fpc[o] = "fn" /\ waits[o] < MaxWaits
    /\ \E to \in {"deaf"} \cup (IF StopSeen(o) THEN {"cancelled", "fn"} ELSE {}) :
         fpc' = [fpc EXCEPT ![o] = to]
    /\ waits' = [waits EXCEPT ![o] = @ + 1]
    /\ UNCHANGED <<config, source, spc, alive, state, tok, signal>>

IoCompletes(o) ==
    /\ fpc[o] \in {"waiting", "deaf"}
    /\ fpc' = [fpc EXCEPT ![o] = "fn"]
    /\ UNCHANGED <<config, source, spc, alive, state, tok, waits, signal>>

(* The operation ends with ECANCELED, by the token or by a timeout of its own. *)
IoCancelled(o) ==
    /\ fpc[o] \in {"waiting", "deaf"}
    /\ fpc' = [fpc EXCEPT ![o] = "cancelled"]
    /\ UNCHANGED <<config, source, spc, alive, state, tok, waits, signal>>

(* fn catches the exception and goes on. *)
Catches(o) ==
    /\ fpc[o] = "cancelled"
    /\ fpc' = [fpc EXCEPT ![o] = "fn"]
    /\ UNCHANGED <<config, source, spc, alive, state, tok, waits, signal>>

(* How fn can end: it returns, or it throws this or another exception. *)
Endings(o) == IF fpc[o] = "cancelled" THEN {"ECANCELED"} ELSE {"return", "other"}

Completion(how) ==
    CASE how = "return" -> "value" [] how = "ECANCELED" -> "stopped" [] OTHER -> "error"

(* Mutation of Complete: the catch of ECANCELED falls through to the next one. *)
CompleteTwice(o) ==
    \/ /\ fpc[o] \in {"fn", "cancelled"}
       /\ fpc' = [fpc EXCEPT ![o] = "done"]
       /\ \E how \in Endings(o) :
            signal' = [signal EXCEPT ![o] = IF kind[o] = "run" THEN Completion(how) ELSE @]
       /\ UNCHANGED <<config, source, spc, alive, state, tok, waits>>
    \/ /\ fpc[o] = "done" /\ signal[o] = "stopped"
       /\ signal' = [signal EXCEPT ![o] = "error"]
       /\ UNCHANGED <<config, source, spc, alive, state, tok, waits, fpc>>

Complete(o) ==
    /\ fpc[o] \in {"fn", "cancelled"}
    /\ fpc' = [fpc EXCEPT ![o] = "done"]
    /\ \E how \in Endings(o) :
         signal' = [signal EXCEPT ![o] = IF kind[o] = "run" THEN Completion(how) ELSE @]
    /\ UNCHANGED <<config, source, spc, alive, state, tok, waits>>

-----------------------------------------------------------------------------
(* The thread that requests stop takes the callbacks one after the other.  *)

RequestStop ==
    /\ stoppable /\ ~requested
    /\ requested' = TRUE
    /\ UNCHANGED <<config, callbacks, running, spc, alive, state, tok, fiber>>

TakeCallback(o) ==
    /\ requested /\ running = Nobody /\ o \in callbacks
    /\ running' = o /\ callbacks' = callbacks \ {o}
    /\ UNCHANGED <<config, requested, spc, alive, state, tok, fiber>>

(* stop_forwarder: through a pointer into the operation state. *)
Forward(o) ==
    /\ running = o
    /\ state' = [state EXCEPT ![o] = Stopped(@)] /\ running' = Nobody
    /\ UNCHANGED <<config, requested, callbacks, spc, alive, tok, fiber>>

(* Mutation of Destroy: fiber_stop_ is declared after stop_cb_ and goes first. *)
DestroyUnwaited(o) ==
    /\ alive[o] /\ (spc[o] = "connected" \/ signal[o] # "none")
    /\ alive' = [alive EXCEPT ![o] = FALSE] /\ callbacks' = callbacks \ {o}
    /\ UNCHANGED <<config, requested, running, spc, state, tok, fiber>>

(* The destructor of stop_cb_, the last member, waits for a running callback. *)
Destroy(o) ==
    /\ alive[o] /\ (spc[o] = "connected" \/ signal[o] # "none")
    /\ running # o
    /\ alive' = [alive EXCEPT ![o] = FALSE] /\ callbacks' = callbacks \ {o}
    /\ UNCHANGED <<config, requested, running, spc, state, tok, fiber>>

Next ==
    \/ RequestStop
    \/ \E o \in Ops :
         \/ Start(o) \/ Bridge(o) \/ Post(o)
         \/ Begin(o) \/ Wait(o) \/ DeafWait(o) \/ IoCompletes(o) \/ IoCancelled(o)
         \/ Catches(o) \/ Complete(o)
         \/ TakeCallback(o) \/ Forward(o) \/ Destroy(o)

Spec == Init /\ [][Next]_vars

(***************************************************************************)
(* A start in progress and a request_stop in progress go on, posted fibers *)
(* run, fn never computes for ever, and a wait that listens to its token   *)
(* ends once that is stopped (IoCancel!StopEndsTheWait).  I/O itself may   *)
(* never complete, and a deaf wait never end.                              *)
(***************************************************************************)
FairSpec ==
    /\ Spec
    /\ \A o \in Ops :
         /\ WF_vars(Bridge(o) \/ Post(o)) /\ WF_vars(TakeCallback(o) \/ Forward(o))
         /\ WF_vars(Begin(o) \/ Wait(o) \/ DeafWait(o) \/ Catches(o) \/ Complete(o))
         /\ WF_vars(StopSeen(o) /\ fpc[o] = "waiting" /\ IoCancelled(o))

-----------------------------------------------------------------------------
(***************************************************************************)
(* The forwarder never runs on a dead operation: the callback list and the *)
(* callback in progress name live states only, although the completion     *)
(* that lets the owner destroy a state races the stop request.             *)
(***************************************************************************)
ForwarderTargetAlive ==
    /\ running # Nobody => alive[running]
    /\ \A o \in callbacks : alive[o]

(***************************************************************************)
(* A stop request is never lost on the way to the fiber: from the moment   *)
(* the callback is constructed, a requested stop is in the fiber's state,  *)
(* is being forwarded, or is still to be taken from the list, and a posted *)
(* fiber holds the token of that very state.                               *)
(***************************************************************************)
StopOnItsWay ==
    \A o \in Ops :
        stoppable /\ alive[o] /\ spc[o] \in {"post", "returned"} =>
            /\ requested => state[o] = "set" \/ running = o \/ o \in callbacks
            /\ ~requested => o \in callbacks
            /\ fpc[o] # "none" => tok[o]

(***************************************************************************)
(* run and schedule keep the sender contract: one completion, and a state  *)
(* that lives from start to completion.                                    *)
(***************************************************************************)
Phase(o) ==
    IF ~alive[o] THEN "destroyed"
    ELSE IF signal[o] # "none" THEN "completed"
    ELSE IF spc[o] = "connected" THEN "connected" ELSE "started"

Contract == INSTANCE SenderContract WITH phase <- [o \in Ops |-> Phase(o)]

ImplementsContract == Contract!Spec

(***************************************************************************)
(* Stop ends the fiber, whatever its I/O does: once stop was requested and *)
(* start was called, fn ends and the receiver has been completed, or the   *)
(* owner gave the state with the bridge up.  The one thing that keeps a    *)
(* stopped fiber for ever is a wait that does not listen to the token.     *)
(***************************************************************************)
StopEndsTheFiber ==
    \A o \in Ops : (requested /\ spc[o] # "connected")
        ~> (\/ fpc[o] = "done" /\ signal[o] # "none"
            \/ ~alive[o]
            \/ [](fpc[o] = "deaf"))
=============================================================================
