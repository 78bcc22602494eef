------------------------------ MODULE FiberBulk ------------------------------
(***************************************************************************)
(* sync_wait(schedule(s) | bulk(par, n, fun)) called on a fiber: the fiber *)
(* that waits (include/fiberexec/sync_wait.hpp), the fiber of schedule     *)
(* that posts one fiber per index (detail/fiber_bulk.hpp), and those       *)
(* fibers, of which the last to finish completes the operation.  All run   *)
(* on different threads.  The operation state is on the waiter's stack and *)
(* dies when sync_wait returns; the synchronization state is counted.      *)
(*                                                                         *)
(* Fiber 0 is the fiber of schedule, 1 .. shape are the fibers of bulk.    *)
(* That posted fibers start is the subject of FiberPool.                   *)
(***************************************************************************)
EXTENDS Naturals, FiniteSets

CONSTANT MaxShape    \* bound: the number of indices

ASSUME ShapeAssumption == MaxShape \in Nat

VARIABLES
    shape,       \* the number of indices of this bulk
    fpc,         \* where each fiber stands
    next,        \* the index schedule's fiber posts next
    remaining,   \* shared.remaining
    has_error,   \* shared.has_error
    error,       \* shared.error: the index whose exception it holds, or 0
    outcome,     \* what the completing fiber passes on: "value" or an index
    wpc,         \* where the waiting fiber stands
    mtx,         \* is state->mtx locked, and by which fiber?
    done,        \* state->done
    result,      \* state->value or state->error
    threw        \* history: the indices whose fun threw

vars == <<shape, fpc, next, remaining, has_error, error, outcome, wpc, mtx, done, result, threw>>
sharedVars == <<remaining, has_error, error>>
stateVars == <<mtx, done, result>>

Fibers == 0..MaxShape
Indices == 1..shape
Nobody == MaxShape + 1
None == 0
Value == MaxShape + 1

TypeOK ==
    /\ shape \in 0..MaxShape
    /\ fpc \in [Fibers -> {"none", "ready", "posting", "fun", "caught", "store", "dec",
                           "check", "lock", "locked", "notify", "end"}]
    /\ next \in 1..(MaxShape + 1) /\ remaining \in 0..MaxShape
    /\ has_error \in BOOLEAN /\ error \in None..MaxShape /\ outcome \in None..Value
    /\ wpc \in {"start", "lock", "waiting", "relock", "read", "returned"}
    /\ mtx \in Fibers \cup {Nobody} /\ done \in BOOLEAN /\ result \in None..Value
    /\ threw \subseteq 1..MaxShape

Init ==
    /\ shape \in 0..MaxShape
    /\ fpc = [i \in Fibers |-> "none"] /\ next = 1
    /\ remaining = shape /\ has_error = FALSE /\ error = None /\ outcome = None
    /\ wpc = "start" /\ mtx = Nobody /\ done = FALSE /\ result = None
    /\ threw = {}

Goto(i, to) == fpc' = [fpc EXCEPT ![i] = to]

(* sync_wait connects and starts: schedule posts its fiber. *)
Start ==
    /\ wpc = "start"
    /\ wpc' = "lock" /\ Goto(0, "ready")
    /\ UNCHANGED <<shape, next, sharedVars, outcome, stateVars, threw>>

(***************************************************************************)
(* fiber_bulk_receiver::set_value on schedule's fiber: without indices it  *)
(* completes; otherwise it posts them one after the other.                 *)
(***************************************************************************)
SetValue ==
    /\ fpc[0] = "ready"
    /\ IF shape = 0 THEN Goto(0, "lock") /\ outcome' = Value
                    ELSE Goto(0, "posting") /\ UNCHANGED outcome
    /\ UNCHANGED <<shape, next, sharedVars, wpc, stateVars, threw>>

PostIndex ==
    /\ fpc[0] = "posting"
    /\ fpc' = [fpc EXCEPT ![next] = "fun", ![0] = IF next = shape THEN "end" ELSE "posting"]
    /\ next' = next + 1
    /\ UNCHANGED <<shape, sharedVars, outcome, wpc, stateVars, threw>>

(***************************************************************************)
(* The fiber of an index: run fun, let the first exception win, count down *)
(***************************************************************************)
FunReturns(i) ==
    /\ fpc[i] = "fun"
    /\ Goto(i, "dec")
    /\ UNCHANGED <<shape, next, sharedVars, outcome, wpc, stateVars, threw>>

FunThrows(i) ==
    /\ fpc[i] = "fun"
    /\ Goto(i, "caught") /\ threw' = threw \cup {i}
    /\ UNCHANGED <<shape, next, sharedVars, outcome, wpc, stateVars>>

(* Mutation of ClaimError: the flag is not raised. *)
ClaimsNothing(i) == UNCHANGED has_error /\ Goto(i, "dec")

ClaimError(i) ==
    IF has_error THEN Goto(i, "dec") /\ UNCHANGED has_error
    ELSE Goto(i, "store") /\ has_error' = TRUE

CatchError(i) ==
    /\ fpc[i] = "caught"
    /\ ClaimError(i)
    /\ UNCHANGED <<shape, next, remaining, error, outcome, wpc, stateVars, threw>>

StoreError(i) ==
    /\ fpc[i] = "store"
    /\ error' = i /\ Goto(i, "dec")
    /\ UNCHANGED <<shape, next, remaining, has_error, outcome, wpc, stateVars, threw>>

(* Mutation of IsLast: an off-by-one, the last but one completes too. *)
LastTwo == remaining' <= 1

(* Mutation of IsLast: it does not wait for the others after an error. *)
LastOrFailed == remaining' = 0 \/ has_error

IsLast == remaining' = 0

CountDown(i) ==
    /\ fpc[i] = "dec"
    /\ remaining' = remaining - 1
    /\ Goto(i, IF IsLast THEN "check" ELSE "end")
    /\ UNCHANGED <<shape, next, has_error, error, outcome, wpc, stateVars, threw>>

CheckError(i) ==
    /\ fpc[i] = "check"
    /\ outcome' = IF has_error THEN error ELSE Value
    /\ Goto(i, "lock")
    /\ UNCHANGED <<shape, next, sharedVars, wpc, stateVars, threw>>

(***************************************************************************)
(* sync_wait_receiver::set_value and set_error: copy state_, store the     *)
(* result under the mutex, unlock, notify.                                 *)
(***************************************************************************)
LockState(i) ==
    /\ fpc[i] = "lock" /\ mtx = Nobody
    /\ mtx' = i /\ Goto(i, "locked")
    /\ UNCHANGED <<shape, next, sharedVars, outcome, wpc, done, result, threw>>

StoreResult(i) ==
    /\ fpc[i] = "locked"
    /\ result' = outcome /\ done' = TRUE /\ mtx' = Nobody
    /\ Goto(i, "notify")
    /\ UNCHANGED <<shape, next, sharedVars, outcome, wpc, threw>>

NotifyAll(i) ==
    /\ fpc[i] = "notify"
    /\ wpc' = IF wpc = "waiting" THEN "relock" ELSE wpc
    /\ Goto(i, "end")
    /\ UNCHANGED <<shape, next, sharedVars, outcome, stateVars, threw>>

(***************************************************************************)
(* The waiter: under the mutex, test done, and give the mutex up together  *)
(* with going to sleep; at last read the result and return.                *)
(***************************************************************************)
(* Mutation of WaitForDone: it sleeps without testing done first. *)
WaitUntested ==
    /\ wpc \in {"lock", "relock"} /\ mtx = Nobody
    /\ wpc' = IF wpc = "relock" THEN "read" ELSE "waiting"
    /\ UNCHANGED <<shape, fpc, next, sharedVars, outcome, stateVars, threw>>

WaitForDone ==
    /\ wpc \in {"lock", "relock"} /\ mtx = Nobody
    /\ wpc' = IF done THEN "read" ELSE "waiting"
    /\ UNCHANGED <<shape, fpc, next, sharedVars, outcome, stateVars, threw>>

Return ==
    /\ wpc = "read"
    /\ wpc' = "returned"
    /\ UNCHANGED <<shape, fpc, next, sharedVars, outcome, stateVars, threw>>

FiberStep(i) ==
    \/ FunReturns(i) \/ FunThrows(i) \/ CatchError(i) \/ StoreError(i)
    \/ CountDown(i) \/ CheckError(i) \/ LockState(i) \/ StoreResult(i) \/ NotifyAll(i)

Next ==
    \/ Start \/ SetValue \/ PostIndex \/ WaitForDone \/ Return
    \/ \E i \in Fibers : FiberStep(i)

Spec == Init /\ [][Next]_vars

(* Posted fibers run, fun returns or throws, and the mutex is handed on. *)
FairSpec ==
    /\ Spec
    /\ WF_vars(Start \/ WaitForDone \/ Return) /\ WF_vars(SetValue \/ PostIndex)
    /\ \A i \in 0..MaxShape : SF_vars(LockState(i)) /\ WF_vars(FiberStep(i))

-----------------------------------------------------------------------------

(* The fibers that still read or write the operation state. *)
UsesOp(i) == fpc[i] \notin {"none", "notify", "end"}

(***************************************************************************)
(* The operation state outlives its users: when sync_wait returns, and     *)
(* with it the stack frame of op goes away, no fiber of the bulk is left   *)
(* that touches shared_ or the receiver.                                   *)
(***************************************************************************)
OpOutlivesFibers == wpc = "returned" => \A i \in Fibers : ~UsesOp(i)

(***************************************************************************)
(* The receiver is completed at most once, and only after fun has been     *)
(* called for every index and has ended.                                   *)
(***************************************************************************)
CompletesOnce ==
    LET completing == {i \in Fibers : fpc[i] \in {"check", "lock", "locked", "notify"}}
    IN  /\ Cardinality(completing) <= 1
        /\ completing # {} => ~done \/ \A i \in completing : fpc[i] = "notify"
        /\ completing # {} \/ done =>
              \A i \in Indices : fpc[i] \notin {"none", "fun", "caught", "store", "dec"}

(***************************************************************************)
(* sync_wait rethrows exactly when some index threw, and then the          *)
(* exception of an index that threw; has_error is raised before error is   *)
(* written, by another fiber than the one that reads both.                 *)
(***************************************************************************)
ResultIsFaithful ==
    wpc = "returned" => IF threw = {} THEN result = Value ELSE result \in threw

(***************************************************************************)
(* The bulk keeps the sender contract: sync_wait's receiver gets one       *)
(* signal, and op on the waiter's stack lives until it has.                *)
(***************************************************************************)
Phase ==
    IF wpc = "returned" THEN "destroyed"
    ELSE IF done THEN "completed"
    ELSE IF wpc = "start" THEN "connected" ELSE "started"

Signal == IF ~done THEN "none" ELSE IF result = Value THEN "value" ELSE "error"

Contract ==
    INSTANCE SenderContract WITH
        Ops <- {"op"}, phase <- [o \in {"op"} |-> Phase], signal <- [o \in {"op"} |-> Signal]

ImplementsContract == Contract!Spec

(***************************************************************************)
(* A sync_wait that started returns: the notification is not lost between  *)
(* the waiter's test of done and its going to sleep.                       *)
(***************************************************************************)
SyncWaitReturns == (wpc # "start") ~> (wpc = "returned")
=============================================================================
