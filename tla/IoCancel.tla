------------------------------- MODULE IoCancel ------------------------------
(***************************************************************************)
(* How a fiber waits for I/O on its thread's ring, and how a stop request  *)
(* made on another thread reaches the operation: submit_and_wait with its  *)
(* timed and linked forms, the stop callbacks, request_cancel, and the     *)
(* notify and I/O completions of drain_cqes (src/fiber_context.cpp).       *)
(*                                                                         *)
(* One worker thread is modelled: rings share nothing.  A fiber is named   *)
(* by its stack, since the awaitables the kernel points to lie there: a    *)
(* fiber launched later on the same stack has its awaitables at the same   *)
(* addresses.  The kernel's part follows the io_uring contract: a pending  *)
(* operation may wait for ever; one that is running will complete and      *)
(* ignores a cancel (-EALREADY); the next one of a chain starts when its   *)
(* predecessor succeeds.                                                   *)
(***************************************************************************)
EXTENDS Naturals, Sequences

CONSTANTS Stacks,       \* the stacks fibers run on
          Kinds,        \* the kinds of operation fibers perform
          SqEntries,    \* k_ring_entries
          MaxOps,       \* bound: operations per fiber
          MaxFibers,    \* bound: fibers launched on each stack
          MaxFailures   \* bound: failing calls of io_uring_submit

ASSUME RingAssumption ==
    /\ Kinds \subseteq {"plain", "close", "timed", "linked"}
    /\ SqEntries \in Nat /\ SqEntries >= 2    \* the longest operation has two SQEs
    /\ MaxOps \in Nat /\ MaxFibers \in Nat /\ MaxFailures \in Nat

Pool == "pool"                     \* the pool-wide stop source
None == "none"
Sources == {Pool} \cup Stacks      \* ... and the one behind each fiber's token
Addrs == Stacks \X {1, 2}          \* the awaitables of the operation on a stack

ASSUME SourcesAreDistinct == Pool \notin Stacks /\ None \notin Stacks

VARIABLES
    cur,             \* the fiber running, "none" in the dispatcher
    draining,        \* is the thread inside drain_cqes?
    ready,           \* io_uring_scheduler::ready_
    fpc,             \* where the fiber of each stack stands
    kind,            \* the operation it performs
    value,           \* the promise of each awaitable
    fibers_left, ops_left,
    sq,              \* SQEs prepared and not yet submitted
    op,              \* the operation behind each awaitable, in the kernel
    failures,        \* io_uring_submit calls that still may fail
    notify_fd,       \* counter of the semaphore eventfd notify_fd_
    notify_read,     \* the ring's read of it
    cancel_queue,    \* io_uring_scheduler::cancel_queue_
    requested,       \* stop sources asked to stop
    stoppable,       \* fibers whose token can be asked to stop
    cbs,             \* stop callbacks registered: <<source, stack>>
    caller,          \* what the thread in request_stop() of a source does
    crashed          \* a null SQE was used

fiberVars == <<fpc, kind, value, fibers_left, ops_left>>
schedVars == <<cur, draining, ready>>
ringVars == <<sq, op, failures, notify_read>>
cancelVars == <<notify_fd, cancel_queue>>
stopVars == <<requested, stoppable, cbs, caller>>
vars == <<cur, draining, ready, fpc, kind, value, fibers_left, ops_left, sq, op,
          failures, notify_fd, notify_read, cancel_queue, requested, stoppable,
          cbs, caller, crashed>>

Results == {"ok", "error", "cancelled"}
FiberPCs == {"none", "body", "reg_pool", "reg_fiber", "get", "wait",
             "dereg_fiber", "dereg_pool"}
Idle == [pc |-> "idle", at |-> None, i |-> 1]
NotifySqe == <<"notify", None>>
Entries == ({"op", "timeout", "cancel"} \X Addrs) \cup {NotifySqe}

TypeOK ==
    /\ cur \in Stacks \cup {None} /\ draining \in BOOLEAN /\ ready \in Seq(Stacks)
    /\ fpc \in [Stacks -> FiberPCs] /\ kind \in [Stacks -> Kinds \cup {None}]
    /\ value \in [Addrs -> Results \cup {"unset"}]
    /\ fibers_left \in [Stacks -> 0..MaxFibers] /\ ops_left \in [Stacks -> 0..MaxOps]
    /\ sq \in Seq(Entries) /\ Len(sq) <= SqEntries
    /\ op \in [Addrs -> Results \cup {"free", "linked", "pending", "running"}]
    /\ failures \in 0..MaxFailures
    /\ notify_fd \in Nat /\ notify_read \in {"off", "armed", "done"}
    /\ cancel_queue \in Seq(Addrs)
    /\ requested \subseteq Sources /\ stoppable \subseteq Stacks
    /\ cbs \subseteq Sources \X Stacks
    /\ caller \in [Sources -> [pc : {"idle", "calling", "push", "write"},
                               at : Stacks \cup {None}, i : {1, 2}]]
    /\ crashed \in BOOLEAN

(* The scheduler was constructed: the notify read is armed. *)
Init ==
    /\ cur = None /\ draining = FALSE /\ ready = <<>>
    /\ fpc = [s \in Stacks |-> "none"] /\ kind = [s \in Stacks |-> None]
    /\ value = [a \in Addrs |-> "unset"]
    /\ fibers_left = [s \in Stacks |-> MaxFibers]
    /\ ops_left = [s \in Stacks |-> 0]
    /\ sq = <<>> /\ op = [a \in Addrs |-> "free"] /\ failures = MaxFailures
    /\ notify_fd = 0 /\ notify_read = "armed" /\ cancel_queue = <<>>
    /\ requested = {} /\ stoppable = {} /\ cbs = {}
    /\ caller = [x \in Sources |-> Idle]
    /\ crashed = FALSE

At(s, label) == cur = s /\ fpc[s] = label
Goto(s, label) == fpc' = [fpc EXCEPT ![s] = label]

(***************************************************************************)
(* The kernel takes a batch of SQEs: the operations start (the second of a *)
(* chain waits for the first), then the cancels hit what is pending, and   *)
(* the rest of a cancelled chain goes with it.                             *)
(***************************************************************************)
InBatch(b, what) == {b[i][2] : i \in {j \in DOMAIN b : b[j][1] = what}}

Cascade(f, hit) ==
    [a \in Addrs |->
        IF f[a] \in {"pending", "linked"} /\ \E i \in 1..a[2] : <<a[1], i>> \in hit
        THEN "cancelled" ELSE f[a]]

Consume(b, read) ==
    LET started == [a \in Addrs |-> IF a \notin InBatch(b, "op") THEN op[a]
                                    ELSE IF a[2] = 1 THEN "pending" ELSE "linked"]
    IN  /\ op' = Cascade(started, {a \in InBatch(b, "cancel") : started[a] = "pending"})
        /\ notify_read' = IF InBatch(b, "notify") # {} THEN "armed" ELSE read

(* io_uring_submit: the SQEs prepared so far go to the kernel, or stay. *)
SubmitOk(new, read) == Consume(sq \o new, read) /\ sq' = <<>> /\ UNCHANGED failures
SubmitFails(new, read) ==
    /\ failures > 0 /\ failures' = failures - 1
    /\ sq' = sq \o new /\ notify_read' = read /\ UNCHANGED op

KernelRun(a) ==
    /\ op[a] = "pending"
    /\ op' = [op EXCEPT ![a] = "running"]
    /\ UNCHANGED <<fiberVars, schedVars, sq, failures, notify_read, cancelVars,
                   stopVars, crashed>>

KernelComplete(a) ==
    LET next == <<a[1], a[2] + 1>>
        ends == [op EXCEPT ![a] = "error"]
    IN  /\ op[a] = "running"
        /\ \/ op' = [x \in Addrs |-> IF x = a THEN "ok"
                                     ELSE IF x = next /\ op[x] = "linked" THEN "pending"
                                     ELSE op[x]]
           \/ op' = Cascade(ends, {a})
        /\ UNCHANGED <<fiberVars, schedVars, sq, failures, notify_read, cancelVars,
                       stopVars, crashed>>

KernelTimeout(s) ==
    /\ kind[s] = "timed" /\ op[<<s, 1>>] = "pending"
    /\ op' = [op EXCEPT ![<<s, 1>>] = "cancelled"]
    /\ UNCHANGED <<fiberVars, schedVars, sq, failures, notify_read, cancelVars,
                   stopVars, crashed>>

KernelNotify ==
    /\ notify_read = "armed" /\ notify_fd > 0
    /\ notify_read' = "done" /\ notify_fd' = notify_fd - 1
    /\ UNCHANGED <<fiberVars, schedVars, sq, op, failures, cancel_queue, stopVars,
                   crashed>>

(* The dispatcher.  drain_cqes leaves no completion behind.                *)

HasCqe == notify_read = "done" \/ \E a \in Addrs : op[a] \in Results

PickNext ==
    /\ cur = None /\ ~draining /\ ready # <<>>
    /\ cur' = Head(ready) /\ ready' = Tail(ready)
    /\ UNCHANGED <<draining, fiberVars, ringVars, cancelVars, stopVars, crashed>>

SuspendUntil ==
    /\ cur = None /\ ~draining /\ ready = <<>>
    /\ HasCqe \/ \E s \in Stacks : fpc[s] = "none" /\ fibers_left[s] > 0
    /\ draining' = TRUE
    /\ UNCHANGED <<cur, ready, fiberVars, ringVars, cancelVars, stopVars, crashed>>

DrainEnd ==
    /\ draining /\ ~HasCqe
    /\ draining' = FALSE
    /\ UNCHANGED <<cur, ready, fiberVars, ringVars, cancelVars, stopVars, crashed>>

(***************************************************************************)
(* A work completion: a fiber is launched, with or without a stop token,   *)
(* and the work eventfd armed again.  That is a system call, in which the  *)
(* kernel posts the completion of a notify read that has something to      *)
(* read: this drain_cqes will see it.                                      *)
(***************************************************************************)
NotifyDue == notify_read = "armed" /\ notify_fd > 0

LaunchFiber(s) ==
    /\ draining /\ fpc[s] = "none" /\ fibers_left[s] > 0 /\ caller[s].pc # "calling"
    /\ ~NotifyDue
    /\ fibers_left' = [fibers_left EXCEPT ![s] = @ - 1]
    /\ ops_left' = [ops_left EXCEPT ![s] = MaxOps]
    /\ Goto(s, "body")
    /\ ready' = Append(ready, s)
    /\ requested' = requested \ {s}
    /\ \/ stoppable' = stoppable \cup {s}
       \/ stoppable' = stoppable \ {s}
    /\ UNCHANGED <<cur, draining, kind, value, ringVars, cancelVars, cbs, caller,
                   crashed>>

(* The first future of a fiber's operation that has no value yet. *)
Awaitables(s) == IF kind[s] = "linked" THEN {1, 2} ELSE {1}
Unset(s) == {i \in Awaitables(s) : value[<<s, i>>] = "unset"}
FirstUnset(s) == IF 1 \in Unset(s) THEN 1 ELSE 2

(* io_awaitable::complete: the promise is set, which wakes a fiber that     *)
(* waits for this very future.                                              *)
DrainIo(a) ==
    LET s == a[1]
        wakes == fpc[s] = "wait" /\ a[2] = FirstUnset(s)
    IN  /\ draining /\ op[a] \in Results
        /\ op' = [op EXCEPT ![a] = "free"]
        /\ value' = [value EXCEPT ![a] = op[a]]
        /\ fpc' = IF wakes THEN [fpc EXCEPT ![s] = "get"] ELSE fpc
        /\ ready' = IF wakes THEN Append(ready, s) ELSE ready
        /\ UNCHANGED <<cur, draining, kind, fibers_left, ops_left, sq, failures,
                       notify_read, cancelVars, stopVars, crashed>>

(* Mutation of CancelSqes: the SQEs are not tested for null. *)
UntestedSqes(room) == Len(cancel_queue)

(* flush_cancel_queue: how many queued cancels get an SQE. *)
CancelSqes(room) == IF Len(cancel_queue) <= room THEN Len(cancel_queue) ELSE room

(* Mutation of RearmSqe: the notify read is not armed again. *)
NoRearm == <<>>

RearmSqe == <<NotifySqe>>

(***************************************************************************)
(* flush_cancel_queue, then arm_notify.  arm_notify uses the SQE it asks   *)
(* for without a test, and the result of its io_uring_submit is ignored.   *)
(***************************************************************************)
DrainNotify ==
    LET room == SqEntries - Len(sq)
        n == CancelSqes(room)
        cancels == [i \in 1..n |-> <<"cancel", cancel_queue[i]>>]
    IN  /\ draining /\ notify_read = "done"
        /\ cancel_queue' = SubSeq(cancel_queue, n + 1, Len(cancel_queue))
        /\ IF n = room
           THEN /\ crashed' = TRUE
                /\ sq' = sq \o cancels /\ notify_read' = "off"
                /\ UNCHANGED <<op, failures>>
           ELSE /\ \/ SubmitOk(cancels \o RearmSqe, "off")
                   \/ SubmitFails(cancels \o RearmSqe, "off")
                /\ UNCHANGED crashed
        /\ UNCHANGED <<schedVars, fiberVars, notify_fd, stopVars>>

(***************************************************************************)
(* A fiber's operation.  Nothing else runs on the thread between           *)
(* io_uring_get_sqe and the wait.                                          *)
(***************************************************************************)
TakeOp(s) ==
    /\ At(s, "body") /\ ops_left[s] > 0
    /\ ops_left' = [ops_left EXCEPT ![s] = @ - 1]

(* async_close does not ask the token, every other operation does. *)
Refused(s, k) == k # "close" /\ s \in requested

(* begin_async_op throws ECANCELED. *)
OpRefused(s, k) ==
    /\ TakeOp(s) /\ Refused(s, k)
    /\ UNCHANGED <<schedVars, fpc, kind, value, fibers_left, ringVars, cancelVars,
                   stopVars, crashed>>

(* async_sleep_for of no time, or less, returns without an SQE. *)
SleepNoTime(s, k) ==
    /\ TakeOp(s) /\ ~Refused(s, k) /\ k = "plain"
    /\ UNCHANGED <<schedVars, fpc, kind, value, fibers_left, ringVars, cancelVars,
                   stopVars, crashed>>

(* One SQE, with a timeout linked to it or not, or two of a chain. *)
Sqes(s, k) ==
    CASE k \in {"plain", "close"} -> <<<<"op", <<s, 1>>>>>>
      [] k = "timed" -> <<<<"op", <<s, 1>>>>, <<"timeout", <<s, 1>>>>>>
      [] k = "linked" -> <<<<"op", <<s, 1>>>>, <<"op", <<s, 2>>>>>>

(* Without an SQE the timed form throws, with its first SQE already queued; *)
(* every other form uses the null pointer.                                  *)
OpNoSqe(s, k) ==
    /\ TakeOp(s) /\ ~Refused(s, k)
    /\ Len(sq) + Len(Sqes(s, k)) > SqEntries
    /\ IF k = "timed" /\ Len(sq) < SqEntries
       THEN sq' = Append(sq, <<"op", <<s, 1>>>>) /\ UNCHANGED crashed
       ELSE crashed' = TRUE /\ UNCHANGED sq
    /\ UNCHANGED <<schedVars, fpc, kind, value, fibers_left, op, failures,
                   notify_read, cancelVars, stopVars>>

OpSubmit(s, k) ==
    /\ TakeOp(s) /\ ~Refused(s, k)
    /\ Len(sq) + Len(Sqes(s, k)) <= SqEntries
    /\ kind' = [kind EXCEPT ![s] = k]
    /\ value' = [a \in Addrs |-> IF a[1] = s THEN "unset" ELSE value[a]]
    /\ \/ SubmitOk(Sqes(s, k), notify_read) /\ Goto(s, "reg_pool")
       \/ SubmitFails(Sqes(s, k), notify_read) /\ UNCHANGED fpc
    /\ UNCHANGED <<schedVars, fibers_left, cancelVars, stopVars, crashed>>

(* Mutation of Register: a callback that runs on the worker itself does not *)
(* write the notify eventfd.                                                *)
RegisterNoWrite(s, x) ==
    IF x \in requested
    THEN /\ cancel_queue' = Append(cancel_queue, <<s, 1>>)
         /\ UNCHANGED <<notify_fd, cbs>>
    ELSE cbs' = cbs \cup {<<x, s>>} /\ UNCHANGED cancelVars

(* One request_cancel for each awaitable. *)
Cancels(s) == IF kind[s] = "linked" THEN <<<<s, 1>>, <<s, 2>>>> ELSE <<<<s, 1>>>>

(* Constructing a std::stop_callback: on a source already asked to stop the *)
(* callback runs here and now, and cancels every awaitable.                 *)
Register(s, x) ==
    IF x \in requested
    THEN /\ cancel_queue' = cancel_queue \o Cancels(s)
         /\ notify_fd' = notify_fd + Len(Cancels(s))
         /\ UNCHANGED cbs
    ELSE cbs' = cbs \cup {<<x, s>>} /\ UNCHANGED cancelVars

RegisterPool(s) ==
    /\ At(s, "reg_pool")
    /\ Register(s, Pool)
    /\ Goto(s, IF s \in stoppable THEN "reg_fiber" ELSE "get")
    /\ UNCHANGED <<schedVars, kind, value, fibers_left, ops_left, ringVars,
                   requested, stoppable, caller, crashed>>

RegisterFiber(s) ==
    /\ At(s, "reg_fiber")
    /\ Register(s, s)
    /\ Goto(s, "get")
    /\ UNCHANGED <<schedVars, kind, value, fibers_left, ops_left, ringVars,
                   requested, stoppable, caller, crashed>>

(* Mutation of AllSet: the wait ends with the first result of a chain. *)
FirstSet(s) == 1 \notin Unset(s)

AllSet(s) == Unset(s) = {}

(* future.get(), and wait_all over the futures of a chain. *)
FutureGet(s) ==
    /\ At(s, "get")
    /\ IF AllSet(s) THEN Goto(s, "dereg_fiber") /\ UNCHANGED cur
                    ELSE Goto(s, "wait") /\ cur' = None
    /\ UNCHANGED <<draining, ready, kind, value, fibers_left, ops_left, ringVars,
                   cancelVars, stopVars, crashed>>

(* Mutation of CallbackDone: the destructor does not wait for a callback    *)
(* that another thread is executing.                                        *)
NoWaitForCallback(s, x) == TRUE

(* Destroying a std::stop_callback blocks the thread while another thread   *)
(* executes the callback.                                                   *)
CallbackDone(s, x) == caller[x].at # s

DeregisterFiber(s) ==
    /\ At(s, "dereg_fiber") /\ CallbackDone(s, s)
    /\ cbs' = cbs \ {<<s, s>>}
    /\ Goto(s, "dereg_pool")
    /\ UNCHANGED <<schedVars, kind, value, fibers_left, ops_left, ringVars,
                   cancelVars, requested, stoppable, caller, crashed>>

DeregisterPool(s) ==
    /\ At(s, "dereg_pool") /\ CallbackDone(s, Pool)
    /\ cbs' = cbs \ {<<Pool, s>>}
    /\ Goto(s, "body")
    /\ UNCHANGED <<schedVars, kind, value, fibers_left, ops_left, ringVars,
                   cancelVars, requested, stoppable, caller, crashed>>

(* What the call reports: the first result that is not a success.  (The     *)
(* success of a sleep is -ETIME.)                                           *)
Reported(s) == IF value[<<s, 1>>] = "ok" /\ kind[s] = "linked" THEN value[<<s, 2>>]
                                                              ELSE value[<<s, 1>>]

FiberEnd(s) ==
    /\ At(s, "body")
    /\ Goto(s, "none") /\ cur' = None
    /\ UNCHANGED <<draining, ready, kind, value, fibers_left, ops_left, ringVars,
                   cancelVars, stopVars, crashed>>

(***************************************************************************)
(* request_stop() on another thread: it marks the source, then takes one   *)
(* registered callback after the other and runs it.  The callback calls    *)
(* request_cancel for each awaitable: the push, then the notify write.     *)
(***************************************************************************)
RequestStop(x) ==
    /\ x \notin requested
    /\ x = Pool \/ (x \in stoppable /\ fpc[x] # "none")
    /\ requested' = requested \cup {x}
    /\ caller' = [caller EXCEPT ![x].pc = "calling"]
    /\ UNCHANGED <<schedVars, fiberVars, ringVars, cancelVars, stoppable, cbs,
                   crashed>>

CallNext(x, s) ==
    /\ caller[x].pc = "calling" /\ <<x, s>> \in cbs
    /\ cbs' = cbs \ {<<x, s>>}
    /\ caller' = [caller EXCEPT ![x] = [pc |-> "push", at |-> s, i |-> 1]]
    /\ UNCHANGED <<schedVars, fiberVars, ringVars, cancelVars, requested, stoppable,
                   crashed>>

CallsDone(x) ==
    /\ caller[x].pc = "calling" /\ \A s \in Stacks : <<x, s>> \notin cbs
    /\ caller' = [caller EXCEPT ![x] = Idle]
    /\ UNCHANGED <<schedVars, fiberVars, ringVars, cancelVars, requested, stoppable,
                   cbs, crashed>>

PushCancel(x) ==
    /\ caller[x].pc = "push"
    /\ cancel_queue' = Append(cancel_queue, <<caller[x].at, caller[x].i>>)
    /\ caller' = [caller EXCEPT ![x].pc = "write"]
    /\ UNCHANGED <<schedVars, fiberVars, ringVars, notify_fd, requested, stoppable,
                   cbs, crashed>>

WriteNotify(x) ==
    /\ caller[x].pc = "write"
    /\ notify_fd' = notify_fd + 1
    /\ caller' = [caller EXCEPT ![x] =
                     IF caller[x].i + 1 \in Awaitables(caller[x].at)
                     THEN [@ EXCEPT !.pc = "push", !.i = 2]
                     ELSE [pc |-> "calling", at |-> None, i |-> 1]]
    /\ UNCHANGED <<schedVars, fiberVars, ringVars, cancel_queue, requested,
                   stoppable, cbs, crashed>>

Kernel == (\E a \in Addrs : KernelRun(a) \/ KernelComplete(a))
          \/ (\E s \in Stacks : KernelTimeout(s)) \/ KernelNotify
Fiber(s) == (\E k \in Kinds : \/ OpRefused(s, k) \/ SleepNoTime(s, k)
                                \/ OpNoSqe(s, k) \/ OpSubmit(s, k))
            \/ RegisterPool(s) \/ RegisterFiber(s) \/ FutureGet(s)
            \/ DeregisterFiber(s) \/ DeregisterPool(s) \/ FiberEnd(s)
Worker ==
    /\ ~crashed
    /\ \/ PickNext \/ SuspendUntil \/ DrainEnd \/ DrainNotify
       \/ \E a \in Addrs : DrainIo(a)
       \/ \E s \in Stacks : LaunchFiber(s) \/ Fiber(s)
Calls(x) == CallsDone(x) \/ PushCancel(x) \/ WriteNotify(x)
            \/ \E s \in Stacks : CallNext(x, s)

Next == Worker \/ Kernel \/ \E x \in Sources : RequestStop(x) \/ Calls(x)

Spec == Init /\ [][Next]_vars

(***************************************************************************)
(* The operating system runs the worker and every thread in request_stop,  *)
(* an operation that runs completes, and the notify read is served while   *)
(* its counter is positive.  No event need ever come for a pending         *)
(* operation, and no timeout is owed.                                      *)
(***************************************************************************)
FairSpec ==
    /\ Spec /\ WF_vars(Worker) /\ WF_vars(KernelNotify)
    /\ \A a \in Addrs : WF_vars(KernelComplete(a))
    /\ \A x \in Sources : WF_vars(Calls(x))

-----------------------------------------------------------------------------
(***************************************************************************)
(* While the kernel, the submission queue or the completion queue holds a  *)
(* pointer to an awaitable, the fiber is inside the call that owns it: the *)
(* stack frame drain_cqes will write to is alive.  A submit that failed    *)
(* leaves its SQE in the queue and ends this.                              *)
(***************************************************************************)
InCall(s) == fpc[s] \in {"reg_pool", "reg_fiber", "get", "wait"}
NoFailure == failures = MaxFailures
AwaitableAlive ==
    NoFailure => \A a \in Addrs : op[a] # "free" \/ a \in InBatch(sq, "op") =>
        InCall(a[1]) /\ a[2] \in Unset(a[1])

(***************************************************************************)
(* An operation reports ECANCELED only if it has a timeout, or its own     *)
(* fiber's token or the pool was asked to stop: a cancel queued for one    *)
(* fiber never hits the operation of the fiber launched later on the same  *)
(* stack.  The SQE a failed submit leaves behind can: it keeps the address *)
(* of the dead fiber's awaitable.                                          *)
(***************************************************************************)
Asked(s) == Pool \in requested \/ s \in requested
OnlyAskedCancelled ==
    NoFailure => \A s \in Stacks :
        fpc[s] \in {"dereg_fiber", "dereg_pool"} /\ Reported(s) = "cancelled" =>
            kind[s] = "timed" \/ Asked(s)

(***************************************************************************)
(* A cancel never waits in cancel_queue_ without a wakeup on its way: one  *)
(* flush empties the queue, so fewer notifications than pushes must do.    *)
(* Only a worker that died of a full submission queue leaves one there.    *)
(***************************************************************************)
QueuedCancelHasWakeup ==
    cancel_queue # <<>> => \/ notify_fd > 0 \/ notify_read = "done" \/ crashed
                           \/ \E x \in Sources : caller[x].pc = "write"

Ended(s) == fpc[s] \in {"body", "none"} \/ ~NoFailure \/ crashed

(***************************************************************************)
(* A fiber that waits for I/O when its token or the pool is asked to stop  *)
(* gets out of the wait, callbacks destroyed: no order of request,         *)
(* registration, submission and completion loses a stop, as long as no     *)
(* submit fails and the worker does not die of a full submission queue.    *)
(* Only a chain whose first operation succeeded may go on waiting: if that *)
(* one was executing, its cancel and the one of the second, not yet        *)
(* started, both came too early, and nothing cancels the second.  A cancel *)
(* that is queued while its operation is in flight ends any operation.     *)
(***************************************************************************)
StopEndsTheWait ==
    /\ \A s \in Stacks : (InCall(s) /\ Asked(s)) ~>
           (Ended(s) \/ (kind[s] = "linked" /\ value[<<s, 1>>] = "ok"))
    /\ \A a \in Addrs :
           (op[a] \in {"pending", "running"} /\ \E j \in DOMAIN cancel_queue : cancel_queue[j] = a)
           ~> (value[a] # "unset" \/ Ended(a[1]))
=============================================================================
