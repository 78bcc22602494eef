------------------------------ MODULE FiberPool ------------------------------
(***************************************************************************)
(* The pool of src/fiber_context.cpp: OS threads that share one work queue *)
(* and one EFD_SEMAPHORE eventfd, each with its own ring and its own       *)
(* cooperative fiber scheduler, and the shutdown handshake between         *)
(* ~fiber_pool, the fibers in flight and the main fiber of every worker.   *)
(*                                                                         *)
(* A task and the fiber that runs it share one identity.  On a thread only *)
(* one of these runs at a time: the dispatcher (with the drain loop it     *)
(* enters through suspend_until), one fiber, or the main fiber of worker().*)
(* pc[t] says which, and at which of the shared-memory accesses it stands. *)
(* What a task's body does is left open: it may perform I/O, post further  *)
(* tasks, block in sync_wait on one of them, and return.                   *)
(***************************************************************************)
EXTENDS Naturals, Sequences, FiniteSets

CONSTANTS Threads,       \* the worker threads
          Tasks,         \* every task that can ever be posted
          Roots,         \* the tasks posted by threads outside the pool
          MaySyncWait,   \* may a fiber block in sync_wait on a task it posted?
          MaxIo,         \* bound: I/O operations per fiber
          MaxReadErrors  \* bound: failed reads of the work eventfd

ASSUME PoolAssumption ==
    /\ IsFiniteSet(Threads) /\ Threads # {}
    /\ IsFiniteSet(Tasks)
    /\ Roots \subseteq Tasks
    /\ MaySyncWait \in BOOLEAN
    /\ MaxIo \in Nat /\ MaxReadErrors \in Nat

Main == "main"                 \* the entry of a worker's main fiber in ready
None == "none"
Free == "free"
Stopper == "stopper"           \* the thread that runs ~fiber_pool

ASSUME NamesAreDistinct ==
    /\ Main \notin Tasks /\ None \notin Tasks
    /\ None \notin Threads /\ Free \notin Threads /\ Stopper \notin Threads

VARIABLES
    work_queue,    \* fiber_pool::work_queue_
    eventfd,       \* counter of the semaphore eventfd fiber_pool::eventfd_
    unsignalled,   \* tasks pushed by a post() that has yet to write the eventfd
    running,       \* fiber_pool::running_
    pool_stop,     \* has pool_stop_source_ been asked to stop?
    in_flight,     \* fiber_pool::in_flight_
    shutdown_mtx,  \* owner of fiber_pool::shutdown_mtx_
    mtx_waiters,   \* main fibers queued on shutdown_mtx_
    shutdown_cv,   \* threads whose main fiber is queued on shutdown_cv_
    pc,            \* where each thread stands
    cur,           \* the task popped, or the fiber running, on each thread
    posting,       \* the task a running fiber is in the middle of posting
    ready,         \* io_uring_scheduler::ready_ of each thread
    work_read,     \* each thread's read of the work eventfd
    io_cq,         \* I/O completions in each thread's ring
    st,            \* where each task stands
    on,            \* the thread that hosts each fiber
    joiner,        \* the fiber that waits for each task in sync_wait
    io_left,       \* I/O operations each fiber may still perform
    read_errors,   \* failed reads of the eventfd still to come
    stop_pc        \* where ~fiber_pool stands

poolVars == <<work_queue, eventfd, unsignalled>>
stopVars == <<running, pool_stop, stop_pc>>
lockVars == <<shutdown_mtx, mtx_waiters, shutdown_cv>>
kernVars == <<work_read, read_errors>>
fiberVars == <<st, on, joiner, io_left>>
vars == <<work_queue, eventfd, unsignalled, running, pool_stop, in_flight,
          shutdown_mtx, mtx_waiters, shutdown_cv, pc, cur, posting, ready,
          work_read, io_cq, st, on, joiner, io_left, read_errors, stop_pc>>

(***************************************************************************)
(* A live fiber is one that in_flight_ counts: launched, and its fetch_sub *)
(* still to come.                                                          *)
(***************************************************************************)
LiveStates == {"ready", "running", "io", "waiting", "returned"}
TaskStates == {"none", "queued", "popped", "done"} \cup LiveStates
ThreadPCs == {"sched", "drain", "check", "pop", "launch", "rearm",
              "fiber", "post", "await", "dec", "notify",
              "lock", "eval", "enqueue", "exited"}
StopPCs == {"idle", "lock", "store", "notify", "unlock", "join", "joined"}

LiveFibers == {k \in Tasks : st[k] \in LiveStates}

TypeOK ==
    /\ work_queue \in Seq(Tasks)
    /\ eventfd \in Nat
    /\ unsignalled \subseteq Tasks
    /\ running \in BOOLEAN /\ pool_stop \in BOOLEAN
    /\ in_flight \in Nat
    /\ shutdown_mtx \in Threads \cup {Free, Stopper}
    /\ mtx_waiters \in Seq(Threads)
    /\ shutdown_cv \subseteq Threads
    /\ pc \in [Threads -> ThreadPCs]
    /\ cur \in [Threads -> Tasks \cup {None}]
    /\ posting \in [Threads -> Tasks \cup {None}]
    /\ ready \in [Threads -> Seq(Tasks \cup {Main})]
    /\ work_read \in [Threads -> {"armed", "done", "failed", "off"}]
    /\ io_cq \in [Threads -> SUBSET Tasks]
    /\ st \in [Tasks -> TaskStates]
    /\ on \in [Tasks -> Threads \cup {None}]
    /\ joiner \in [Tasks -> Tasks \cup {None}]
    /\ io_left \in [Tasks -> Nat]
    /\ read_errors \in Nat
    /\ stop_pc \in StopPCs

(* The constructor returned: every thread is in worker(), its ring is live *)
(* with the work read armed, and its main fiber is about to park.          *)
Init ==
    /\ work_queue = <<>> /\ eventfd = 0 /\ unsignalled = {}
    /\ running = TRUE /\ pool_stop = FALSE /\ in_flight = 0
    /\ shutdown_mtx = Free /\ mtx_waiters = <<>> /\ shutdown_cv = {}
    /\ pc = [t \in Threads |-> "lock"]
    /\ cur = [t \in Threads |-> None]
    /\ posting = [t \in Threads |-> None]
    /\ ready = [t \in Threads |-> <<>>]
    /\ work_read = [t \in Threads |-> "armed"]
    /\ io_cq = [t \in Threads |-> {}]
    /\ st = [k \in Tasks |-> "none"]
    /\ on = [k \in Tasks |-> None]
    /\ joiner = [k \in Tasks |-> None]
    /\ io_left = [k \in Tasks |-> MaxIo]
    /\ read_errors = MaxReadErrors
    /\ stop_pc = "idle"

At(t, label) == pc[t] = label
Goto(t, label) == pc' = [pc EXCEPT ![t] = label]

(***************************************************************************)
(* post(): the push under mtx_, then, after the unlock, the eventfd write. *)
(***************************************************************************)
PushWork(k) ==
    /\ st[k] = "none"
    /\ work_queue' = Append(work_queue, k)
    /\ unsignalled' = unsignalled \cup {k}

(* Mutation of WriteEventfd: skip the write when the queue already had work. *)
WriteIfWasEmpty(k) ==
    /\ eventfd' = IF Len(work_queue) = 1 THEN eventfd + 1 ELSE eventfd
    /\ unsignalled' = unsignalled \ {k}

WriteEventfd(k) ==
    /\ eventfd' = eventfd + 1
    /\ unsignalled' = unsignalled \ {k}

(* A thread outside the pool posts a root task.  Nobody may use the pool   *)
(* once its destructor has begun.                                          *)
ClientPush(k) ==
    /\ k \in Roots
    /\ stop_pc = "idle"
    /\ PushWork(k)
    /\ st' = [st EXCEPT ![k] = "queued"]
    /\ UNCHANGED <<eventfd, stopVars, in_flight, lockVars, pc, cur, posting,
                   ready, kernVars, io_cq, on, joiner, io_left>>

ClientWrite(k) ==
    /\ k \in Roots \cap unsignalled
    /\ WriteEventfd(k)
    /\ UNCHANGED <<work_queue, stopVars, in_flight, lockVars, pc, cur, posting,
                   ready, kernVars, io_cq, fiberVars>>

(***************************************************************************)
(* The kernel.  A read of a semaphore eventfd takes one unit; a read can   *)
(* also fail.  An I/O operation completes in its own time, or because the  *)
(* pool's stop token cancelled it.                                         *)
(***************************************************************************)
KernelReadWork(t) ==
    /\ work_read[t] = "armed" /\ eventfd > 0
    /\ eventfd' = eventfd - 1
    /\ work_read' = [work_read EXCEPT ![t] = "done"]
    /\ UNCHANGED <<work_queue, unsignalled, stopVars, in_flight, lockVars, pc,
                   cur, posting, ready, read_errors, io_cq, fiberVars>>

KernelReadError(t) ==
    /\ work_read[t] = "armed" /\ read_errors > 0
    /\ read_errors' = read_errors - 1
    /\ work_read' = [work_read EXCEPT ![t] = "failed"]
    /\ UNCHANGED <<poolVars, stopVars, in_flight, lockVars, pc, cur, posting,
                   ready, io_cq, fiberVars>>

KernelIoDone(k) ==
    /\ st[k] = "io" /\ k \notin io_cq[on[k]]
    /\ io_cq' = [io_cq EXCEPT ![on[k]] = @ \cup {k}]
    /\ UNCHANGED <<poolVars, stopVars, in_flight, lockVars, pc, cur, posting,
                   ready, kernVars, fiberVars>>

KernelIoCancelled(k) == pool_stop /\ KernelIoDone(k)

(***************************************************************************)
(* The dispatcher: pick_next, and suspend_until when no fiber is ready.    *)
(***************************************************************************)
PickNext(t) ==
    /\ At(t, "sched") /\ ready[t] # <<>>
    /\ ready' = [ready EXCEPT ![t] = Tail(@)]
    /\ IF Head(ready[t]) = Main
       THEN Goto(t, "lock") /\ UNCHANGED <<cur, st>>
       ELSE /\ Goto(t, "fiber")
            /\ cur' = [cur EXCEPT ![t] = Head(ready[t])]
            /\ st' = [st EXCEPT ![Head(ready[t])] = "running"]
    /\ UNCHANGED <<poolVars, stopVars, in_flight, lockVars, posting, kernVars,
                   io_cq, on, joiner, io_left>>

HasCqe(t) == work_read[t] \in {"done", "failed"} \/ io_cq[t] # {}

SuspendUntil(t) ==
    /\ At(t, "sched") /\ ready[t] = <<>> /\ HasCqe(t)
    /\ Goto(t, "drain")
    /\ UNCHANGED <<poolVars, stopVars, in_flight, lockVars, cur, posting, ready,
                   kernVars, io_cq, fiberVars>>

(***************************************************************************)
(* drain_cqes(), one shared-memory access per step.  A work completion     *)
(* goes through check (running_), pop (work_queue_ under mtx_), launch and *)
(* rearm (running_ again); a failed read skips to rearm.                   *)
(***************************************************************************)
DrainWork(t) ==
    /\ At(t, "drain") /\ work_read[t] \in {"done", "failed"}
    /\ Goto(t, IF work_read[t] = "done" THEN "check" ELSE "rearm")
    /\ work_read' = [work_read EXCEPT ![t] = "off"]
    /\ UNCHANGED <<poolVars, stopVars, in_flight, lockVars, cur, posting, ready,
                   read_errors, io_cq, fiberVars>>

DrainIo(t, k) ==
    /\ At(t, "drain") /\ k \in io_cq[t]
    /\ io_cq' = [io_cq EXCEPT ![t] = @ \ {k}]
    /\ st' = [st EXCEPT ![k] = "ready"]
    /\ ready' = [ready EXCEPT ![t] = Append(@, k)]
    /\ UNCHANGED <<poolVars, stopVars, in_flight, lockVars, pc, cur, posting,
                   kernVars, on, joiner, io_left>>

DrainEnd(t) ==
    /\ At(t, "drain") /\ ~HasCqe(t)
    /\ Goto(t, "sched")
    /\ UNCHANGED <<poolVars, stopVars, in_flight, lockVars, cur, posting, ready,
                   kernVars, io_cq, fiberVars>>

CheckRunning(t) ==
    /\ At(t, "check")
    /\ Goto(t, IF running THEN "pop" ELSE "rearm")
    /\ UNCHANGED <<poolVars, stopVars, in_flight, lockVars, cur, posting, ready,
                   kernVars, io_cq, fiberVars>>

(* Mutation of PopWork: front() without pop(). *)
PeekWork(t) ==
    /\ At(t, "pop")
    /\ IF work_queue # <<>>
       THEN /\ cur' = [cur EXCEPT ![t] = Head(work_queue)]
            /\ st' = [st EXCEPT ![Head(work_queue)] = "popped"]
            /\ Goto(t, "launch")
       ELSE Goto(t, "rearm") /\ UNCHANGED <<cur, st>>
    /\ UNCHANGED <<poolVars, stopVars, in_flight, lockVars, posting, ready,
                   kernVars, io_cq, on, joiner, io_left>>

PopWork(t) ==
    /\ At(t, "pop")
    /\ IF work_queue # <<>>
       THEN /\ work_queue' = Tail(work_queue)
            /\ cur' = [cur EXCEPT ![t] = Head(work_queue)]
            /\ st' = [st EXCEPT ![Head(work_queue)] = "popped"]
            /\ Goto(t, "launch")
       ELSE Goto(t, "rearm") /\ UNCHANGED <<work_queue, cur, st>>
    /\ UNCHANGED <<eventfd, unsignalled, stopVars, in_flight, lockVars, posting,
                   ready, kernVars, io_cq, on, joiner, io_left>>

(* Mutation of LaunchFiber: the fetch_add is missing. *)
LaunchUncounted(t) ==
    /\ At(t, "launch")
    /\ st' = [st EXCEPT ![cur[t]] = "ready"]
    /\ on' = [on EXCEPT ![cur[t]] = t]
    /\ ready' = [ready EXCEPT ![t] = Append(@, cur[t])]
    /\ Goto(t, "rearm")
    /\ UNCHANGED <<poolVars, stopVars, lockVars, cur, posting, kernVars, io_cq,
                   joiner, io_left, in_flight>>

LaunchFiber(t) ==
    /\ At(t, "launch")
    /\ in_flight' = in_flight + 1
    /\ st' = [st EXCEPT ![cur[t]] = "ready"]
    /\ on' = [on EXCEPT ![cur[t]] = t]
    /\ ready' = [ready EXCEPT ![t] = Append(@, cur[t])]
    /\ Goto(t, "rearm")
    /\ UNCHANGED <<poolVars, stopVars, lockVars, cur, posting, kernVars, io_cq,
                   joiner, io_left>>

Rearm(t) ==
    /\ At(t, "rearm")
    /\ work_read' = [work_read EXCEPT ![t] = IF running THEN "armed" ELSE "off"]
    /\ Goto(t, "drain")
    /\ UNCHANGED <<poolVars, stopVars, in_flight, lockVars, cur, posting, ready,
                   read_errors, io_cq, fiberVars>>

(***************************************************************************)
(* A running fiber: the body of the task, then the epilogue launch_fiber   *)
(* wraps around it.  FiberSyncWait is post() followed by the wait of       *)
(* sync_wait; the child's completion wakes the waiter on its own thread.   *)
(***************************************************************************)
FiberIo(t) ==
    /\ At(t, "fiber") /\ io_left[cur[t]] > 0
    /\ st' = [st EXCEPT ![cur[t]] = "io"]
    /\ io_left' = [io_left EXCEPT ![cur[t]] = @ - 1]
    /\ Goto(t, "sched")
    /\ UNCHANGED <<poolVars, stopVars, in_flight, lockVars, cur, posting, ready,
                   kernVars, io_cq, on, joiner>>

FiberPush(t, c) ==
    /\ At(t, "fiber") /\ c \notin Roots
    /\ PushWork(c)
    /\ st' = [st EXCEPT ![c] = "queued"]
    /\ posting' = [posting EXCEPT ![t] = c]
    /\ Goto(t, "post")
    /\ UNCHANGED <<eventfd, stopVars, in_flight, lockVars, cur, ready, kernVars,
                   io_cq, on, io_left>>

FiberPost(t, c) == FiberPush(t, c) /\ UNCHANGED joiner

FiberSyncWait(t, c) ==
    /\ MaySyncWait
    /\ FiberPush(t, c)
    /\ joiner' = [joiner EXCEPT ![c] = cur[t]]

FiberWrite(t) ==
    /\ At(t, "post")
    /\ WriteEventfd(posting[t])
    /\ Goto(t, IF joiner[posting[t]] = cur[t] THEN "await" ELSE "fiber")
    /\ UNCHANGED <<work_queue, stopVars, in_flight, lockVars, cur, posting, ready,
                   kernVars, io_cq, fiberVars>>

FiberAwait(t) ==
    /\ At(t, "await")
    /\ IF st[posting[t]] \in {"returned", "done"}
       THEN Goto(t, "fiber") /\ UNCHANGED st
       ELSE Goto(t, "sched") /\ st' = [st EXCEPT ![cur[t]] = "waiting"]
    /\ UNCHANGED <<poolVars, stopVars, in_flight, lockVars, cur, posting, ready,
                   kernVars, io_cq, on, joiner, io_left>>

FiberReturn(t) ==
    LET p == joiner[cur[t]]
    IN  /\ At(t, "fiber")
        /\ IF p # None /\ st[p] = "waiting"
           THEN /\ st' = [st EXCEPT ![cur[t]] = "returned", ![p] = "ready"]
                /\ ready' = [ready EXCEPT ![on[p]] = Append(@, p)]
           ELSE st' = [st EXCEPT ![cur[t]] = "returned"] /\ UNCHANGED ready
        /\ Goto(t, "dec")
        /\ UNCHANGED <<poolVars, stopVars, in_flight, lockVars, cur, posting,
                       kernVars, io_cq, on, joiner, io_left>>

WasLast == in_flight = 1

FiberDec(t) ==
    /\ At(t, "dec")
    /\ in_flight' = in_flight - 1
    /\ st' = [st EXCEPT ![cur[t]] = "done"]
    /\ Goto(t, IF WasLast THEN "notify" ELSE "sched")
    /\ UNCHANGED <<poolVars, stopVars, lockVars, cur, posting, ready, kernVars,
                   io_cq, on, joiner, io_left>>

(***************************************************************************)
(* shutdown_cv_.notify_all(): every queued main fiber becomes ready.  The  *)
(* last fiber calls it without holding shutdown_mtx_.                      *)
(***************************************************************************)
NotifyAll ==
    /\ shutdown_cv' = {}
    /\ ready' = [t \in Threads |-> IF t \in shutdown_cv
                                   THEN Append(ready[t], Main) ELSE ready[t]]

FiberNotify(t) ==
    /\ At(t, "notify")
    /\ NotifyAll
    /\ Goto(t, "sched")
    /\ UNCHANGED <<poolVars, stopVars, in_flight, shutdown_mtx, mtx_waiters, cur,
                   posting, kernVars, io_cq, fiberVars>>

(***************************************************************************)
(* The main fiber of worker(): lock, evaluate the predicate with the mutex *)
(* held, and either leave or queue on shutdown_cv_, which releases the     *)
(* mutex in the same step.  After a notification it locks again.           *)
(***************************************************************************)
UnlockMtx ==
    /\ shutdown_mtx' = Free
    /\ mtx_waiters' = IF mtx_waiters = <<>> THEN <<>> ELSE Tail(mtx_waiters)
    /\ ready' = IF mtx_waiters = <<>> THEN ready
                ELSE [ready EXCEPT ![Head(mtx_waiters)] = Append(@, Main)]

MainLock(t) ==
    /\ At(t, "lock")
    /\ IF shutdown_mtx = Free
       THEN shutdown_mtx' = t /\ Goto(t, "eval") /\ UNCHANGED mtx_waiters
       ELSE /\ mtx_waiters' = Append(mtx_waiters, t)
            /\ Goto(t, "sched")
            /\ UNCHANGED shutdown_mtx
    /\ UNCHANGED <<poolVars, stopVars, in_flight, shutdown_cv, cur, posting,
                   ready, kernVars, io_cq, fiberVars>>

(* Mutation of DrainedPredicate: the fibers in flight are not waited for. *)
StoppedPredicate == ~running

DrainedPredicate == ~running /\ in_flight = 0

MainExit(t) ==
    /\ At(t, "eval") /\ DrainedPredicate
    /\ Goto(t, "exited")
    /\ UnlockMtx
    /\ UNCHANGED <<poolVars, stopVars, in_flight, shutdown_cv, cur, posting,
                   kernVars, io_cq, fiberVars>>

MainMustWait(t) ==
    /\ At(t, "eval") /\ ~DrainedPredicate
    /\ Goto(t, "enqueue")
    /\ UNCHANGED <<poolVars, stopVars, in_flight, lockVars, cur, posting, ready,
                   kernVars, io_cq, fiberVars>>

MainEnqueue(t) ==
    /\ At(t, "enqueue")
    /\ shutdown_cv' = shutdown_cv \cup {t}
    /\ Goto(t, "sched")
    /\ UnlockMtx
    /\ UNCHANGED <<poolVars, stopVars, in_flight, cur, posting, kernVars, io_cq,
                   fiberVars>>

(***************************************************************************)
(* ~fiber_pool: stop(), then the joins.  Posting threads have returned     *)
(* from post() by then, as no other use of an object may overlap its       *)
(* destructor.                                                             *)
(***************************************************************************)
StopRequest ==
    /\ stop_pc = "idle" /\ Roots \cap unsignalled = {}
    /\ pool_stop' = TRUE
    /\ stop_pc' = "lock"
    /\ UNCHANGED <<poolVars, running, in_flight, lockVars, pc, cur, posting,
                   ready, kernVars, io_cq, fiberVars>>

StopLock ==
    /\ stop_pc = "lock" /\ shutdown_mtx = Free
    /\ shutdown_mtx' = Stopper
    /\ stop_pc' = "store"
    /\ UNCHANGED <<poolVars, running, pool_stop, in_flight, mtx_waiters,
                   shutdown_cv, pc, cur, posting, ready, kernVars, io_cq,
                   fiberVars>>

StopStore ==
    /\ stop_pc = "store"
    /\ running' = FALSE
    /\ stop_pc' = "notify"
    /\ UNCHANGED <<poolVars, pool_stop, in_flight, lockVars, pc, cur, posting,
                   ready, kernVars, io_cq, fiberVars>>

StopNotify ==
    /\ stop_pc = "notify"
    /\ NotifyAll
    /\ stop_pc' = "unlock"
    /\ UNCHANGED <<poolVars, running, pool_stop, in_flight, shutdown_mtx,
                   mtx_waiters, pc, cur, posting, kernVars, io_cq, fiberVars>>

StopUnlock ==
    /\ stop_pc = "unlock"
    /\ UnlockMtx
    /\ stop_pc' = "join"
    /\ UNCHANGED <<poolVars, running, pool_stop, in_flight, shutdown_cv, pc, cur,
                   posting, kernVars, io_cq, fiberVars>>

StopJoin ==
    /\ stop_pc = "join"
    /\ \A t \in Threads : At(t, "exited")
    /\ stop_pc' = "joined"
    /\ UNCHANGED <<poolVars, running, pool_stop, in_flight, lockVars, pc, cur,
                   posting, ready, kernVars, io_cq, fiberVars>>

(* The pool is gone: nothing happens any more. *)
Destroyed == stop_pc = "joined" /\ UNCHANGED vars

Drain(t) == SuspendUntil(t) \/ DrainWork(t) \/ DrainEnd(t) \/ CheckRunning(t)
            \/ PopWork(t) \/ LaunchFiber(t) \/ Rearm(t)
            \/ \E k \in Tasks : DrainIo(t, k)
Fiber(t) == FiberIo(t) \/ FiberWrite(t) \/ FiberAwait(t) \/ FiberReturn(t)
            \/ FiberDec(t) \/ FiberNotify(t)
            \/ \E c \in Tasks : FiberPost(t, c) \/ FiberSyncWait(t, c)
MainFiber(t) == MainLock(t) \/ MainExit(t) \/ MainMustWait(t) \/ MainEnqueue(t)

ThreadStep(t) == PickNext(t) \/ Drain(t) \/ Fiber(t) \/ MainFiber(t)
StopAction == StopLock \/ StopStore \/ StopNotify \/ StopUnlock \/ StopJoin

Next ==
    \/ \E k \in Tasks : ClientPush(k) \/ ClientWrite(k) \/ KernelIoDone(k)
    \/ \E t \in Threads : KernelReadWork(t) \/ KernelReadError(t) \/ ThreadStep(t)
    \/ StopRequest \/ StopAction \/ Destroyed

Spec == Init /\ [][Next]_vars

(***************************************************************************)
(* Fairness.  The operating system runs every thread, a pending eventfd    *)
(* read is served while the counter is positive, and a stopped pool's I/O  *)
(* is cancelled.  Nothing obliges a client to post, I/O to complete on its *)
(* own, or anyone to destroy the pool.                                     *)
(***************************************************************************)
Fairness ==
    /\ \A t \in Threads : WF_vars(ThreadStep(t)) /\ WF_vars(KernelReadWork(t))
    /\ \A k \in Tasks : WF_vars(ClientWrite(k)) /\ WF_vars(KernelIoCancelled(k))
    /\ WF_vars(StopAction)

FairSpec == Spec /\ Fairness

-----------------------------------------------------------------------------
(***************************************************************************)
(* Every unit of the eventfd, and every thread that holds one (a work      *)
(* completion not yet drained, or drained and not yet spent), stands for   *)
(* its own queued task: post() pushes before it writes, drain_cqes() pops  *)
(* once per unit.  So a wakeup never finds work_queue_ empty.  While the   *)
(* pool runs the correspondence is exact, a post() caught between push and *)
(* write included: no queued task is left without a wakeup.  Nor does any  *)
(* thread go back to its fibers, or to wait, without a read of the eventfd *)
(* armed, also after a read that failed.                                   *)
(***************************************************************************)
TokenHolders == {t \in Threads : work_read[t] = "done" \/ pc[t] \in {"check", "pop"}}
Wakeups == eventfd + Cardinality(TokenHolders) + Cardinality(unsignalled)
Balanced ==
    /\ Wakeups <= Len(work_queue)
    /\ running => Wakeups = Len(work_queue)
ReadsArmed ==
    running => \A t \in Threads :
        work_read[t] = "off" => pc[t] \in {"check", "pop", "launch", "rearm"}
TokenAccounting == Balanced /\ ReadsArmed

(***************************************************************************)
(* in_flight_ counts exactly the fibers launched whose epilogue has not    *)
(* run, whichever thread launched them.                                    *)
(***************************************************************************)
InFlightCounts == in_flight = Cardinality(LiveFibers)

(***************************************************************************)
(* worker() returns, and with it the thread's ring and its scheduler go,   *)
(* only after the pool was stopped and when every fiber launched on that   *)
(* thread has finished; none is launched on it later.                      *)
(***************************************************************************)
SafeExit ==
    \A t \in Threads : pc[t] = "exited" =>
        ~running /\ \A k \in Tasks : on[k] = t => st[k] = "done"

(***************************************************************************)
(* Every task is in one place at a time: once in work_queue_, or popped by *)
(* one thread, or a fiber that is in its own thread's ready queue once, in *)
(* that thread's ring, or running on that thread.  Moving tasks between    *)
(* the queue, drain_cqes() and the schedulers neither loses nor doubles    *)
(* one, and a fiber never leaves the thread that launched it.              *)
(***************************************************************************)
QueuedOnce ==
    \A i \in 1..Len(work_queue) :
        /\ st[work_queue[i]] = "queued"
        /\ \A j \in 1..Len(work_queue) : work_queue[i] = work_queue[j] => i = j

ReadyOnce ==
    \A t \in Threads : \A i \in 1..Len(ready[t]) :
        ready[t][i] # Main =>
            /\ st[ready[t][i]] = "ready" /\ on[ready[t][i]] = t
            /\ \A j \in 1..Len(ready[t]) : ready[t][i] = ready[t][j] => i = j

InOwnRing == \A t \in Threads : \A k \in io_cq[t] : st[k] = "io" /\ on[k] = t

RunsOn(t, state) == cur[t] \in Tasks /\ st[cur[t]] = state /\ on[cur[t]] = t
RunningOnce ==
    \A t \in Threads :
        /\ pc[t] \in {"fiber", "post", "await"} => RunsOn(t, "running")
        /\ pc[t] = "dec" => RunsOn(t, "returned")
        /\ pc[t] = "launch" =>
              /\ cur[t] \in Tasks /\ st[cur[t]] = "popped"
              /\ \A u \in Threads : pc[u] = "launch" /\ cur[u] = cur[t] => u = t

Hosted ==
    \A k \in Tasks : /\ st[k] \in LiveStates => on[k] \in Threads
                     /\ on[k] # None => st[k] \in LiveStates \cup {"done"}

PostedOnce ==
    /\ \A k \in unsignalled : st[k] # "none"
    /\ \A t \in Threads : pc[t] = "post" =>
          /\ posting[t] \in unsignalled /\ posting[t] \notin Roots
          /\ \A u \in Threads : pc[u] = "post" /\ posting[u] = posting[t] => u = t

OnePlace == QueuedOnce /\ ReadyOnce /\ InOwnRing /\ RunningOnce /\ Hosted /\ PostedOnce

(* Every task posted to a running pool gets its fiber. *)
PostedTaskStarts ==
    \A k \in Tasks : st[k] = "queued" ~> (st[k] # "queued" \/ pool_stop)

(* context.hpp: the destructor drains the fibers in flight and joins every *)
(* worker thread.                                                          *)
ShutdownCompletes == pool_stop ~> stop_pc = "joined"

(***************************************************************************)
(* The pool does what TaskPool promises: a task starts at most once and    *)
(* only after it was posted, every task that ~fiber_pool finds started has *)
(* finished when it has joined the workers, and nothing moves after that.  *)
(***************************************************************************)
AbstractStatus(k) ==
    CASE st[k] = "none" -> "new"
      [] st[k] \in {"queued", "popped"} -> "posted"
      [] st[k] \in LiveStates -> "started"
      [] st[k] = "done" -> "finished"
Status == [k \in Tasks |-> AbstractStatus(k)]
Phase == IF stop_pc = "idle" THEN "open"
         ELSE IF stop_pc = "joined" THEN "destroyed" ELSE "closing"
Abstract == INSTANCE TaskPool WITH status <- Status, phase <- Phase
ImplementsTaskPool == Abstract!Spec
=============================================================================
