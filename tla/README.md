# Verification of fiberexec

TLA+ models of the runtime of fiberexec (fibers, io_uring and senders), the TLC
configurations that check them on small instances, and TLAPS proofs about every
modelled component, for every size. Paths are relative to the repository;
`PROJECT.json` maps every definition to the lines it models.

## The system

| Part | State | Operations | Module |
|---|---|---|---|
| `fiber_pool` (`src/fiber_context.cpp`) | `work_queue_`, the semaphore eventfd, `running_`, `in_flight_`, `shutdown_mtx_`, `shutdown_cv_` | `post`, `stop`, destructor, `worker` | `FiberPool`, promise in `TaskPool` |
| `io_uring_scheduler` | `ready_`, the ring, the reads of the two eventfds | `pick_next`, `suspend_until`, `drain_cqes`, `launch_fiber`, `notify` | `FiberPool`, `IoCancel` |
| fiber I/O (`submit_and_wait`, timed, linked; `async_io.cpp`) | awaitables on the fiber's stack, SQEs, CQEs | submit, register and remove stop callbacks, wait | `IoCancel` |
| cancellation | `cancel_queue_`, `notify_fd_`, stop sources | `request_cancel`, `flush_cancel_queue`, `arm_notify` | `IoCancel` |
| `multishot_recv` | `pending_`, `waiter_`, `error_`, the buffer ring | `complete`, `next`, release of a buffer, destructor | `MultishotRecv`, promise in `ResultStream` |
| `multishot_acceptor` | `pending_fds_`, `waiter_`, `error_` | `complete`, `next`, destructor | `MultishotAcceptor`, promise in `ResultStream` |
| bulk (`detail/fiber_bulk.hpp`) | countdown, `has_error`, first error | fan-out, countdown, completion | `FiberBulk`, promise in `SenderContract` |
| `sync_wait` | mutex, condition variable, `done`, result | wait, the receiver's completions | `FiberBulk`, `FiberPool` |
| `schedule`, `run` senders | operation state, `fiber_stop_`, `stop_cb_` | `start`, the fiber, the stop bridge, destruction | `RunSender`, promise in `SenderContract` |
| `channel` | the ring, closed | `push`, `try_push`, `pop`, `close` | `Channel` |
| `fixed_buffer_pool`, `async_send_zc`, `fixed_fd_table` | free lists, handles, the kernel's table, zero-copy sends | borrow, move, return, send, the completions, `worker()` building and destroying them | `FixedResources` |
| servers of `examples/` | listener, `conn_ch`, connections | accept loop, workers, clients, shutdown | `EchoServers` |
| `task` | | | not modelled |

How they interact: a sender's `start` posts a task; the eventfd write wakes one
ring; its thread pops the task in `drain_cqes` and launches a fiber. A fiber that
does I/O suspends on a promise that `drain_cqes` fulfils on the same thread. Stop
requests come from other threads and reach the ring through `cancel_queue_` and
the notify eventfd. The destructor stops the pool, waits until the main fibers
have seen `in_flight_ = 0`, and joins.

What is hard: two threads share the queue and the eventfd outside one critical
section; the shutdown handshake mixes an atomic counter with a condition variable;
the kernel holds pointers into fiber stacks, which are used again; cancels race
completions; multishot operations complete after the owner lost interest. The
full list is under `hazards` in `PROJECT.json`.

## Modules

**FiberPool.** `pc[t]` is the point of thread `t` between two accesses to shared
memory: dispatcher and drain loop (`sched`, `drain`, `check`, `pop`, `launch`,
`rearm`), a fiber (`fiber`, `post`, `await`, `dec`, `notify`) or the main fiber of
`worker` (`lock`, `eval`, `enqueue`, `exited`). `post` is two steps, push and
write, because the write is outside `mtx_`. A task and its fiber share an
identity; `st` and `on` say where it is. A task's body may do I/O, post, wait in
`sync_wait`, and return.

**TaskPool** is the promise: a task starts at most once and after its post; a
started task finishes before the pool is destroyed; nothing moves afterwards.
`FiberPool!ImplementsTaskPool` is the refinement (status from `st`, phase from
`stop_pc`).

**IoCancel.** One worker, since rings share nothing, against the threads that call
`request_stop`. A fiber is named by its stack, so that the addresses of awaitables
repeat. Operations are `plain`, `close`, `timed` or `linked` (two SQEs, as all
chains of `async_io.cpp`). The kernel contract: a pending operation may wait for
ever and can be cancelled; a running one completes and answers a cancel with
`-EALREADY`; a linked one not yet started answers `-ENOENT`. An `async_sleep_for`
of no time is an operation without an SQE (`SleepNoTime`). `Reported` is the result
the caller of an operation sees: of a chain, the first one that is not a success.
`LaunchFiber` makes one assumption about the kernel: the submit in `arm_work_efd`,
which follows every launch, is a system call, and posts the completion of a notify
read that has something to read (`NotifyDue`). `drain_cqes` loops until no
completion is left, so the cancels queued before a launch are flushed before the new
fiber runs.

**MultishotRecv**, **MultishotAcceptor.** One object, its fiber and the kernel.
`complete` may run whenever the fiber is suspended, also several times between the
wakeup of the fiber and its next step. Messages and sockets are numbered in order
of arrival. For the acceptor the kernel ends an accept with `-EINVAL` once the
socket was shut down, by the destructor or by the program.

**ResultStream** is what both multishot objects promise their user: results are
numbered as the kernel produces them, and `next()` hands them over one by one in
that order, none twice, none skipped, none before it exists and none once the
destructor has started. `ImplementsStream` in both modules is the refinement (the
number of the last message returned, and of the last socket the user got).

**FiberBulk.** `sync_wait(schedule | bulk)`: the posting loop, one fiber per index,
the countdown and the waiter, each at its own accesses.

**SenderContract** is what an operation state promises its receiver: at most one
completion, after `start`, and no destruction between the two. `RunSender` and
`FiberBulk` implement it (`ImplementsContract` in both); the phase is read off the
program counters and the signal off what the receiver was sent.

**RunSender.** Operations of `run` and `schedule` whose receivers share a stop
source, as the children of a `when_all` do. `start` is three steps (the source,
the callback, the post) and races `request_stop`, which takes the callbacks one by
one and runs each in two steps, and the owner, whose `Destroy` waits for a callback
in progress, as the destructor of `stop_cb_` does. `state` is the shared state
behind `fiber_stop_`, `tok` whether the fiber has a token of it. What a stopped
token does to a wait is in `IoCancel`. A wait that registers no stop callback is a
`DeafWait`: `async_send_zc`, a suspended `next()`, `pop` of a channel, and the second
operation of a chain whose first was executing when the stop came.

**Channel.** The queue with the capacity that
`boost::fibers::buffered_channel` gives it: a ring of `bit_ceil(capacity + 1)`
slots, one of which stays empty. An operation that suspends is one that is not
enabled. `FixedResources` uses it for both free lists and `EchoServers` for
`conn_ch`.

**FixedResources.** One worker thread: `worker()` builds both pools, its fibers
borrow, move and return handles and send with `async_send_zc`, the kernel delivers
one or two completions per send, and `worker()` destroys the pools when no fiber is
left. The destructor of `fd_slot` and its move assignment are `noexcept`, so a clear
that throws there ends the program (`ReleaseTerminates`). Fibers are cooperative, so an action goes from one suspension to the next. An
exception ends the fiber's function (`unwind`) and destroys its handles.

**EchoServers.** The three servers with a worker pool, one `kind` each: accept loop,
channel, workers and clients, composed with `Channel` and with what the other
modules establish (a stop ends `async_accept` and `async_recv`, and does not end a
suspended `next()` or `pop`). The first child of the `when_all` that fails stops
the others.

`MCFiberPool` and `MCIoCancel` give the constants for TLC; the other modules take
numbers and sets of model values from their configurations and are run directly.

## Runs

| Run | Checks | Shows |
|---|---|---|
| `FiberPool` | types, `TokenAccounting`, `InFlightCounts`, `SafeExit`, `OnePlace`, `ImplementsTaskPool` | two threads, three tasks, one posted from a fiber that may wait for it, a failing eventfd read |
| `FiberPoolLive` | `PostedTaskStarts` | no lost wakeup of a post; fibers do I/O |
| `IoCancel` | types, `AwaitableAlive`, `OnlyAskedCancelled`, `QueuedCancelHasWakeup`, `StopEndsTheWait` | one stack used by two fibers, all kinds of operation, pool and fiber stops, a queue of three SQEs, a failing submit |
| `MultishotRecv` | `BufferOnce`, `MessagesInOrder`, `OutlivesUnlessStopped`, `WaiterIsServed`, `ImplementsStream`, `DestructorReturns` | four messages, two buffers, stops, null SQEs, re-arming |
| `MultishotAcceptor` | `SocketsInOrder`, `NoSocketLeaks`, `ObjectOutlivesAccept`, `WaiterIsServed`, `ImplementsStream`, `DestructorReturns` | four sockets, stops, shutdowns, a failing close, null SQEs |
| `FiberBulk` | `OpOutlivesFibers`, `CompletesOnce`, `ResultIsFaithful`, `ImplementsContract`, `SyncWaitReturns` | up to four indices, any of which may throw |
| `RunSender` | `ForwarderTargetAlive`, `StopOnItsWay`, `ImplementsContract`, `StopEndsTheFiber` | two operations of either kind on one stop source, two waits each |
| `FixedResources` | `OnePlace`, `KernelBufferIsHeld`, `TableFollowsHandles`, `BorrowerIsServed` | two fibers, two or four buffers (asked for as one or three), two slots, one failing system call |
| `EchoServers` | `ConnectionsClosedOnce`, `EveryClientServed`, `SyncWaitReturns` | three clients, two workers, one failing operation, the three servers |

Three runs end in a counterexample, each a place where the code does not do what
its documentation or comments say (`findings` in `PROJECT.json` has the quotes):

| Run | Property | What happens |
|---|---|---|
| `FiberPoolShutdown` | `ShutdownCompletes` | the last `notify_all` falls between a main fiber's test and its wait |
| `FiberPoolSyncWait` | `ShutdownCompletes` | a queued task a fiber waits for is dropped at stop |
| `MultishotRecvStop` | `ObjectOutlivesReceive` | a stop sets `error_` while the SQE is armed |

Some properties of the passing runs carry an exception, and TLC refutes them
without it:

- The last conjunct of `MessagesInOrder` and of `SocketsInOrder` (an end is reported
  only when nothing that arrived is left) excludes stop requests: `next()` then sets
  `error_` itself and reports an end at once, and messages or sockets that are in the
  completion queue, or arrive later, come after it.
- `ObjectOutlivesAccept` and `NoSocketLeaks` exclude stop requests, for the reason
  of `MultishotRecvStop`, and an `async_close` that throws, which ends the
  destructor's drain before the accept has terminated.
- `WaiterIsServed` (both modules) and the acceptor's `DestructorReturns` exclude a
  re-arm that found no SQE: `complete()` then tells nobody.
- `DestructorReturns` of `MultishotRecv` speaks of a receive that has ended, and of
  behaviours without a missing SQE in which the destructor's loop drains no data that
  arms the receive again. If the receive ended with data just before the cancel, the
  cancel finds nothing, `complete()` arms it again, and the destructor waits for the
  peer.
- `AwaitableAlive` and `OnlyAskedCancelled` hold up to the first submit that fails:
  after it the SQE stays queued with the address of an awaitable that is gone.
- `QueuedCancelHasWakeup` excludes a crashed worker, which drains no more. (It takes
  three operations of a fiber and two failing submits to need this; the run has
  fewer.)
- `StopEndsTheWait` excludes a failed submit and a crashed worker: when cancels fill
  the ring, `arm_notify` writes through a null SQE.
- It excludes a chain whose first operation succeeded. If that one was executing when
  the stop came, its cancel is answered with `-EALREADY` and the second one's, not
  started yet, with `-ENOENT`; nothing cancels the second. That is the only case: a
  cancel that is queued while its operation is in flight ends it, in a chain too. `include/fiberexec/detail/fiber_ops.hpp` (83-84) says that
  "the in-flight op returns -ECANCELED and the kernel cascades -ECANCELED".
- `StopEndsTheFiber` excludes a fiber that stays in a `DeafWait` for ever.
- `OnePlace` and `BorrowerIsServed` of `FixedResources` set aside the slots popped by
  an `acquire_fd_slot` whose install threw: no `fd_slot` owns them, and they never
  come back. After as many failures as there are slots a fiber waits although none
  is in use (`include/fiberexec/fixed_fd_table.hpp`, 110-111, says "if all slots are
  currently in use").
- `BorrowerIsServed` also excludes a hold-and-wait: a handle that is assigned a new
  buffer keeps the old one while it waits, so fibers that all do this wait for each
  other.
- `KernelBufferIsHeld` excludes a send that a failed submit left in the ring: the
  buffer is returned with the handle, and the next submit sends from it.
- `ConnectionsClosedOnce` allows a worker that ended with an exception to leave its
  connection open: `async_openat` in `echo_to_file` and `async_close` in two of the
  servers are outside the `try`.
- `SyncWaitReturns` of `EchoServers` excludes `echo_server_pool` after an accept that
  failed for a reason other than the shutdown (the loop ends without an error, and
  nobody stops the clients that wait for an echo) and `echo_server_multishot` after
  a stop (nobody wakes the accept loop in `next()`; and if `next()` throws,
  `conn_ch.close()` is skipped).

A fiber suspended in `next()` of either multishot object is not woken by a stop:
the token is tested only before it suspends. That is one of the waits that
`StopEndsTheFiber` excludes, and for `multishot_acceptor` the last exception above.
Comments that
differ from the code without a run of their own: `channel{4}` and `channel{8}` have
7 and 15 usable slots, not the 3 and 7 of `examples/channel_backpressure.cpp` and
`examples/echo_server_pool.cpp`; `echo_to_file` shuts the listener after the
connection with the last id, which need not be the last one written ("after all
data is on disk"), and `EveryClientServed` shows that nothing is lost by it;
`echo_server_multishot` says that `next()` throws at the shutdown, and it returns
`nullopt`.

All of these are results about the models. None has been reproduced by running
the program; the failures of `io_uring_submit`, `io_uring_get_sqe` and
`async_close` are allowed by the code's own error paths, and how often a kernel
produces them is not part of the model.

**Bounds.** Two threads are enough for a race over a token, a task and the
handshake; the third task lets a fiber post while both threads are busy. Two
fibers on one stack let the addresses of awaitables be used again while cancels for
the first are on their way. A ring of three entries lets it fill. Four
messages over two buffers let the buffers run out and come back; up to four
sockets span a promise, the queue and a completion at once. Two
operations on one stop source let one be destroyed while the other's callback runs.
Two fibers over two buffers and two slots let every resource be held and waited for,
and counts of one and three exercise the rounding. In `EchoServers` the channel has
room for all clients, as in the programs; the proofs also cover smaller channels for
`pool` and `multishot`, where `push` may block (for `file` they would not do: its
workers may all have left when the loop pushes). Constants named `Max...` bound
counters, and nothing else is cut off. The run `FiberPool` has no I/O; the proofs
below cover it. It is taken up to permutations of the threads and of the tasks that
clients post, which `FiberPool` never tells apart; it checks safety only.

**Deadlock** is not checked by TLC: the programs end (an object is gone,
`sync_wait` or all fibers returned), and the two-thread pool really can stop, as
`FiberPoolShutdown` shows. The liveness properties say what must not stop.

**Fairness.** Weak fairness of each thread (the operating system runs it), of a
served eventfd read, of a thread inside `request_stop`, of an operation the kernel
is executing, of the cancel of a stopped pool's I/O, and of the end of an accept
on a socket that was shut down. In `FiberBulk` the lock is strongly fair, since
waiters on the fiber mutex are queued. In `RunSender` a wait with a stop callback
ends when its token is stopped (`StopEndsTheWait` of `IoCancel`), nothing is assumed
of a `DeafWait`, and `fn` does not compute for ever. In
`FixedResources` fibers do not use a resource for ever and peers read what is sent,
so zero-copy sends complete. In `EchoServers` the loopback network delivers and no
failure is assumed to come. Apart from that nothing is assumed of clients, of peers or
of pending I/O.

## Proofs

Every safety property of the passing runs, the refinements included, is a theorem
for every value of the constants. Each `...Proofs` module has one inductive
invariant (`IInv`), one lemma per part of it, and theorems that are consequences.
TLC checked each invariant on the constants of the run before it was proved. A
module begins with the facts it needs about sequences used as queues: what a push
and a pop do to the elements, their number and their distinctness.

| Module | For any | Theorems |
|---|---|---|
| `FiberPoolProofs` | finite sets of threads and tasks, all bounds | `TypeCorrect`, `WakeupsMatchWork`, `InFlightIsExact`, `TasksInOnePlace`, `WorkersExitSafely`, `Refinement` |
| `IoCancelProofs` | stacks, fibers, operations, failing submits, a queue of two SQEs or more | `TypeCorrect`, `AwaitablesOutlive`, `CancelledOnRequest`, `CancelsWoken` |
| `MultishotRecvProofs` | buffers, messages, null SQEs | `TypeCorrect`, `BuffersInOnePlace`, `InOrder`, `StreamRefinement`, `ObjectOutlives`, `WaitersServed` |
| `MultishotAcceptorProofs` | sockets, failing closes, null SQEs | `TypeCorrect`, `InOrder`, `StreamRefinement`, `NothingLeaks`, `ObjectOutlives`, `WaitersServed` |
| `FixedResourcesProofs` | fibers, buffers, slots, uses, failures | `ResourcesInOnePlace`, `SendsHoldBuffers`, `TableFollows` |
| `RunSenderProofs` | operations and waits | `RunTypeCorrect`, `ForwarderIsSafe`, `StopIsNotLost`, `RunRefinement` |
| `FiberBulkProofs` | indices | `BulkTypeCorrect`, `OpIsOutlived`, `CompletionIsUnique`, `SyncWaitIsFaithful`, `BulkRefinement` |
| `EchoServersProofs` | finite set of clients, any workers, capacities and failures | `ConnectionsOwned`, `ClientsServed` |

**FiberPool** (`PoolAssumption`, `NamesAreDistinct`). The inductive invariant is the
five invariants of the run with two more facts. `TokenAccounting` has two halves:
`Balanced` counts the wakeups against the queue, and `ReadsArmed` says that a thread
of a running pool goes on with its read of the eventfd armed, also after one that
failed. `OneReadPerThread`: a thread between
the drain of a work completion and the re-arm has no read pending, or one thread
could hold two tokens and the count over threads would be wrong. `JoinedThreads`:
once the destructor has joined, all threads have exited. `OnePlace` carries the
argument: that a task is in one place makes `in_flight_` change by exactly one with
each launch and epilogue; that makes the predicate of `worker` mean "no live fiber",
which gives `SafeExit`; and `SafeExit` with `JoinedThreads` gives the destroy step
of `Refinement` (`Spec => ImplementsTaskPool`). Most steps are shown to be quiet
(they move no task) once, in `QuietStepsAreQuiet`.

**IoCancel** (`RingAssumption`; `fiber_context.cpp` has 256 entries). Nothing about
a cancel can be proved of one queue alone, since it travels from a stop source
through `cancel_queue_` to the kernel, and names a stack that may meanwhile have a
new fiber. `Callbacks` says which callbacks are registered by where the fiber
stands, and that the fiber of an executing one is still in the call that owns it
(the destructor of `stop_callback` waits). `Clean` then says that no cancel is
queued for a fiber that was not asked to stop, save one launched by the `drain_cqes`
in progress, which flushes the queue before that fiber runs. It makes
`OnlyAskedCancelled` inductive, through `Justified`, which says the same of
operations whose completion is still in the kernel. `Tokens` gives
every queued cancel a wakeup, one that is out or that of the thread which pushed it; `RingShape`
says that the notify read is armed or completed until a submit fails; `Alive` and
`OneAtATime` give `AwaitableAlive`.

**MultishotRecv** (`RecvAssumption`). `QueueShape`: a completion without `IORING_CQE_F_MORE` is the
last in the queue, and then the SQE is off. It links the queue to the kernel, and
makes `ErrorIsFinal` (`error_` without a stop means that the receive is over and
drained) and `LiveIsServed` inductive; the destructor leaves its loop only with
`error_` set (`FreesAfterError`), so the object outlives the receive. `Places`
splits the buffers among the ring, the completions, `pending_` and the user;
`Numbered` numbers the messages through both queues; with it, a message that
`next()` returns is the one after the last, which is the only step of
`StreamRefinement` (`Spec => ImplementsStream`) that is not read off the action.

**MultishotAcceptor** (`AcceptAssumption`). The same first three, `PromiseShape` (the promise holds a
result only until `next()` returns it), `DestructorShape` (what the destructor is
closing and how it may end) and `Line`: the sockets stand in one line, those with
the user, those closed, the one on its way, those queued and those completed. A move
of a socket is a move of one of the boundaries, so that order and absence of leaks
are one fact. `Line` is given up when a close throws. `StreamRefinement` has two
hand-over steps, from the queue and through the promise (lemma `UserTakes`).

**FixedResources** (`CountAssumption`). `Split` says of each pool that the free list
and the handles share the indices between them: those pushed so far while the
constructor runs (`BufsIn`, `SlotsIn`), later all but the lost slots. Each operation
is one lemma about `Split`, used for both pools (`SplitPop`, `SplitHold`,
`SplitReturn`, `SplitMove`, ...). `SendsOwned` adds that a fiber has one send at
most, without which the end of one could wake the fiber while another still reads, and
`TableOwned` states the agreement of table and handles from both sides.
`CountAssumption` says that worker() builds a table only of a capacity above zero
(`fiber_context.cpp`, 534) and what needs induction over powers of two: `bit_ceil`
of a count exists, and the ring of a channel holds the capacity asked for. TLC
evaluates it for the counts of the run.

**RunSender** (`RunAssumption`). The inductive invariant adds `Life` to the
invariants of the run: a fiber exists exactly once `start` has posted it, a signal
has been sent exactly when the fiber is far enough for its kind, a state is
destroyed only before `start` or after its signal, and a started operation under a
stoppable token has a source. The third fact makes `ForwarderTargetAlive` inductive:
a callback is registered only between `start` and the signal, so only `Destroy`,
which removes it and waits for it, could leave it dangling. The last makes
`StopOnItsWay` inductive: `request_stop` on a source without a state would be
ignored. `RunRefinement` is `Spec => ImplementsContract`.

**FiberBulk** (`ShapeAssumption`). The inductive invariant has four parts besides
the types. `Posting`: which fibers exist follows from how far the posting loop is.
`Counting`: `remaining` is the cardinality of `Pending`, the indices not posted or
not counted down, so zero means that all have ended (lemma `Quiet`) and exactly one
fiber brings it there. `Completion`: a fiber that completes has seen zero, there is
one of them, and `done` is set only by it. `Errors`: whoever threw is caught, is
storing its exception, or has left that to the fiber that claimed `has_error`, so at
zero `error` holds an exception that was thrown. `BulkRefinement` is `Spec =>
ImplementsContract`.

**EchoServers** (`ServerAssumption`: finitely many clients, and `Nobody` is neither
a client nor a worker). A connection is unconnected, in the backlog, with the accept
loop, in `conn_ch`, with a worker or closed, and `OneOwner` says that these six are
disjoint and that no queue and no two workers have it twice; a step that moves a
connection moves it to the next stage (lemma `Passes`). `Standing` says what loop and
workers hold by where they stand, and that a worker leaves only when the channel is
closed and empty. The two give `ConnectionsOwned`. `ClientsServed` needs two counts.
`Counted`: in `echo_to_file` the ids given out are as many as the connections taken
by workers, so the last id is given when all have been taken. `Tallied`: in the
other two at most as many clients have counted themselves as are done, so the last
one to count is the last client. `Orderly` speaks of runs without a failure: a
connection is closed only when its client is done and was served, and the loop ends
only after the shutdown. At the end workers hold nothing, so all that was taken has
been closed, and the counts say that this is everything. The first conjunct of
`EveryClientServed` (no client finds the listener shut) needs no `Orderly`, so it
holds after failures too.

Only model-checked: the liveness properties `PostedTaskStarts`, `StopEndsTheWait`,
`DestructorReturns`, `SyncWaitReturns`, `StopEndsTheFiber` and `BorrowerIsServed`
(they need fairness, which is outside the prover's reach), and what `bit_ceil`
returns for every argument (an induction, taken as `CountAssumption`).

## Not modelled

- Timed suspension in the scheduler (`abs_time`): nothing in the repository sleeps
  through it.
- Constructors that fail, and thread creation.
- The branch of `run` for `forced_unwind`: workers return only when their fibers are
  done (`SafeExit`), so no fiber is unwound.
- The inside of `boost::fibers::buffered_channel`, and `try_pop` and `is_closed`,
  which no modelled code calls.
- `task`: sequential type erasure, whose difficulty is alignment and object lifetime;
  that a task has one owner is `FiberPool!OnePlace`.
- The other examples, each a short use of one part, and the benchmarks.
- A multishot object inside a pool that shuts down: a fiber in `next()` stays in
  flight until a peer acts, so the shutdown waits for that peer; there is no promise
  in the code to check against.
