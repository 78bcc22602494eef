--------------------------- MODULE FixedResources ----------------------------
(***************************************************************************)
(* The kernel resources of one worker thread: fixed_buffer_pool with       *)
(* async_send_zc and fixed_fd_table, both on a channel of free indices,    *)
(* and the fibers of the thread that borrow from them.  Fibers are         *)
(* cooperative, so a step goes from one suspension to the next; the kernel *)
(* completes a zero-copy send in between, in one or two completions.       *)
(*                                                                         *)
(* A fiber holds at most one handle of each sort.  The pools are closed    *)
(* after the last fiber, so pop never sees them closed.                    *)
(***************************************************************************)
EXTENDS Integers, Sequences

CONSTANTS
    Fibers,
    BufCounts,     \* the values of fixed_buffer_count tried
    FdCounts,      \* the values of registered_fd_capacity tried
    MaxUses,       \* bound: the requests of a fiber
    MaxFailures    \* bound: the system calls that fail

None == -1

VARIABLES
    bufCount, fdCount,       \* buf_count_ and capacity_
    wpc, filled,             \* where worker() stands, the indices it has pushed
    free, freeClosed,        \* fixed_buffer_pool::free_list_
    slots, slotsClosed,      \* fixed_fd_table::free_list_
    table,                   \* the kernel's table: whose descriptor is in a slot
    lost,                    \* slots that are neither free nor owned any more
    fpc, buf, slot, uses,    \* the fibers and the handles they own
    result,                  \* send_zc_handler::result_ of the fiber's send: did it fail?
    sends,                   \* zero-copy sends the kernel has, or that wait in the ring
    failures

poolVars == <<free, freeClosed>>
tableVars == <<slots, slotsClosed, table, lost>>
workerVars == <<bufCount, fdCount, wpc, filled>>
vars == <<workerVars, poolVars, tableVars, fpc, buf, slot, uses, result, sends, failures>>

FreeList == INSTANCE Channel WITH items <- free, closed <- freeClosed
SlotList == INSTANCE Channel WITH items <- slots, closed <- slotsClosed

(***************************************************************************)
(* worker() builds a table only of a capacity that is not zero.  That the  *)
(* least power of two not below a number exists is a fact about 2^k, and   *)
(* so is what follows: a channel holds the capacity it is constructed with.*)
(***************************************************************************)
ASSUME CountAssumption ==
    /\ BufCounts \subseteq Nat /\ \A n \in BufCounts : FreeList!BitCeil(n) \in Nat
    /\ FdCounts \subseteq Nat \ {0}
    /\ \A n \in FdCounts : SlotList!Usable(n) \in Nat /\ SlotList!Usable(n) >= n

(* The constructor rounds up, and up to two. *)
BufCount(n) == IF n <= 2 THEN 2 ELSE FreeList!BitCeil(n)

Init ==
    /\ \E n \in BufCounts : bufCount = BufCount(n)
    /\ fdCount \in FdCounts
    /\ wpc = "buffers" /\ filled = 0
    /\ FreeList!Init /\ SlotList!Init
    /\ table = [s \in 0..(fdCount - 1) |-> None] /\ lost = {}
    /\ fpc = [f \in Fibers |-> "fn"] /\ uses = [f \in Fibers |-> 0]
    /\ buf = [f \in Fibers |-> None] /\ slot = [f \in Fibers |-> None]
    /\ result = [f \in Fibers |-> "ok"] /\ sends = {} /\ failures = MaxFailures

-----------------------------------------------------------------------------
(* worker(): build the pools, wait until no fiber is left, destroy them.   *)

LastIndex(count) == filled + 1 = count

(* The pool's constructor pushes with push, the table's with try_push. *)
Fill ==
    /\ \/ /\ wpc = "buffers" /\ FreeList!Push(bufCount, filled)
          /\ IF LastIndex(bufCount) THEN wpc' = "slots" /\ filled' = 0
                                      ELSE UNCHANGED wpc /\ filled' = filled + 1
          /\ UNCHANGED <<slots, slotsClosed>>
       \/ /\ wpc = "slots" /\ SlotList!TryPush(fdCount, filled)
          /\ wpc' = IF LastIndex(fdCount) THEN "running" ELSE "slots"
          /\ filled' = filled + 1
          /\ UNCHANGED poolVars
    /\ UNCHANGED <<bufCount, fdCount, table, lost, fpc, buf, slot, uses, result, sends, failures>>

(* ~fixed_buffer_pool and ~fixed_fd_table. *)
DestroyPools == FreeList!Close /\ SlotList!Close

Exit ==
    /\ wpc = "running" /\ \A f \in Fibers : fpc[f] = "done"
    /\ wpc' = "exited" /\ DestroyPools
    /\ UNCHANGED <<bufCount, fdCount, filled, table, lost, fpc, buf, slot, uses, result, sends, failures>>

-----------------------------------------------------------------------------
(* The fibers.  An exception ends fn: it destroys the handles, "unwind".   *)

Goto(f, to) == fpc' = [fpc EXCEPT ![f] = to]

CanFail == failures > 0 /\ failures' = failures - 1

(* fn decides to borrow a buffer or a slot; a handle it has is assigned to. *)
Request(f) ==
    /\ wpc = "running" /\ fpc[f] = "fn" /\ uses[f] < MaxUses
    /\ \E what \in {"borrow", "acquire"} : Goto(f, what)
    /\ uses' = [uses EXCEPT ![f] = @ + 1]
    /\ UNCHANGED <<workerVars, poolVars, tableVars, buf, slot, result, sends, failures>>

(* Mutation of Give: the assignment forgets the handle it overwrites. *)
Forget(list, b) == list

(* Give(list, b): the free list with buffer or slot b returned to it, if it is one. *)
Give(list, b) == IF b = None THEN list ELSE Append(list, b)

(* borrow_fixed_buffer: pop, then the assignment returns the buffer held before. *)
Borrow(f) ==
    /\ fpc[f] = "borrow" /\ free # <<>>
    /\ free' = Give(Tail(free), buf[f]) /\ buf' = [buf EXCEPT ![f] = Head(free)]
    /\ Goto(f, "fn")
    /\ UNCHANGED <<workerVars, freeClosed, tableVars, slot, uses, result, sends, failures>>

(* Mutation of Moved: the source of the move keeps its handle. *)
Copied(f, g) == [buf EXCEPT ![g] = buf[f]]

Moved(f, g) == [buf EXCEPT ![g] = buf[f], ![f] = None]

(* A handle is moved to another fiber, whose own one goes back. *)
Move(f, g) ==
    /\ fpc[f] = "fn" /\ fpc[g] = "fn" /\ f # g /\ buf[f] # None /\ uses[f] < MaxUses
    /\ buf' = Moved(f, g) /\ free' = Give(free, buf[g])
    /\ uses' = [uses EXCEPT ![f] = @ + 1]
    /\ UNCHANGED <<workerVars, freeClosed, tableVars, fpc, slot, result, sends, failures>>

(* ~fixed_buffer: return_buffer pushes, and must find room. *)
Return(f) ==
    /\ fpc[f] \in {"fn", "unwind"} /\ buf[f] # None
    /\ FreeList!Push(bufCount, buf[f]) /\ buf' = [buf EXCEPT ![f] = None]
    /\ UNCHANGED <<workerVars, tableVars, fpc, slot, uses, result, sends, failures>>

(* acquire_fd_slot: pop, install, and clear and release the slot held before. *)
Acquire(f) ==
    /\ fpc[f] = "acquire" /\ slots # <<>>
    /\ slots' = Give(Tail(slots), slot[f]) /\ slot' = [slot EXCEPT ![f] = Head(slots)]
    /\ table' = [s \in DOMAIN table |->
                   IF s = Head(slots) THEN f ELSE IF s = slot[f] THEN None ELSE table[s]]
    /\ Goto(f, "fn")
    /\ UNCHANGED <<workerVars, poolVars, slotsClosed, lost, buf, uses, result, sends, failures>>

(* The install throws: no fd_slot owns the slot that was popped. *)
AcquireFails(f) ==
    /\ fpc[f] = "acquire" /\ slots # <<>> /\ CanFail
    /\ slots' = Tail(slots) /\ lost' = lost \cup {Head(slots)}
    /\ Goto(f, "unwind")
    /\ UNCHANGED <<workerVars, poolVars, slotsClosed, table, buf, slot, uses, result, sends>>

(* fd_slot::update with another descriptor of the fiber throws; the old one stays. *)
UpdateFails(f) ==
    /\ fpc[f] = "fn" /\ slot[f] # None /\ CanFail
    /\ Goto(f, "unwind")
    /\ UNCHANGED <<workerVars, poolVars, tableVars, buf, slot, uses, result, sends>>

(* Mutation of Cleared: the destructor releases the slot without update(slot_, -1). *)
NotCleared(s) == table

Cleared(s) == [table EXCEPT ![s] = None]

(* ~fd_slot: clear, release. *)
Release(f) ==
    /\ fpc[f] \in {"fn", "unwind"} /\ slot[f] # None
    /\ SlotList!Push(fdCount, slot[f]) /\ table' = Cleared(slot[f])
    /\ slot' = [slot EXCEPT ![f] = None]
    /\ UNCHANGED <<workerVars, poolVars, lost, fpc, buf, uses, result, sends, failures>>

(* ~fd_slot and the assignment to an fd_slot, once the new slot is installed, *)
(* are noexcept: an update(slot_, -1) that throws ends the program.           *)
ReleaseTerminates(f) ==
    /\ wpc = "running" /\ slot[f] # None /\ CanFail
    /\ fpc[f] \in {"fn", "unwind"} \/ (fpc[f] = "acquire" /\ slots # <<>>)
    /\ wpc' = "terminated" /\ fpc' = [g \in Fibers |-> "done"]
    /\ UNCHANGED <<bufCount, fdCount, filled, poolVars, tableVars, buf, slot, uses, result, sends>>

Finish(f) ==
    /\ wpc = "running" /\ fpc[f] \in {"fn", "unwind"} /\ buf[f] = None /\ slot[f] = None
    /\ Goto(f, "done")
    /\ UNCHANGED <<workerVars, poolVars, tableVars, buf, slot, uses, result, sends, failures>>

-----------------------------------------------------------------------------
(* async_send_zc and the kernel.                                           *)

Submitted == {[s EXCEPT !.at = IF @ = "ring" THEN "kernel" ELSE @] : s \in sends}

Zc(f, at, stale) == [by |-> f, buf |-> buf[f], at |-> at, stale |-> stale]

SendZc(f) ==
    /\ fpc[f] = "fn" /\ buf[f] # None /\ uses[f] < MaxUses
    /\ sends' = Submitted \cup {Zc(f, "kernel", FALSE)}
    /\ Goto(f, "sending") /\ uses' = [uses EXCEPT ![f] = @ + 1]
    /\ UNCHANGED <<workerVars, poolVars, tableVars, buf, slot, result, failures>>

(* No SQE, or a submit that fails and leaves the SQE in the ring. *)
SendZcThrows(f) ==
    /\ fpc[f] = "fn" /\ buf[f] # None /\ CanFail
    /\ sends' \in {sends, sends \cup {Zc(f, "ring", TRUE)}}
    /\ Goto(f, "unwind")
    /\ UNCHANGED <<workerVars, poolVars, tableVars, buf, slot, uses, result>>

(* The next submit of the thread takes what a failed one left behind. *)
SubmitOther ==
    /\ \E s \in sends : s.at = "ring"
    /\ sends' = Submitted
    /\ UNCHANGED <<workerVars, poolVars, tableVars, fpc, buf, slot, uses, result, failures>>

(* handler.wait returns, to fn or, with an error, to an exception. *)
Woken(f, res) == IF fpc[f] = "sending" THEN Goto(f, IF res = "ok" THEN "fn" ELSE "unwind")
                                       ELSE UNCHANGED fpc

(* Mutation of OnSend: the first completion wakes the fiber. *)
OnSendAlways(s, res, more) == Woken(s.by, res)

(* send_zc_handler::complete, first CQE: wake only if no notification follows. *)
OnSend(s, res, more) == IF more THEN UNCHANGED fpc ELSE Woken(s.by, res)

SendCqe(s) ==
    /\ s.at = "kernel"
    /\ \E res \in {"ok", "error"}, more \in BOOLEAN :
         /\ sends' = (sends \ {s}) \cup (IF more THEN {[s EXCEPT !.at = "notify"]} ELSE {})
         /\ result' = [result EXCEPT ![s.by] = res]
         /\ OnSend(s, res, more)
    /\ UNCHANGED <<workerVars, poolVars, tableVars, buf, slot, uses, failures>>

(* Second CQE: the kernel has let go of the buffer. *)
NotifCqe(s) ==
    /\ s.at = "notify"
    /\ sends' = sends \ {s} /\ Woken(s.by, result[s.by])
    /\ UNCHANGED <<workerVars, poolVars, tableVars, buf, slot, uses, result, failures>>

FiberStep(f) ==
    \/ Request(f) \/ Borrow(f) \/ Return(f) \/ Acquire(f) \/ AcquireFails(f) \/ UpdateFails(f)
    \/ Release(f) \/ ReleaseTerminates(f) \/ Finish(f) \/ SendZc(f) \/ SendZcThrows(f)
    \/ \E g \in Fibers : Move(f, g)

KernelStep == SubmitOther \/ \E s \in sends : SendCqe(s) \/ NotifCqe(s)

Next == Fill \/ Exit \/ KernelStep \/ \E f \in Fibers : FiberStep(f)

Spec == Init /\ [][Next]_vars

(***************************************************************************)
(* The thread runs its fibers, which do not use a resource for ever, and   *)
(* the peers of the sends read.                                            *)
(***************************************************************************)
FairSpec ==
    /\ Spec
    /\ WF_vars(Fill) /\ WF_vars(KernelStep)
    /\ \A f \in Fibers : WF_vars(FiberStep(f))

-----------------------------------------------------------------------------
Buffers == 0..(bufCount - 1)
Slots == 0..(fdCount - 1)

Started == wpc \in {"running", "exited"}

(* The places of b: the positions in the free list and the handles that have it. *)
Places(list, handle, b) ==
    ({"free"} \X {i \in DOMAIN list : list[i] = b}) \cup ({"held"} \X {f \in Fibers : handle[f] = b})

Single(places) == \E p \in places : places = {p}

Contents(list) == {list[i] : i \in DOMAIN list}

(***************************************************************************)
(* Nothing is lost and nothing is lent twice: a buffer is in the free list *)
(* or in one handle, and so is a slot, unless its install threw.  worker() *)
(* destroys the pools after the last handle and the last send: what it     *)
(* closes are full free lists, and no handle is returned to a closed one.  *)
(***************************************************************************)
OnePlace ==
    /\ Started =>
          /\ \A b \in Buffers : Single(Places(free, buf, b))
          /\ \A s \in Slots \ lost : Single(Places(slots, slot, s))
          /\ \A s \in lost : Places(slots, slot, s) = {}
    /\ wpc = "exited" => /\ Contents(free) = Buffers /\ Contents(slots) = Slots \ lost
                         /\ \A s \in sends : s.stale

(***************************************************************************)
(* While the kernel reads a buffer, the fiber that sent it holds it and    *)
(* waits, with the handler on its stack, so no other fiber writes to the   *)
(* buffer.  Only a send left in the ring by a failed submit escapes this.  *)
(***************************************************************************)
KernelBufferIsHeld ==
    wpc # "terminated" =>
        \A s \in sends : s.stale \/ (fpc[s.by] = "sending" /\ buf[s.by] = s.buf)

(***************************************************************************)
(* The kernel's table follows the handles: the slot of an fd_slot has a    *)
(* descriptor of its fiber, and every other slot is empty, so a slot is    *)
(* lent again only after the former owner's descriptor is out of it.       *)
(***************************************************************************)
TableFollowsHandles ==
    \A s \in Slots : LET owners == {f \in Fibers : slot[f] = s}
                     IN  IF owners = {} THEN table[s] = None ELSE table[s] \in owners

Waiting(f) == fpc[f] \in {"borrow", "acquire"}

(***************************************************************************)
(* The constructors get all indices into the free lists, although nobody   *)
(* pops yet.  A fiber that waits for a buffer or a slot gets one, unless   *)
(* every one is held by a fiber that waits itself, or was lost by an       *)
(* install that threw: there is no other way to starve, whatever fails.    *)
(***************************************************************************)
BorrowerIsServed ==
    /\ <>(wpc = "running")
    /\ \A f \in Fibers :
         /\ fpc[f] = "borrow" ~>
               (fpc[f] # "borrow" \/ \A b \in Buffers : \E g \in Fibers : buf[g] = b /\ Waiting(g))
         /\ fpc[f] = "acquire" ~>
               (fpc[f] # "acquire" \/ \A s \in Slots \ lost : \E g \in Fibers : slot[g] = s /\ Waiting(g))
=============================================================================
