------------------------------- MODULE Channel -------------------------------
(***************************************************************************)
(* fiberexec::channel: a bounded queue between fibers.  The ring of        *)
(* boost::fibers::buffered_channel has a power of two of slots, of which   *)
(* one stays empty.  An operation that has to suspend is one that is not   *)
(* enabled: push on a full channel, pop on an empty one.                   *)
(***************************************************************************)
EXTENDS Naturals, Sequences

VARIABLES
    items,       \* the values in the ring
    closed       \* has close been called?

(* std::bit_ceil: the least power of two that is not below n. *)
BitCeil(n) == CHOOSE p \in {2^k : k \in 0..n} : p >= n /\ \A k \in 0..n : 2^k >= n => p <= 2^k

(* How many values fit into channel{capacity}: the ring has BitCeil(capacity + 1) slots. *)
Usable(capacity) == BitCeil(capacity + 1) - 1

Init == items = <<>> /\ closed = FALSE

HasRoom(capacity) == Len(items) < Usable(capacity)

(* push: waits for room. *)
Push(capacity, v) ==
    /\ ~closed /\ HasRoom(capacity)
    /\ items' = Append(items, v) /\ UNCHANGED closed

(* try_push: gives up without room. *)
TryPush(capacity, v) ==
    /\ items' = IF ~closed /\ HasRoom(capacity) THEN Append(items, v) ELSE items
    /\ UNCHANGED closed

(* pop: waits for a value; what was pushed before close can still be popped. *)
Pop(v) == items # <<>> /\ v = Head(items) /\ items' = Tail(items) /\ UNCHANGED closed

(* pop returns closed. *)
PopClosed == closed /\ items = <<>> /\ UNCHANGED <<items, closed>>

Close == closed' = TRUE /\ UNCHANGED items
=============================================================================
