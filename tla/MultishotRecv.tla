---------------------------- MODULE MultishotRecv ----------------------------
(***************************************************************************)
(* multishot_recv (src/multishot_recv.cpp): one receive SQE that completes *)
(* many times, the ring of buffers the kernel picks from, the queue of     *)
(* results, and the fiber that consumes them and at last destroys the      *)
(* object.  complete() runs on the same thread, inside drain_cqes, while   *)
(* the fiber is suspended; the kernel runs on its own.                     *)
(*                                                                         *)
(* Messages are numbered in the order in which they arrive.                *)
(***************************************************************************)
EXTENDS Naturals, Sequences

CONSTANTS BufCount,      \* buf_count_, after rounding to a power of two
          MaxMessages,   \* bound: messages that arrive
          MayStop,       \* may the fiber's stop token be asked to stop?
          MayEndEarly,   \* may data arrive without IORING_CQE_F_MORE?
          MaxRingFull    \* bound: calls of io_uring_get_sqe that return null

ASSUME RecvAssumption ==
    /\ BufCount \in Nat \ {0} /\ MaxMessages \in Nat /\ MaxRingFull \in Nat
    /\ MayStop \in BOOLEAN /\ MayEndEarly \in BOOLEAN

VARIABLES
    pc,         \* where the consuming fiber stands
    error,      \* error_ ("live" is 0)
    pending,    \* pending_
    waiter,     \* is waiter_ engaged?
    held,       \* received_buffers the fiber holds
    got,        \* number of the last message next() returned
    stop,       \* was the fiber's token asked to stop?
    sqe,        \* is a receive armed in the kernel?
    avail,      \* buffers in the provided-buffer ring
    cq,         \* completions not yet drained
    sent,       \* messages that arrived
    ring_full   \* null SQEs still to come

objVars == <<error, pending, waiter>>
userVars == <<held, got, stop>>
kernVars == <<sqe, avail, cq, sent, ring_full>>
vars == <<pc, error, pending, waiter, held, got, stop, sqe, avail, cq, sent, ring_full>>

Buffers == 1..BufCount

(* A buffer with the message in it, and a completion; buf 0 is no buffer. *)
Items == [buf : Buffers, msg : 1..MaxMessages]
Cqes == [res : {"data", "eof", "nobufs", "cancelled", "failed"},
         buf : Buffers \cup {0}, msg : 0..MaxMessages, more : BOOLEAN]

TypeOK ==
    /\ pc \in {"body", "wait", "resume", "loop", "loop_wait", "loop_resume", "free", "gone"}
    /\ error \in {"live", "eof", "nobufs", "cancelled", "failed"}
    /\ pending \in Seq(Items) /\ waiter \in BOOLEAN
    /\ held \subseteq Items /\ got \in 0..MaxMessages /\ stop \in BOOLEAN
    /\ sqe \in {"armed", "off"} /\ avail \in Seq(Buffers) /\ cq \in Seq(Cqes)
    /\ sent \in 0..MaxMessages /\ ring_full \in 0..MaxRingFull

(* The constructor: every buffer is in the ring and the receive is armed. *)
Init ==
    /\ pc = "body" /\ error = "live" /\ pending = <<>> /\ waiter = FALSE
    /\ held = {} /\ got = 0 /\ stop = FALSE
    /\ sqe = "armed" /\ cq = <<>> /\ sent = 0 /\ ring_full = MaxRingFull
    /\ avail = [i \in Buffers |-> i]

Cqe(res, buf, msg, more) == [res |-> res, buf |-> buf, msg |-> msg, more |-> more]

(***************************************************************************)
(* The kernel: a message takes the next buffer of the ring; without one,   *)
(* at the end of the stream or on an error the receive terminates.         *)
(***************************************************************************)
KernelData(more) ==
    /\ sqe = "armed" /\ sent < MaxMessages /\ avail # <<>>
    /\ more \/ MayEndEarly
    /\ sent' = sent + 1
    /\ cq' = Append(cq, Cqe("data", Head(avail), sent + 1, more))
    /\ avail' = Tail(avail)
    /\ sqe' = IF more THEN "armed" ELSE "off"
    /\ UNCHANGED <<pc, objVars, userVars, ring_full>>

KernelNoBufs ==
    /\ sqe = "armed" /\ sent < MaxMessages /\ avail = <<>>
    /\ cq' = Append(cq, Cqe("nobufs", 0, 0, FALSE))
    /\ sqe' = "off"
    /\ UNCHANGED <<pc, objVars, userVars, avail, sent, ring_full>>

(* The end of the stream may come with a buffer selected and not used. *)
KernelEnds(res) ==
    /\ sqe = "armed"
    /\ \/ cq' = Append(cq, Cqe(res, 0, 0, FALSE)) /\ UNCHANGED avail
       \/ /\ avail # <<>>
          /\ cq' = Append(cq, Cqe(res, Head(avail), 0, FALSE))
          /\ avail' = Tail(avail)
    /\ sqe' = "off"
    /\ UNCHANGED <<pc, objVars, userVars, sent, ring_full>>

(* The sender or when_all asks the fiber's token to stop. *)
RequestStop ==
    /\ MayStop /\ ~stop /\ pc # "gone"
    /\ stop' = TRUE
    /\ UNCHANGED <<pc, objVars, held, got, kernVars>>

(***************************************************************************)
(* complete(): queue the data, or give an unused buffer back and keep the  *)
(* error; wake the fiber; arm again when the kernel let go of the receive  *)
(* after data.  arm() gives up when there is no SQE.                       *)
(***************************************************************************)
Woken == CASE pc = "wait" -> "resume" [] pc = "loop_wait" -> "loop_resume" [] OTHER -> pc

HasData(e) == e.res = "data"

(* Mutation of Returned: the buffer of a terminal completion is kept. *)
KeepsBuffer(e) == avail

Returned(e) == IF ~HasData(e) /\ e.buf # 0 THEN Append(avail, e.buf) ELSE avail

(* Mutation of Queued: the newest message is put first. *)
QueuedFirst(e) == <<[buf |-> e.buf, msg |-> e.msg]>> \o pending

(* Mutation of Queued: there is room for one message only. *)
QueuedOnly(e) == <<[buf |-> e.buf, msg |-> e.msg]>>

Queued(e) == Append(pending, [buf |-> e.buf, msg |-> e.msg])

(* Mutation of MustRearm: a receive that ended after data is not armed. *)
NeverRearm(e) == FALSE

MustRearm(e) == ~e.more /\ HasData(e)

Arm ==
    \/ sqe' = "armed" /\ UNCHANGED ring_full
    \/ ring_full > 0 /\ ring_full' = ring_full - 1 /\ UNCHANGED sqe

Complete ==
    LET e == Head(cq)
    IN  /\ pc \in {"body", "wait", "resume", "loop_wait", "loop_resume"} /\ cq # <<>>
        /\ cq' = Tail(cq)
        /\ pending' = IF HasData(e) THEN Queued(e) ELSE pending
        /\ avail' = Returned(e)
        /\ error' = IF HasData(e) THEN error ELSE e.res
        /\ waiter' = FALSE /\ pc' = IF waiter THEN Woken ELSE pc
        /\ IF MustRearm(e)
           THEN Arm ELSE UNCHANGED <<sqe, ring_full>>
        /\ UNCHANGED <<userVars, sent>>

(***************************************************************************)
(* next(), called by the user and by the destructor's loop.                *)
(***************************************************************************)
NextItem ==
    /\ pc \in {"body", "resume"} /\ pending # <<>>
    /\ pending' = Tail(pending)
    /\ held' = held \cup {Head(pending)} /\ got' = Head(pending).msg
    /\ pc' = "body"
    /\ UNCHANGED <<error, waiter, stop, kernVars>>

(* The loop of the destructor drops what it gets, which returns the buffer. *)
LoopItem ==
    /\ pc \in {"loop", "loop_resume"} /\ pending # <<>>
    /\ pending' = Tail(pending)
    /\ avail' = Append(avail, Head(pending).buf)
    /\ pc' = "loop"
    /\ UNCHANGED <<error, waiter, userVars, sqe, cq, sent, ring_full>>

(* nullopt, or an exception, which the destructor catches. *)
NextEnds ==
    /\ pc \in {"resume", "loop", "loop_resume"} /\ pending = <<>> /\ error # "live"
    /\ pc' = IF pc = "resume" THEN "body" ELSE "free"
    /\ UNCHANGED <<objVars, userVars, kernVars>>

NextStopped ==
    /\ pc \in {"body", "loop"} /\ pending = <<>> /\ error = "live" /\ stop
    /\ error' = "cancelled"
    /\ pc' = IF pc = "body" THEN "body" ELSE "free"
    /\ UNCHANGED <<pending, waiter, userVars, kernVars>>

NextWaits ==
    /\ pc \in {"body", "loop"} /\ pending = <<>> /\ error = "live" /\ ~stop
    /\ waiter' = TRUE
    /\ pc' = IF pc = "body" THEN "wait" ELSE "loop_wait"
    /\ UNCHANGED <<error, pending, userVars, kernVars>>

ReleaseBuffer(h) ==
    /\ pc = "body" /\ h \in held
    /\ held' = held \ {h}
    /\ avail' = Append(avail, h.buf)
    /\ UNCHANGED <<pc, objVars, got, stop, sqe, cq, sent, ring_full>>

(***************************************************************************)
(* The destructor.  It returns the buffers queued; if error_ is 0 it has   *)
(* the receive cancelled and waits in next() for its end; then it frees    *)
(* the buffer ring.  The user has dropped every received_buffer before.    *)
(***************************************************************************)
(* Mutation of SubmitCancel: the receive is not cancelled. *)
NoCancel == UNCHANGED <<sqe, cq, ring_full>>

SubmitCancel ==
    \/ /\ sqe = "armed"
       /\ sqe' = "off" /\ cq' = Append(cq, Cqe("cancelled", 0, 0, FALSE))
       /\ UNCHANGED ring_full
    \/ sqe = "off" /\ UNCHANGED <<sqe, cq, ring_full>>
    \/ ring_full > 0 /\ ring_full' = ring_full - 1 /\ UNCHANGED <<sqe, cq>>

(* Mutation of DestructorStarts: it does not wait for the receive's end. *)
FreesAtOnce ==
    /\ pc = "body" /\ held = {}
    /\ avail' = avail \o [i \in DOMAIN pending |-> pending[i].buf] /\ pending' = <<>>
    /\ pc' = "free"
    /\ UNCHANGED <<error, waiter, userVars, sqe, cq, sent, ring_full>>

DestructorStarts ==
    /\ pc = "body" /\ held = {}
    /\ avail' = avail \o [i \in DOMAIN pending |-> pending[i].buf] /\ pending' = <<>>
    /\ IF error = "live" THEN SubmitCancel /\ pc' = "loop"
       ELSE pc' = "free" /\ UNCHANGED <<sqe, cq, ring_full>>
    /\ UNCHANGED <<error, waiter, userVars, sent>>

DestructorFrees ==
    /\ pc = "free"
    /\ pc' = "gone"
    /\ UNCHANGED <<objVars, userVars, kernVars>>

Kernel ==
    \/ \E more \in BOOLEAN : KernelData(more)
    \/ KernelNoBufs
    \/ \E res \in {"eof", "failed"} : KernelEnds(res)

Fiber ==
    \/ NextItem \/ LoopItem \/ NextEnds \/ NextStopped \/ NextWaits
    \/ \E h \in held : ReleaseBuffer(h)
    \/ DestructorStarts \/ DestructorFrees

Next == Kernel \/ RequestStop \/ Complete \/ Fiber

Spec == Init /\ [][Next]_vars

(***************************************************************************)
(* The worker drains completions that are there, and a fiber in the        *)
(* destructor keeps running.  The peer may be silent for ever.             *)
(***************************************************************************)
FairSpec ==
    /\ Spec
    /\ WF_vars(Complete)
    /\ WF_vars(LoopItem \/ DestructorFrees)
    /\ WF_vars(pc # "resume" /\ NextEnds)
    /\ WF_vars(pc # "body" /\ (NextStopped \/ NextWaits))

-----------------------------------------------------------------------------

Uses(b) ==
    {<<"ring", i>> : i \in {j \in DOMAIN avail : avail[j] = b}}
    \cup {<<"cq", i>> : i \in {j \in DOMAIN cq : cq[j].buf = b}}
    \cup {<<"queue", i>> : i \in {j \in DOMAIN pending : pending[j].buf = b}}
    \cup {<<"user", h.msg>> : h \in {x \in held : x.buf = b}}

(***************************************************************************)
(* Every buffer is in exactly one place: the kernel's ring, a completion,  *)
(* pending_ or a received_buffer.  A second return would let the kernel    *)
(* overwrite data the user still reads; a missed one loses the buffer.     *)
(***************************************************************************)
BufferOnce == pc # "gone" => \A b \in Buffers : \E u \in Uses(b) : Uses(b) = {u}

(***************************************************************************)
(* next() returns messages in the order of arrival and skips none: what is *)
(* queued, then what is in the completion queue, follow the last message   *)
(* returned one by one up to the last that arrived, also across a re-arm.  *)
(* Unless a stop was requested next() reports an end, eof or an error,     *)
(* only when every message that arrived has been returned.                 *)
(***************************************************************************)
MessagesInOrder ==
    LET data == {i \in DOMAIN cq : cq[i].res = "data"}
    IN  pc \in {"body", "wait", "resume"} =>
            /\ \A i \in DOMAIN pending : pending[i].msg = got + i
            /\ \A i \in data : cq[i].msg = got + Len(pending) + i
            /\ got <= sent
            /\ (got + 1)..sent = {pending[i].msg : i \in DOMAIN pending}
                                 \cup {cq[i].msg : i \in data}
            /\ pending = <<>> /\ error # "live" /\ ~stop => got = sent

(***************************************************************************)
(* For its user the object is a stream of results: a message that was      *)
(* received is the next result, and next() hands it over.                  *)
(***************************************************************************)
StreamPhase == IF pc \in {"body", "wait", "resume"} THEN "open" ELSE "closed"
Stream == INSTANCE ResultStream WITH arrived <- sent, handed <- got, phase <- StreamPhase
ImplementsStream == Stream!Spec

(***************************************************************************)
(* Once the destructor has freed the buffer ring the kernel holds no       *)
(* receive of the object and no completion names it: drain_cqes would call *)
(* complete() on a dead object.                                            *)
(***************************************************************************)
ObjectOutlivesReceive == pc = "gone" => sqe = "off" /\ cq = <<>>

(***************************************************************************)
(* It holds whenever the fiber was not asked to stop, also when there is   *)
(* no SQE for the cancel or for a re-arm: a stop is the only exception.    *)
(***************************************************************************)
OutlivesUnlessStopped == ~stop => ObjectOutlivesReceive

(***************************************************************************)
(* A fiber suspended in next() has something to wake it, an armed receive  *)
(* or a completion not yet drained, unless arm() found no SQE.             *)
(***************************************************************************)
WaiterIsServed == waiter /\ ring_full = MaxRingFull => sqe = "armed" \/ cq # <<>>

(***************************************************************************)
(* Once the receive has ended, by the cancel of the destructor or by       *)
(* itself, the destructor returns, whatever data is drained before the     *)
(* end and with a peer that sends no more.  It returns in every behaviour  *)
(* in which there was an SQE for every request and the loop drains no data *)
(* that arms the receive anew, behind the back of the cancel.              *)
(***************************************************************************)
Ended == \E i \in DOMAIN cq : cq[i].res # "data"
RearmDue ==
    pc \in {"loop", "loop_wait", "loop_resume"} /\ \E i \in DOMAIN cq : MustRearm(cq[i])
DestructorReturns ==
    /\ (pc = "loop" /\ Ended) ~> (pc = "gone")
    /\ [](~RearmDue /\ ring_full = MaxRingFull) => ((pc = "loop") ~> (pc = "gone"))
=============================================================================
