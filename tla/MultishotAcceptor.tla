-------------------------- MODULE MultishotAcceptor --------------------------
(***************************************************************************)
(* multishot_acceptor (src/multishot_acceptor.cpp): one accept SQE that    *)
(* completes once per connection, the queue of accepted sockets, and the   *)
(* fiber that takes them and at last destroys the object.  complete() runs *)
(* on the same thread, inside drain_cqes, while the fiber is suspended: in *)
(* next(), in the async_close of the destructor, or in I/O of its own.     *)
(*                                                                         *)
(* Sockets are numbered in the order in which they are accepted; negative  *)
(* results are "einval" (the socket was shut down), "cancelled" and        *)
(* "failed" (any other error).                                             *)
(***************************************************************************)
EXTENDS Naturals, Sequences

CONSTANTS MaxAccepts,     \* bound: connections
          MayStop,        \* may the fiber's stop token be asked to stop?
          MaxCloseFails,  \* bound: calls of async_close that throw
          MaxRingFull     \* bound: calls of io_uring_get_sqe that return null

ASSUME AcceptAssumption ==
    /\ MaxAccepts \in Nat /\ MaxCloseFails \in Nat /\ MaxRingFull \in Nat
    /\ MayStop \in BOOLEAN

VARIABLES
    pc,           \* where the fiber stands
    error,        \* error_ ("live" is 0)
    pending,      \* pending_fds_
    waiter,       \* is waiter_ engaged?
    promised,     \* the value set in the promise of next(), until it returns
    user,         \* sockets handed to the user, in order
    closed,       \* sockets the destructor closed
    closing,      \* the socket the destructor is closing
    stop,         \* was the fiber's token asked to stop?
    shut,         \* was the listening socket shut down?
    sqe,          \* is an accept armed in the kernel?
    cq,           \* completions not yet drained
    accepted,     \* connections accepted by the kernel
    close_fails,  \* failing closes still to come
    ring_full     \* null SQEs still to come

objVars == <<error, pending, waiter, promised>>
userVars == <<user, closed, closing, stop, shut, close_fails>>
kernVars == <<sqe, cq, accepted, ring_full>>
vars == <<pc, error, pending, waiter, promised, user, closed, closing, stop, shut,
          sqe, cq, accepted, close_fails, ring_full>>

Fds == 1..MaxAccepts
None == 0
Errors == {"einval", "cancelled", "failed"}

TypeOK ==
    /\ pc \in {"body", "wait", "resume", "flush", "flush_close", "loop", "loop_wait",
               "loop_resume", "loop_close", "gone"}
    /\ error \in Errors \cup {"live"}
    /\ pending \in Seq(Fds) /\ waiter \in BOOLEAN
    /\ promised \in [fd : Fds \cup {None}, res : Errors \cup {"ok"}]
    /\ user \in Seq(Fds) /\ closed \subseteq Fds /\ closing \in Fds \cup {None}
    /\ stop \in BOOLEAN /\ shut \in BOOLEAN /\ sqe \in {"armed", "off"}
    /\ cq \in Seq([fd : Fds \cup {None}, res : Errors \cup {"ok"}, more : BOOLEAN])
    /\ accepted \in 0..MaxAccepts
    /\ close_fails \in 0..MaxCloseFails /\ ring_full \in 0..MaxRingFull

NoResult == [fd |-> None, res |-> "ok"]

Init ==
    /\ pc = "body" /\ error = "live" /\ pending = <<>> /\ waiter = FALSE
    /\ promised = NoResult /\ user = <<>> /\ closed = {} /\ closing = None
    /\ stop = FALSE /\ shut = FALSE /\ sqe = "armed" /\ cq = <<>> /\ accepted = 0
    /\ close_fails = MaxCloseFails /\ ring_full = MaxRingFull

(***************************************************************************)
(* The kernel accepts, with or without IORING_CQE_F_MORE, or ends the      *)
(* accept: on an error, and always once the socket was shut down.          *)
(***************************************************************************)
KernelAccepts(more) ==
    /\ sqe = "armed" /\ ~shut /\ accepted < MaxAccepts
    /\ accepted' = accepted + 1
    /\ cq' = Append(cq, [fd |-> accepted + 1, res |-> "ok", more |-> more])
    /\ sqe' = IF more THEN "armed" ELSE "off"
    /\ UNCHANGED <<pc, objVars, userVars, ring_full>>

KernelEnds(res) ==
    /\ sqe = "armed" /\ ((res = "einval") <=> shut)
    /\ cq' = Append(cq, [fd |-> None, res |-> res, more |-> FALSE])
    /\ sqe' = "off"
    /\ UNCHANGED <<pc, objVars, userVars, accepted, ring_full>>

RequestStop ==
    /\ MayStop /\ ~stop /\ pc # "gone"
    /\ stop' = TRUE
    /\ UNCHANGED <<pc, objVars, user, closed, closing, shut, close_fails, kernVars>>

(* The program shuts the listening socket down, the way to end next(). *)
ProgramShutsDown ==
    /\ ~shut /\ pc # "gone"
    /\ shut' = TRUE
    /\ UNCHANGED <<pc, objVars, user, closed, closing, stop, close_fails, kernVars>>

(***************************************************************************)
(* complete(): a result goes to the waiter if there is one, a socket else  *)
(* to the queue; an error is kept; an accept the kernel let go of without  *)
(* an error is armed again, if there is an SQE.                            *)
(***************************************************************************)
Woken == CASE pc = "wait" -> "resume" [] pc = "loop_wait" -> "loop_resume" [] OTHER -> pc

(* Mutation of Queued: the waiter's socket is queued as well. *)
QueuedTwice(e) == IF e.res = "ok" THEN Append(pending, e.fd) ELSE pending

(* Mutation of Queued: a socket that nobody waits for is dropped. *)
DropsUnawaited(e) == pending

Queued(e) == IF e.res = "ok" /\ ~waiter THEN Append(pending, e.fd) ELSE pending

(* Mutation of MustRearm: an accept that ended is never armed again. *)
NeverRearm(e) == FALSE

MustRearm(e) == ~e.more /\ e.res = "ok"

Complete ==
    LET e == Head(cq)
    IN  /\ pc \notin {"flush", "loop", "gone"} /\ cq # <<>>
        /\ cq' = Tail(cq)
        /\ error' = IF e.res = "ok" THEN error ELSE e.res
        /\ pending' = Queued(e)
        /\ promised' = IF waiter THEN [fd |-> e.fd, res |-> e.res] ELSE promised
        /\ waiter' = FALSE /\ pc' = IF waiter THEN Woken ELSE pc
        /\ IF ~MustRearm(e) THEN UNCHANGED <<sqe, ring_full>>
           ELSE \/ sqe' = "armed" /\ UNCHANGED ring_full
                \/ ring_full > 0 /\ ring_full' = ring_full - 1 /\ UNCHANGED sqe
        /\ UNCHANGED <<userVars, accepted>>

(***************************************************************************)
(* next(), for the user and for the destructor's loop.  Got(fd) is what    *)
(* the caller does with a socket: the user keeps it, the loop closes it.   *)
(***************************************************************************)
InLoop == pc \in {"loop", "loop_resume"}
Got(fd) ==
    IF InLoop THEN closing' = fd /\ pc' = "loop_close" /\ UNCHANGED user
              ELSE user' = Append(user, fd) /\ pc' = "body" /\ UNCHANGED closing

NextPending ==
    /\ pc \in {"body", "loop"} /\ pending # <<>>
    /\ pending' = Tail(pending) /\ Got(Head(pending))
    /\ UNCHANGED <<error, waiter, promised, closed, stop, shut, close_fails, kernVars>>

NextResumes ==
    /\ pc \in {"resume", "loop_resume"} /\ promised.res = "ok"
    /\ promised' = NoResult /\ Got(promised.fd)
    /\ UNCHANGED <<error, pending, waiter, closed, stop, shut, close_fails, kernVars>>

(* nullopt or an exception, after the wait or from error_ at once. *)
NextEnds ==
    /\ \/ pc \in {"resume", "loop_resume"} /\ promised.res # "ok"
       \/ pc = "loop" /\ pending = <<>> /\ error # "live"
    /\ promised' = NoResult
    /\ pc' = IF InLoop THEN "gone" ELSE "body"
    /\ UNCHANGED <<error, pending, waiter, userVars, kernVars>>

NextStopped ==
    /\ pc \in {"body", "loop"} /\ pending = <<>> /\ error = "live" /\ stop
    /\ error' = "cancelled"
    /\ pc' = IF InLoop THEN "gone" ELSE "body"
    /\ UNCHANGED <<pending, waiter, promised, userVars, kernVars>>

NextWaits ==
    /\ pc \in {"body", "loop"} /\ pending = <<>> /\ error = "live" /\ ~stop
    /\ waiter' = TRUE
    /\ pc' = IF InLoop THEN "loop_wait" ELSE "wait"
    /\ UNCHANGED <<error, pending, promised, userVars, kernVars>>

(***************************************************************************)
(* The destructor.  With an error it closes what is queued; otherwise it   *)
(* shuts the socket down and closes what next() yields until it ends.  An  *)
(* exception of async_close ends it.                                       *)
(***************************************************************************)
(* Mutation of DestructorStarts: with an error the queue is forgotten. *)
ForgetsQueue ==
    /\ pc = "body"
    /\ pc' = IF error # "live" THEN "gone" ELSE "loop"
    /\ shut' = (shut \/ error = "live")
    /\ UNCHANGED <<objVars, user, closed, closing, stop, close_fails, kernVars>>

(* Mutation of DestructorStarts: the socket is not shut down. *)
NoShutdown ==
    /\ pc = "body"
    /\ pc' = IF error # "live" THEN "flush" ELSE "loop"
    /\ UNCHANGED <<objVars, userVars, kernVars>>

(* Mutation of DestructorStarts: it closes the queue and does not wait. *)
NoDrain ==
    /\ pc = "body"
    /\ pc' = "flush" /\ shut' = TRUE
    /\ UNCHANGED <<objVars, user, closed, closing, stop, close_fails, kernVars>>

DestructorStarts ==
    /\ pc = "body"
    /\ pc' = IF error # "live" THEN "flush" ELSE "loop"
    /\ shut' = (shut \/ error = "live")
    /\ UNCHANGED <<objVars, user, closed, closing, stop, close_fails, kernVars>>

FlushNext ==
    /\ pc = "flush"
    /\ IF pending = <<>> THEN pc' = "gone" /\ UNCHANGED closing
                         ELSE pc' = "flush_close" /\ closing' = Head(pending)
    /\ UNCHANGED <<objVars, user, closed, stop, shut, close_fails, kernVars>>

CloseDone ==
    /\ pc \in {"flush_close", "loop_close"}
    /\ closed' = closed \cup {closing} /\ closing' = None
    /\ IF pc = "flush_close" THEN pc' = "flush" /\ pending' = Tail(pending)
                             ELSE pc' = "loop" /\ UNCHANGED pending
    /\ UNCHANGED <<error, waiter, promised, user, stop, shut, close_fails, kernVars>>

CloseThrows ==
    /\ pc \in {"flush_close", "loop_close"} /\ close_fails > 0
    /\ close_fails' = close_fails - 1 /\ pc' = "gone"
    /\ UNCHANGED <<objVars, user, closed, closing, stop, shut, kernVars>>

Kernel ==
    \/ \E more \in BOOLEAN : KernelAccepts(more)
    \/ \E res \in {"einval", "failed"} : KernelEnds(res)

Fiber ==
    \/ NextPending \/ NextResumes \/ NextEnds \/ NextStopped \/ NextWaits
    \/ DestructorStarts \/ FlushNext \/ CloseDone \/ CloseThrows

Next == Kernel \/ RequestStop \/ ProgramShutsDown \/ Complete \/ Fiber

Spec == Init /\ [][Next]_vars

(***************************************************************************)
(* The worker drains completions that are there, a fiber that was woken or *)
(* is in the destructor keeps running, and the kernel ends an accept on a  *)
(* socket that was shut down.  Peers may be silent for ever.               *)
(***************************************************************************)
FairSpec ==
    /\ Spec
    /\ WF_vars(Complete) /\ WF_vars(KernelEnds("einval"))
    /\ WF_vars(NextResumes \/ NextEnds \/ FlushNext \/ CloseDone)
    /\ WF_vars(pc = "loop" /\ (NextPending \/ NextStopped \/ NextWaits))

-----------------------------------------------------------------------------

(***************************************************************************)
(* next() hands sockets out in the order of arrival, none twice and none   *)
(* lost: what the user has, what the promise carries, what is queued and   *)
(* what is in the completion queue follow each other in the order in which *)
(* the sockets were accepted, and are all of them.  Unless a stop was      *)
(* requested next() reports an end only when none is left.                 *)
(***************************************************************************)
SocketsInOrder ==
    LET arrived == {i \in DOMAIN cq : cq[i].res = "ok"}
        base == Len(user) + (IF promised.fd = None THEN 0 ELSE 1)
    IN  pc \in {"body", "wait", "resume"} =>
            /\ \A i \in DOMAIN user : user[i] = i
            /\ promised.fd # None => promised.fd = Len(user) + 1
            /\ \A i \in DOMAIN pending : pending[i] = base + i
            /\ \A i \in arrived : cq[i].fd = base + Len(pending) + i
            /\ base <= accepted
            /\ (base + 1)..accepted = {pending[i] : i \in DOMAIN pending}
                                      \cup {cq[i].fd : i \in arrived}
            /\ pending = <<>> /\ error # "live" /\ ~stop => base = accepted

(***************************************************************************)
(* For its user the object is a stream of results: a connection that was   *)
(* accepted is the next result, and next() hands its socket over.          *)
(***************************************************************************)
StreamPhase == IF pc \in {"body", "wait", "resume"} THEN "open" ELSE "closed"
LastSocket == IF user = <<>> THEN 0 ELSE user[Len(user)]
Stream == INSTANCE ResultStream WITH arrived <- accepted, handed <- LastSocket, phase <- StreamPhase
ImplementsStream == Stream!Spec

(***************************************************************************)
(* The destructor leaks no socket, unless a stop was requested or a close  *)
(* threw: when it is done every accepted socket belongs to the user or was *)
(* closed, and it closed none of the user's.                               *)
(***************************************************************************)
Undisturbed == ~stop /\ close_fails = MaxCloseFails
NoSocketLeaks ==
    LET kept == {user[i] : i \in DOMAIN user}
    IN  pc = "gone" /\ Undisturbed =>
            closed \cup kept = 1..accepted /\ closed \cap kept = {}

(***************************************************************************)
(* When the destructor is done, and again no stop was requested and no     *)
(* close threw, the kernel holds no accept of the object and no completion *)
(* names it: drain_cqes would call complete() on a dead object.            *)
(***************************************************************************)
ObjectOutlivesAccept == pc = "gone" /\ Undisturbed => sqe = "off" /\ cq = <<>>

(***************************************************************************)
(* A fiber suspended in next() has something to wake it, an armed accept   *)
(* or a completion not yet drained, unless complete() found no SQE.        *)
(***************************************************************************)
WaiterIsServed == waiter /\ ring_full = MaxRingFull => sqe = "armed" \/ cq # <<>>

(***************************************************************************)
(* A destructor that starts also ends: the shutdown ends the accept, one   *)
(* armed again meanwhile included, unless complete() found no SQE.         *)
(***************************************************************************)
DestructorReturns ==
    (pc \in {"flush", "loop"}) ~> (pc = "gone" \/ ring_full < MaxRingFull)
=============================================================================
