----------------------- MODULE MultishotAcceptorProofs -----------------------
(***************************************************************************)
(* Proofs about MultishotAcceptor for any number of connections, failing   *)
(* closes and null SQEs.                                                   *)
(***************************************************************************)
EXTENDS MultishotAcceptor, Integers, TLAPS

(* Queue t is s with e pushed at its back, or with e popped from its front. *)
Pushed(s, t, e) ==
    /\ Len(s) \in Nat /\ Len(t) = Len(s) + 1
    /\ t[Len(s) + 1] = e /\ \A i \in 1..Len(s) : t[i] = s[i]
Popped(s, t, e) ==
    /\ Len(s) \in Nat \ {0} /\ Len(t) = Len(s) - 1
    /\ e = s[1] /\ \A i \in 1..Len(t) : t[i] = s[i + 1]

(* The elements of a queue have the type of the queue. *)
LEMMA Elements ==
    ASSUME NEW S, NEW s \in Seq(S)
    PROVE  /\ Len(s) \in Nat /\ DOMAIN s = 1..Len(s)
           /\ \A i \in 1..Len(s) : s[i] \in S
           /\ s # <<>> <=> Len(s) # 0
  OBVIOUS

(* Append pushes at the back. *)
LEMMA PushBack ==
    ASSUME NEW S, NEW s \in Seq(S), NEW e \in S
    PROVE  /\ Append(s, e) \in Seq(S) /\ Append(s, e) # <<>>
           /\ Pushed(s, Append(s, e), e)
  BY DEF Pushed

(* Head and Tail pop from the front. *)
LEMMA PopFront ==
    ASSUME NEW S, NEW s \in Seq(S), s # <<>>
    PROVE  /\ Head(s) \in S /\ Tail(s) \in Seq(S)
           /\ Tail(s) = <<>> <=> Len(s) = 1
           /\ Popped(s, Tail(s), Head(s))
  <1>1. Len(s) \in Nat \ {0} /\ Tail(s) \in Seq(S) /\ Len(Tail(s)) = Len(s) - 1
    OBVIOUS
  <1>2. Tail(s) = <<>> <=> Len(s) = 1
    <2>1. Tail(s) = <<>> <=> Len(Tail(s)) = 0
      BY <1>1, Elements
    <2> QED
      BY <1>1, <2>1
  <1>3. /\ Head(s) \in S /\ Head(s) = s[1]
        /\ \A i \in 1..Len(Tail(s)) : Tail(s)[i] = s[i + 1]
    OBVIOUS
  <1> QED
    BY <1>1, <1>2, <1>3 DEF Popped

-----------------------------------------------------------------------------
Waits == {"wait", "loop_wait"}
Resumes == {"resume", "loop_resume"}
Closes == {"flush_close", "loop_close"}
Streaming == pc \in {"body", "wait", "resume"}

(***************************************************************************)
(* The shape of the completion queue.  Exactly the successful completions  *)
(* have a socket; a completion without IORING_CQE_F_MORE is the last one   *)
(* and leaves no accept armed; one with it leaves the accept armed.        *)
(***************************************************************************)
QueueShape ==
    /\ \A i \in 1..Len(cq) :
          /\ cq[i].res = "ok" <=> cq[i].fd # None
          /\ cq[i].res # "ok" => ~cq[i].more
          /\ ~cq[i].more => i = Len(cq) /\ sqe = "off"
    /\ \A i \in 1..Len(cq) : i = Len(cq) /\ cq[i].more => sqe = "armed"

(* error_ without a stop request: the accept has ended and is drained. *)
ErrorIsFinal == ~stop /\ error # "live" => sqe = "off" /\ cq = <<>>

(* A fiber waits only while the object is live and nothing is queued; a    *)
(* live object has an accept armed or a completion on its way, unless an   *)
(* SQE was missing.                                                        *)
LiveIsServed ==
    /\ waiter => pc \in Waits /\ error = "live" /\ pending = <<>>
    /\ error = "live" /\ ring_full = MaxRingFull => sqe = "armed" \/ cq # <<>>

(* The promise holds a result only until next() returns it; an error in it *)
(* is the last result of the accept.                                       *)
PromiseShape ==
    /\ pc \notin Resumes => promised = NoResult
    /\ pc \in Resumes => (promised.res = "ok" <=> promised.fd # None)
    /\ promised.res # "ok" =>
          error # "live" /\ pending = <<>> /\ sqe = "off" /\ cq = <<>>

(* The destructor: what it is closing, and how it may come to its end. *)
DestructorShape ==
    /\ Streaming => close_fails = MaxCloseFails /\ closed = {} /\ closing = None
    /\ pc \in Closes => closing # None
    /\ pc = "flush_close" => pending # <<>> /\ closing = pending[1]
    /\ pc \notin Closes /\ close_fails = MaxCloseFails => closing = None
    /\ pc \in {"flush", "flush_close"} => error # "live"
    /\ pc = "gone" /\ Undisturbed => error # "live" /\ pending = <<>>

(***************************************************************************)
(* The sockets stand in one line, in the order of their arrival: those the *)
(* user has, those the destructor closed, the one on its way from next()   *)
(* to its caller or being closed, those queued and those completed.  m of  *)
(* them have left the object.                                              *)
(***************************************************************************)
OnItsWay == IF pc = "loop_close" THEN closing ELSE promised.fd
Way == IF OnItsWay = None THEN 0 ELSE 1
EndsWithError == \E i \in 1..Len(cq) : i = Len(cq) /\ cq[i].res # "ok"
Left(m) ==
    /\ \A i \in 1..Len(user) : user[i] = i
    /\ Len(user) <= m /\ closed = (Len(user) + 1)..m
InLine(m) ==
    /\ OnItsWay # None => OnItsWay = m + 1
    /\ \A i \in 1..Len(pending) : pending[i] = m + Way + i
    /\ \A i \in 1..Len(cq) : cq[i].res = "ok" => cq[i].fd = m + Way + Len(pending) + i
    /\ accepted = m + Way + Len(pending) + Len(cq) - (IF EndsWithError THEN 1 ELSE 0)
Line == close_fails = MaxCloseFails => \E m \in 0..accepted : Left(m) /\ InLine(m)

IInv == /\ TypeOK /\ QueueShape /\ ErrorIsFinal /\ LiveIsServed /\ PromiseShape
        /\ DestructorShape /\ Line

-----------------------------------------------------------------------------
Cqes == [fd : Fds \cup {None}, res : Errors \cup {"ok"}, more : BOOLEAN]

(* What next() yields is a socket, for its user or for the destructor. *)
LEMMA GotType ==
    ASSUME TypeOK, NEW fd \in Fds, Got(fd)
    PROVE  /\ user' \in Seq(Fds) /\ closing' \in Fds \cup {None}
           /\ pc' \in {"loop_close", "body"}
  <1>1. CASE InLoop
    BY Zenon, <1>1 DEF Got, TypeOK
  <1>2. CASE ~InLoop
    <2>1. user \in Seq(Fds)
      BY Zenon DEF TypeOK
    <2>2. Append(user, fd) \in Seq(Fds)
      BY Zenon, <2>1, PushBack
    <2> QED
      BY Zenon, <1>2, <2>2 DEF Got, TypeOK
  <1> QED
    BY Zenon, <1>1, <1>2

(* Every step preserves the types. *)
LEMMA TypeStep ==
    ASSUME TypeOK, QueueShape, PromiseShape, DestructorShape, [Next]_vars
    PROVE  TypeOK'
  <1> USE AcceptAssumption DEF TypeOK
  <1>1. ASSUME NEW more \in BOOLEAN, KernelAccepts(more) PROVE TypeOK'
    <2> DEFINE e == [fd |-> accepted + 1, res |-> "ok", more |-> more]
    <2>1. accepted' \in 0..MaxAccepts /\ accepted + 1 \in Fds
      BY <1>1 DEF KernelAccepts, Fds
    <2>2. e \in Cqes
      BY Zenon, <2>1 DEF Cqes
    <2>3. cq' \in Seq(Cqes)
      BY Zenon, <1>1, <2>2, PushBack DEF KernelAccepts, Cqes
    <2> QED
      BY <1>1, <2>1, <2>3 DEF KernelAccepts, objVars, userVars, Cqes
  <1>2. ASSUME NEW res \in {"einval", "failed"}, KernelEnds(res) PROVE TypeOK'
    <2> DEFINE e == [fd |-> None, res |-> res, more |-> FALSE]
    <2>1. e \in Cqes
      BY Zenon DEF Cqes, Errors
    <2>2. cq' \in Seq(Cqes)
      BY Zenon, <1>2, <2>1, PushBack DEF KernelEnds, Cqes
    <2> QED
      BY <1>2, <2>2 DEF KernelEnds, objVars, userVars, Cqes
  <1>3. CASE RequestStop \/ ProgramShutsDown
    BY Zenon, <1>3 DEF RequestStop, ProgramShutsDown, objVars, kernVars
  <1>4. CASE Complete
    <2> DEFINE e == Head(cq)
    <2>1. e \in Cqes /\ cq' \in Seq(Cqes)
      BY Zenon, <1>4, PopFront DEF Complete, Cqes
    <2>2. e.fd \in Fds \cup {None} /\ e.res \in Errors \cup {"ok"}
      BY Zenon, <2>1 DEF Cqes
    <2>3. pending' \in Seq(Fds)
      <3>0. Popped(cq, cq', e)
        BY Zenon, <1>4, PopFront DEF Complete
      <3>1. e.res = "ok" => e.fd \in Fds
        BY <2>2, <3>0 DEF Popped, QueueShape
      <3>2. CASE e.res = "ok" /\ ~waiter
        BY Zenon, <1>4, <3>1, <3>2, PushBack DEF Complete, Queued
      <3>3. CASE ~(e.res = "ok" /\ ~waiter)
        BY Zenon, <1>4, <3>3 DEF Complete, Queued
      <3> QED
        BY Zenon, <3>2, <3>3
    <2>4. promised' \in [fd : Fds \cup {None}, res : Errors \cup {"ok"}]
      BY Zenon, <1>4, <2>2 DEF Complete
    <2>5. /\ error' \in Errors \cup {"live"} /\ waiter' \in BOOLEAN
          /\ sqe' \in {"armed", "off"} /\ ring_full' \in 0..MaxRingFull
      <3>1. /\ error' \in {error, e.res} /\ waiter' = FALSE /\ sqe' \in {sqe, "armed"}
            /\ ring_full' = ring_full \/ (ring_full > 0 /\ ring_full' = ring_full - 1)
            /\ e.res = "ok" => error' = error
        BY Zenon, <1>4 DEF Complete
      <3>2. error' \in Errors \cup {"live"} /\ sqe' \in {"armed", "off"}
        BY Zenon, <2>2, <3>1
      <3>3. ring_full' \in 0..MaxRingFull
        BY <3>1
      <3> QED
        BY Zenon, <3>1, <3>2, <3>3
    <2>6. pc' \in {"body", "wait", "resume", "flush", "flush_close", "loop", "loop_wait",
                   "loop_resume", "loop_close", "gone"}
      BY Zenon, <1>4 DEF Complete, Woken
    <2> QED
      BY Zenon, <1>4, <2>1, <2>3, <2>4, <2>5, <2>6 DEF Complete, userVars, Cqes
  <1>5. CASE NextPending
    <2>1. /\ pending # <<>> /\ pending' = Tail(pending) /\ Got(Head(pending))
          /\ UNCHANGED <<error, waiter, promised, closed, stop, shut, close_fails, kernVars>>
      BY Zenon, <1>5 DEF NextPending
    <2>2. Head(pending) \in Fds /\ Tail(pending) \in Seq(Fds)
      BY Zenon, <2>1, PopFront
    <2>3. /\ user' \in Seq(Fds) /\ closing' \in Fds \cup {None}
          /\ pc' \in {"loop_close", "body"}
      BY Zenon, <2>1, <2>2, GotType
    <2> QED
      BY Zenon, <2>1, <2>2, <2>3 DEF kernVars
  <1>6. CASE NextResumes
    <2>1. /\ pc \in Resumes /\ promised.res = "ok" /\ promised' = NoResult /\ Got(promised.fd)
          /\ UNCHANGED <<error, pending, waiter, closed, stop, shut, close_fails, kernVars>>
      BY Zenon, <1>6 DEF NextResumes, Resumes
    <2>2. promised.fd \in Fds
      BY Zenon, <2>1 DEF PromiseShape
    <2>3. /\ user' \in Seq(Fds) /\ closing' \in Fds \cup {None}
          /\ pc' \in {"loop_close", "body"}
      BY Zenon, <2>1, <2>2, GotType
    <2>4. promised' \in [fd : Fds \cup {None}, res : Errors \cup {"ok"}]
      BY Zenon, <2>1 DEF NoResult
    <2> QED
      BY Zenon, <2>1, <2>3, <2>4 DEF kernVars
  <1>7. CASE NextEnds \/ NextStopped \/ NextWaits
    <2>1. /\ promised' \in {promised, NoResult} /\ error' \in {error, "cancelled"}
          /\ waiter' \in {waiter, TRUE} /\ pc' \in {"gone", "body", "loop_wait", "wait"}
          /\ UNCHANGED <<pending, userVars, kernVars>>
      BY Zenon, <1>7 DEF NextEnds, NextStopped, NextWaits
    <2>2. promised' \in [fd : Fds \cup {None}, res : Errors \cup {"ok"}]
      BY <2>1 DEF NoResult
    <2> QED
      BY ZenonT(60), <2>1, <2>2 DEF userVars, kernVars, Errors
  <1>8. CASE DestructorStarts \/ CloseThrows
    <2>1. /\ pc' \in {"gone", "flush", "loop"} /\ shut' \in BOOLEAN
          /\ UNCHANGED <<objVars, user, closed, closing, stop, kernVars>>
      BY Zenon, <1>8 DEF DestructorStarts, CloseThrows
    <2>2. close_fails' \in 0..MaxCloseFails
      BY <1>8 DEF DestructorStarts, CloseThrows
    <2> QED
      BY <2>1, <2>2 DEF objVars, kernVars
  <1>9. CASE FlushNext
    <2>1. pending # <<>> => Head(pending) \in Fds
      BY Zenon, PopFront
    <2> QED
      BY Zenon, <1>9, <2>1 DEF FlushNext, objVars, kernVars
  <1>10. CASE CloseDone
    <2>1. pc = "flush_close" => Tail(pending) \in Seq(Fds)
      BY Zenon, PopFront DEF DestructorShape
    <2>2. closing \in Fds
      BY Zenon, <1>10 DEF CloseDone, DestructorShape, Closes
    <2> QED
      BY Zenon, <1>10, <2>1, <2>2 DEF CloseDone, kernVars
  <1>11. CASE UNCHANGED vars
    BY <1>11 DEF vars
  <1> QED
    BY Zenon, <1>1, <1>2, <1>3, <1>4, <1>5, <1>6, <1>7, <1>8, <1>9, <1>10, <1>11
       DEF Next, Kernel, Fiber

-----------------------------------------------------------------------------
(* A completion is posted only while the accept is armed. *)
LEMMA PostKeepsShape ==
    ASSUME QueueShape, sqe = "armed", NEW e, Pushed(cq, cq', e),
           e.res = "ok" <=> e.fd # None, e.res # "ok" => ~e.more,
           sqe' = IF e.more THEN "armed" ELSE "off"
    PROVE  QueueShape'
  <1>1. \A i \in 1..Len(cq) : cq[i].more
    BY Zenon DEF QueueShape
  <1>2. ASSUME NEW i \in 1..Len(cq')
        PROVE  \/ i = Len(cq') /\ cq'[i] = e
               \/ i # Len(cq') /\ i \in 1..Len(cq) /\ cq'[i] = cq[i]
    <2>1. Len(cq) \in Nat /\ Len(cq') = Len(cq) + 1
      BY Zenon DEF Pushed
    <2>2. i = Len(cq) + 1 \/ i \in 1..Len(cq)
      BY <2>1
    <2> QED
      BY Zenon, <2>1, <2>2 DEF Pushed
  <1> QED
    BY Zenon, <1>1, <1>2 DEF QueueShape

(* A drained completion leaves the others in their order; after one without *)
(* IORING_CQE_F_MORE none is left.                                          *)
LEMMA DrainKeepsShape ==
    ASSUME QueueShape, NEW e, Popped(cq, cq', e), e.more => sqe' = sqe
    PROVE  /\ QueueShape'
           /\ ~e.more => Len(cq) = 1 /\ sqe = "off"
           /\ e.more /\ Len(cq) = 1 => sqe = "armed"
           /\ (e.res = "ok" <=> e.fd # None) /\ (e.res # "ok" => ~e.more)
  <1>1. 1 \in 1..Len(cq) /\ e = cq[1]
    BY DEF Popped
  <1>2. /\ ~e.more => Len(cq) = 1 /\ sqe = "off"
        /\ (e.res = "ok" <=> e.fd # None) /\ (e.res # "ok" => ~e.more)
    BY Zenon, <1>1 DEF QueueShape
  <1>3. e.more /\ Len(cq) = 1 => sqe = "armed"
    BY Zenon, <1>1 DEF QueueShape
  <1>4. QueueShape'
    <2>1. CASE Len(cq) = 1
      BY <2>1 DEF QueueShape, Popped
    <2>2. CASE Len(cq) # 1
      <3>1. sqe' = sqe
        BY Zenon, <2>2, <1>2
      <3>2. ASSUME NEW i \in 1..Len(cq')
            PROVE  /\ i + 1 \in 1..Len(cq) /\ (i + 1 = Len(cq) <=> i = Len(cq'))
                   /\ cq'[i] = cq[i + 1]
        <4>1. Len(cq) \in Nat \ {0} /\ Len(cq') = Len(cq) - 1
          BY Zenon DEF Popped
        <4>2. i + 1 \in 1..Len(cq) /\ (i + 1 = Len(cq) <=> i = Len(cq'))
          BY <4>1
        <4> QED
          BY Zenon, <4>2 DEF Popped
      <3>3. ASSUME NEW i \in 1..Len(cq')
            PROVE  /\ cq'[i].res = "ok" <=> cq'[i].fd # None
                   /\ cq'[i].res # "ok" => ~cq'[i].more
                   /\ ~cq'[i].more => i = Len(cq') /\ sqe' = "off"
                   /\ i = Len(cq') /\ cq'[i].more => sqe' = "armed"
        BY <3>1, <3>2 DEF QueueShape
      <3> QED
        BY Zenon, <3>3 DEF QueueShape
    <2> QED
      BY Zenon, <2>1, <2>2
  <1> QED
    BY Zenon, <1>2, <1>3, <1>4

(***************************************************************************)
(* complete() takes one result e from the completion queue and hands it to *)
(* the waiter or queues its socket.                                        *)
(***************************************************************************)
Drains(e) ==
    /\ pc \notin {"flush", "loop", "gone"} /\ Popped(cq, cq', e)
    /\ cq' = <<>> <=> Len(cq) = 1
    /\ error' = IF e.res = "ok" THEN error ELSE e.res
    /\ waiter' = FALSE
    /\ \/ /\ waiter /\ UNCHANGED pending
          /\ promised' = [fd |-> e.fd, res |-> e.res] /\ pc' = Woken
       \/ /\ ~waiter /\ UNCHANGED <<promised, pc>>
          /\ \/ e.res = "ok" /\ pending' # <<>> /\ Pushed(pending, pending', e.fd)
             \/ e.res # "ok" /\ UNCHANGED pending
    /\ \/ ~MustRearm(e) /\ UNCHANGED <<sqe, ring_full>>
       \/ MustRearm(e) /\ sqe' = "armed" /\ UNCHANGED ring_full
       \/ MustRearm(e) /\ ring_full > 0 /\ ring_full' = ring_full - 1 /\ UNCHANGED sqe
    /\ UNCHANGED <<userVars, accepted>>

(* Complete is such a step. *)
LEMMA CompleteDrains ==
    ASSUME TypeOK, QueueShape, Complete
    PROVE  \E e \in Cqes : Drains(e)
  <1> DEFINE e == Head(cq)
  <1>1. e \in Cqes /\ Popped(cq, cq', e) /\ (cq' = <<>> <=> Len(cq) = 1)
    BY Zenon, PopFront DEF Complete, TypeOK, Cqes
  <1>2. e.res = "ok" => e.fd \in Fds
    BY <1>1 DEF QueueShape, Popped, Cqes
  <1>3. pending \in Seq(Fds)
    BY Zenon DEF TypeOK
  <1>4. CASE waiter
    BY ZenonT(30), <1>1, <1>4 DEF Complete, Drains, Queued
  <1>5. CASE ~waiter /\ e.res = "ok"
    <2>1. pending' # <<>> /\ Pushed(pending, pending', e.fd)
      BY Zenon, <1>2, <1>3, <1>5, PushBack DEF Complete, Queued
    <2> QED
      BY ZenonT(30), <1>1, <1>5, <2>1 DEF Complete, Drains
  <1>6. CASE ~waiter /\ e.res # "ok"
    BY ZenonT(30), <1>1, <1>6 DEF Complete, Drains, Queued
  <1> QED
    BY Zenon, <1>4, <1>5, <1>6

(* The course of the object, from its first accept to the destructor's end. *)
Course == QueueShape /\ ErrorIsFinal /\ LiveIsServed /\ PromiseShape /\ DestructorShape

(* complete() keeps the object on its course. *)
LEMMA DrainKeepsCourse ==
    ASSUME TypeOK, Course, NEW e \in Cqes, Drains(e)
    PROVE  Course'
  <1> USE DEF Course
  <1>1. e.more => sqe' = sqe
    BY Zenon DEF Drains, MustRearm
  <1>2. /\ QueueShape'
        /\ ~e.more => Len(cq) = 1 /\ sqe = "off"
        /\ e.more /\ Len(cq) = 1 => sqe = "armed"
        /\ (e.res = "ok" <=> e.fd # None) /\ (e.res # "ok" => ~e.more)
    BY Zenon, <1>1, DrainKeepsShape DEF Drains
  <1>3. cq # <<>> /\ (cq' = <<>> <=> Len(cq) = 1)
    <2>1. Len(cq) # 0 /\ cq \in Seq(Cqes)
      BY Zenon DEF Drains, Popped, TypeOK, Cqes
    <2> QED
      BY Zenon, <2>1, Elements DEF Drains
  <1>4. e.res # "ok" => cq' = <<>> /\ sqe' = "off"
    BY Zenon, <1>2, <1>3 DEF Drains, MustRearm
  <1>5. ErrorIsFinal'
    BY Zenon, <1>3, <1>4 DEF ErrorIsFinal, Drains, userVars
  <1>6. LiveIsServed'
    <2>1. ASSUME error' = "live", ring_full' = MaxRingFull, cq' = <<>> PROVE sqe' = "armed"
      <3>1. e.res = "ok" /\ Len(cq) = 1
        BY Zenon, <1>3, <2>1 DEF Drains, Cqes, Errors
      <3>2. ring_full \in Nat /\ ring_full <= MaxRingFull /\ MaxRingFull \in Nat
        BY AcceptAssumption DEF TypeOK
      <3>3. CASE e.more
        BY Zenon, <1>1, <1>2, <3>1, <3>3
      <3>4. CASE ~e.more
        BY <2>1, <3>1, <3>2, <3>4 DEF Drains, MustRearm
      <3> QED
        BY Zenon, <3>3, <3>4
    <2> QED
      BY Zenon, <2>1 DEF LiveIsServed, Drains
  <1>7. CASE waiter
    <2>1. /\ pc \in Waits /\ error = "live" /\ UNCHANGED pending /\ pending = <<>>
          /\ promised' = [fd |-> e.fd, res |-> e.res] /\ pc' = Woken
      BY Zenon, <1>7 DEF LiveIsServed, Drains
    <2>2. (pc = "wait" /\ pc' = "resume") \/ (pc = "loop_wait" /\ pc' = "loop_resume")
      BY Zenon, <2>1 DEF Waits, Woken
    <2>3. PromiseShape'
      BY Zenon, <1>2, <1>4, <2>1, <2>2 DEF PromiseShape, Drains, Resumes, Cqes, Errors
    <2>4. DestructorShape'
      BY Zenon, <2>1, <2>2 DEF DestructorShape, Drains, userVars, Closes, Streaming, Undisturbed
    <2> QED
      BY Zenon, <1>2, <1>5, <1>6, <2>3, <2>4
  <1>8. CASE ~waiter
    <2>1. UNCHANGED <<promised, pc>>
      BY Zenon, <1>8 DEF Drains
    <2>2. error' = "live" => error = "live"
      BY Zenon DEF Drains, Cqes, Errors
    <2>3. PromiseShape'
      BY Zenon, <1>3, <2>1, <2>2 DEF PromiseShape, NoResult
    <2>4. pending # <<>> => pending' # <<>> /\ pending'[1] = pending[1]
      <3>1. pending \in Seq(Fds)
        BY Zenon DEF TypeOK
      <3>2. pending # <<>> => 1 \in 1..Len(pending)
        BY <3>1
      <3> QED
        BY Zenon, <1>8, <3>2 DEF Drains, Pushed
    <2>5. DestructorShape'
      BY Zenon, <2>1, <2>2, <2>4 DEF DestructorShape, Drains, userVars, Closes, Streaming, Undisturbed
    <2> QED
      BY Zenon, <1>2, <1>5, <1>6, <2>3, <2>5
  <1> QED
    BY Zenon, <1>7, <1>8

(* So does every other step: results come in order, and the destructor     *)
(* ends when the accept has ended, if nothing disturbs it.                 *)
LEMMA CourseStep ==
    ASSUME TypeOK, Course, [Next]_vars
    PROVE  Course'
  <1> USE DEF Course
  <1>0. cq \in Seq(Cqes) /\ pending \in Seq(Fds)
    BY Zenon DEF TypeOK, Cqes
  <1>1. ASSUME NEW e \in Cqes, sqe = "armed", cq' = Append(cq, e),
               e.res = "ok" <=> e.fd # None, e.res # "ok" => ~e.more,
               sqe' = IF e.more THEN "armed" ELSE "off",
               UNCHANGED <<pc, objVars, userVars, ring_full>>
        PROVE  Course'
    <2>1. cq' # <<>> /\ Pushed(cq, cq', e)
      BY Zenon, <1>0, <1>1, PushBack
    <2>2. QueueShape'
      BY Zenon, <1>1, <2>1, PostKeepsShape
    <2>3. ErrorIsFinal' /\ LiveIsServed'
      BY Zenon, <1>1, <2>1 DEF ErrorIsFinal, LiveIsServed, objVars, userVars
    <2>4. PromiseShape' /\ DestructorShape'
      BY Zenon, <1>1 DEF PromiseShape, DestructorShape, objVars, userVars, Undisturbed, Streaming
    <2> QED
      BY Zenon, <2>2, <2>3, <2>4
  <1>2. ASSUME NEW more \in BOOLEAN, KernelAccepts(more) PROVE Course'
    <2> DEFINE e == [fd |-> accepted + 1, res |-> "ok", more |-> more]
    <2>1. e \in Cqes /\ e.res = "ok" /\ e.fd # None /\ e.more = more
      <3>1. accepted + 1 \in Fds /\ accepted + 1 # None
        BY <1>2, AcceptAssumption DEF KernelAccepts, TypeOK, Fds, None
      <3> QED
        BY Zenon, <3>1 DEF Cqes
    <2>2. /\ sqe = "armed" /\ cq' = Append(cq, e) /\ sqe' = IF e.more THEN "armed" ELSE "off"
          /\ UNCHANGED <<pc, objVars, userVars, ring_full>>
      BY Zenon, <1>2 DEF KernelAccepts
    <2> QED
      BY Zenon, <1>1, <2>1, <2>2
  <1>3. ASSUME NEW res \in {"einval", "failed"}, KernelEnds(res) PROVE Course'
    <2> DEFINE e == [fd |-> None, res |-> res, more |-> FALSE]
    <2>1. e \in Cqes /\ e.res # "ok" /\ e.fd = None /\ ~e.more
      BY Zenon DEF Cqes, Errors
    <2>2. /\ sqe = "armed" /\ cq' = Append(cq, e) /\ sqe' = IF e.more THEN "armed" ELSE "off"
          /\ UNCHANGED <<pc, objVars, userVars, ring_full>>
      BY Zenon, <1>3 DEF KernelEnds
    <2> QED
      BY Zenon, <1>1, <2>1, <2>2
  <1>4. CASE RequestStop \/ ProgramShutsDown
    <2>1. /\ pc # "gone" /\ (stop => stop')
          /\ UNCHANGED <<pc, objVars, user, closed, closing, close_fails, kernVars>>
      BY <1>4 DEF RequestStop, ProgramShutsDown
    <2>2. QueueShape' /\ ErrorIsFinal' /\ LiveIsServed'
      BY Zenon, <2>1 DEF QueueShape, ErrorIsFinal, LiveIsServed, objVars, kernVars
    <2>3. PromiseShape' /\ DestructorShape'
      BY Zenon, <2>1 DEF PromiseShape, DestructorShape, Streaming, Undisturbed, objVars, kernVars
    <2> QED
      BY Zenon, <2>2, <2>3
  <1>5. CASE Complete
    BY Zenon, <1>5, CompleteDrains, DrainKeepsCourse
  <1>6. CASE NextPending
    <2>1. /\ pc \in {"body", "loop"} /\ pending # <<>> /\ pending' = Tail(pending)
          /\ UNCHANGED <<error, waiter, promised, closed, stop, shut, close_fails, kernVars>>
      BY Zenon, <1>6 DEF NextPending
    <2>2. /\ pc = "body" => pc' = "body" /\ UNCHANGED closing
          /\ pc = "loop" => pc' = "loop_close" /\ closing' = Head(pending)
      BY Zenon, <1>6 DEF NextPending, Got, InLoop
    <2>3. Head(pending) # None
      <3>1. Head(pending) \in Fds
        BY Zenon, <1>0, <2>1, PopFront
      <3> QED
        BY <3>1 DEF Fds, None
    <2>4. QueueShape' /\ ErrorIsFinal' /\ LiveIsServed'
      BY Zenon, <2>1 DEF QueueShape, ErrorIsFinal, LiveIsServed, kernVars
    <2>5. PromiseShape'
      BY Zenon, <2>1, <2>2 DEF PromiseShape, Resumes, NoResult
    <2>6. DestructorShape'
      BY Zenon, <2>1, <2>2, <2>3 DEF DestructorShape, Closes, Streaming, Undisturbed
    <2> QED
      BY Zenon, <2>4, <2>5, <2>6
  <1>7. CASE NextResumes
    <2>1. /\ pc \in Resumes /\ promised.res = "ok" /\ promised' = NoResult
          /\ UNCHANGED <<error, pending, waiter, closed, stop, shut, close_fails, kernVars>>
      BY Zenon, <1>7 DEF NextResumes, Resumes
    <2>2. /\ pc = "resume" => pc' = "body" /\ UNCHANGED closing
          /\ pc = "loop_resume" => pc' = "loop_close" /\ closing' = promised.fd
      BY Zenon, <1>7 DEF NextResumes, Got, InLoop
    <2>3. QueueShape' /\ ErrorIsFinal' /\ LiveIsServed'
      BY Zenon, <2>1 DEF QueueShape, ErrorIsFinal, LiveIsServed, kernVars, Waits, Resumes
    <2>4. PromiseShape'
      BY Zenon, <2>1, <2>2 DEF PromiseShape, Resumes, NoResult
    <2>5. DestructorShape'
      BY Zenon, <2>1, <2>2 DEF DestructorShape, PromiseShape, Closes, Streaming, Undisturbed, Resumes
    <2> QED
      BY Zenon, <2>3, <2>4, <2>5
  <1>8. CASE NextEnds
    <2>1. /\ promised' = NoResult
          /\ UNCHANGED <<error, pending, waiter, userVars, kernVars>>
          /\ pc \in Resumes \cup {"loop"}
          /\ pc' = IF pc = "resume" THEN "body" ELSE "gone"
          /\ error # "live" /\ pending = <<>>
      BY Zenon, <1>8 DEF NextEnds, InLoop, Resumes, PromiseShape
    <2>2. QueueShape' /\ ErrorIsFinal' /\ LiveIsServed'
      BY Zenon, <2>1 DEF QueueShape, ErrorIsFinal, LiveIsServed, kernVars, userVars, Waits, Resumes
    <2>3. PromiseShape'
      BY Zenon, <2>1 DEF PromiseShape, Resumes, NoResult
    <2>4. DestructorShape'
      BY Zenon, <2>1 DEF DestructorShape, userVars, Closes, Streaming, Undisturbed, Resumes
    <2> QED
      BY Zenon, <2>2, <2>3, <2>4
  <1>9. CASE NextStopped
    <2>1. /\ UNCHANGED <<pending, waiter, promised, userVars, kernVars>>
          /\ pc \in {"body", "loop"} /\ stop /\ error' # "live" /\ pending = <<>>
          /\ pc' = IF pc = "loop" THEN "gone" ELSE "body"
      BY Zenon, <1>9 DEF NextStopped, InLoop
    <2>2. QueueShape' /\ ErrorIsFinal' /\ LiveIsServed'
      BY Zenon, <2>1 DEF QueueShape, ErrorIsFinal, LiveIsServed, kernVars, userVars, Waits
    <2>3. PromiseShape'
      BY <2>1 DEF PromiseShape, Resumes, NoResult
    <2>4. DestructorShape'
      BY Zenon, <2>1 DEF DestructorShape, userVars, Closes, Streaming, Undisturbed
    <2> QED
      BY Zenon, <2>2, <2>3, <2>4
  <1>10. CASE NextWaits
    <2>1. /\ UNCHANGED <<error, pending, promised, userVars, kernVars>>
          /\ pc \in {"body", "loop"} /\ error = "live" /\ pending = <<>>
          /\ pc' = IF pc = "loop" THEN "loop_wait" ELSE "wait"
      BY Zenon, <1>10 DEF NextWaits, InLoop
    <2>2. QueueShape' /\ ErrorIsFinal' /\ LiveIsServed'
      BY Zenon, <2>1 DEF QueueShape, ErrorIsFinal, LiveIsServed, kernVars, userVars, Waits
    <2>3. PromiseShape'
      BY Zenon, <2>1 DEF PromiseShape, Resumes, NoResult
    <2>4. DestructorShape'
      BY Zenon, <2>1 DEF DestructorShape, userVars, Closes, Streaming, Undisturbed
    <2> QED
      BY Zenon, <2>2, <2>3, <2>4
  <1>11. CASE DestructorStarts
    <2>1. /\ UNCHANGED <<objVars, user, closed, closing, stop, close_fails, kernVars>>
          /\ pc = "body" /\ pc' = IF error # "live" THEN "flush" ELSE "loop"
      BY Zenon, <1>11 DEF DestructorStarts
    <2>2. QueueShape' /\ ErrorIsFinal' /\ LiveIsServed'
      BY Zenon, <2>1 DEF QueueShape, ErrorIsFinal, LiveIsServed, kernVars, objVars, Waits
    <2>3. PromiseShape' /\ DestructorShape'
      BY <2>1 DEF PromiseShape, DestructorShape, objVars, Resumes, Closes, Streaming, Undisturbed,
           NoResult
    <2> QED
      BY Zenon, <2>2, <2>3
  <1>12. CASE FlushNext
    <2>1. /\ UNCHANGED <<objVars, user, closed, stop, close_fails, kernVars>> /\ pc = "flush"
          /\ pending = <<>> => pc' = "gone" /\ UNCHANGED closing
          /\ pending # <<>> => pc' = "flush_close" /\ closing' = Head(pending)
      BY Zenon, <1>12 DEF FlushNext
    <2>2. pending # <<>> => Head(pending) # None /\ Head(pending) = pending[1]
      <3>1. pending # <<>> => Head(pending) \in Fds /\ Popped(pending, Tail(pending), Head(pending))
        BY Zenon, <1>0, PopFront
      <3> QED
        BY <3>1 DEF Fds, None, Popped
    <2>3. QueueShape' /\ ErrorIsFinal' /\ LiveIsServed'
      BY Zenon, <2>1 DEF QueueShape, ErrorIsFinal, LiveIsServed, kernVars, objVars, Waits
    <2>4. PromiseShape'
      BY Zenon, <2>1 DEF PromiseShape, objVars, kernVars, Resumes, NoResult
    <2>5. DestructorShape'
      BY Zenon, <2>1, <2>2 DEF DestructorShape, objVars, Closes, Streaming, Undisturbed
    <2> QED
      BY Zenon, <2>3, <2>4, <2>5
  <1>13. CASE CloseDone
    <2>1. /\ UNCHANGED <<error, waiter, promised, user, stop, close_fails, kernVars>>
          /\ pc \in Closes /\ closing' = None
          /\ pc' = IF pc = "flush_close" THEN "flush" ELSE "loop"
      BY Zenon, <1>13 DEF CloseDone, Closes
    <2>2. QueueShape' /\ ErrorIsFinal' /\ LiveIsServed'
      BY Zenon, <2>1 DEF QueueShape, ErrorIsFinal, LiveIsServed, kernVars, Waits, Closes
    <2>3. PromiseShape'
      BY <2>1 DEF PromiseShape, Resumes, Closes, NoResult
    <2>4. DestructorShape'
      BY Zenon, <2>1 DEF DestructorShape, Closes, Streaming, Undisturbed
    <2> QED
      BY Zenon, <2>2, <2>3, <2>4
  <1>14. CASE CloseThrows
    <2>1. /\ UNCHANGED <<objVars, user, closed, closing, stop, kernVars>>
          /\ pc \in Closes /\ pc' = "gone" /\ close_fails' = close_fails - 1
      BY Zenon, <1>14 DEF CloseThrows, Closes
    <2>2. close_fails' # MaxCloseFails
      BY <2>1, AcceptAssumption DEF TypeOK
    <2>3. QueueShape' /\ ErrorIsFinal' /\ LiveIsServed'
      BY Zenon, <2>1 DEF QueueShape, ErrorIsFinal, LiveIsServed, kernVars, objVars, Waits, Closes
    <2>4. PromiseShape' /\ DestructorShape'
      BY <2>1, <2>2 DEF PromiseShape, DestructorShape, objVars, Resumes, Closes, Streaming,
           Undisturbed, NoResult
    <2> QED
      BY Zenon, <2>3, <2>4
  <1>15. CASE UNCHANGED vars
    BY <1>15 DEF vars, QueueShape, ErrorIsFinal, LiveIsServed, PromiseShape, DestructorShape,
         Streaming, Undisturbed
  <1> QED
    BY Zenon, <1>2, <1>3, <1>4, <1>5, <1>6, <1>7, <1>8, <1>9, <1>10, <1>11, <1>12, <1>13, <1>14, <1>15
       DEF Next, Kernel, Fiber

-----------------------------------------------------------------------------
(***************************************************************************)
(* What a step does to the line of sockets.  Takes(fd) is a socket leaving *)
(* the object, to the user or closed.                                      *)
(***************************************************************************)
Takes(fd) ==
    \/ Pushed(user, user', fd) /\ closed = {} /\ closed' = {}
    \/ user' = user /\ closed' = closed \cup {fd}
Keeps == UNCHANGED <<user, closed>>
Arrives(e) ==
    /\ Pushed(cq, cq', e) /\ e.res = "ok" /\ e.fd = accepted + 1 /\ accepted' = accepted + 1
    /\ ~EndsWithError /\ Keeps /\ UNCHANGED <<pending, OnItsWay>>
Ends(e) ==
    /\ Pushed(cq, cq', e) /\ e.res # "ok" /\ ~EndsWithError
    /\ Keeps /\ UNCHANGED <<accepted, pending, OnItsWay>>
Queues(e) ==
    /\ Popped(cq, cq', e) /\ e.res = "ok" /\ Pushed(pending, pending', e.fd)
    /\ Keeps /\ UNCHANGED <<accepted, OnItsWay>>
Promises(e) ==
    /\ Popped(cq, cq', e) /\ e.res = "ok" /\ Len(pending) = 0 /\ UNCHANGED pending
    /\ OnItsWay = None /\ OnItsWay' = e.fd /\ e.fd # None
    /\ Keeps /\ UNCHANGED accepted
Fails(e) ==
    /\ Popped(cq, cq', e) /\ e.res # "ok" /\ Len(cq) = 1
    /\ Keeps /\ UNCHANGED <<accepted, pending, OnItsWay>>
Departs(fd) ==
    /\ Popped(pending, pending', fd) /\ OnItsWay = None /\ OnItsWay' = None
    /\ Takes(fd) /\ UNCHANGED <<accepted, cq>>
Starts(fd) ==
    /\ Popped(pending, pending', fd) /\ OnItsWay = None /\ OnItsWay' = fd /\ fd # None
    /\ Keeps /\ UNCHANGED <<accepted, cq>>
Returns(fd) ==
    /\ OnItsWay = fd /\ fd # None /\ OnItsWay' = None
    /\ Takes(fd) /\ UNCHANGED <<accepted, cq, pending>>
Stays == Keeps /\ UNCHANGED <<accepted, cq, pending, OnItsWay>>

(* Every step of an undisturbed object has one of these effects. *)
LEMMA Effects ==
    ASSUME TypeOK, Course, [Next]_vars, close_fails' = MaxCloseFails
    PROVE  /\ close_fails = MaxCloseFails
           /\ \/ \E e \in Cqes : Arrives(e) \/ Ends(e) \/ Queues(e) \/ Promises(e) \/ Fails(e)
              \/ \E fd \in Fds : Departs(fd) \/ Starts(fd) \/ Returns(fd)
              \/ Stays
  <1>1. ~CloseThrows
    BY AcceptAssumption DEF CloseThrows, TypeOK
  <1>2. close_fails = MaxCloseFails
    BY Zenon, <1>1 DEF Next, Kernel, Fiber, KernelAccepts, KernelEnds, RequestStop, ProgramShutsDown,
       Complete, NextPending, NextResumes, NextEnds, NextStopped, NextWaits, DestructorStarts,
       FlushNext, CloseDone, userVars, vars
  <1> DEFINE Goal == \/ \E e \in Cqes :
                           Arrives(e) \/ Ends(e) \/ Queues(e) \/ Promises(e) \/ Fails(e)
                     \/ \E fd \in Fds : Departs(fd) \/ Starts(fd) \/ Returns(fd)
                     \/ Stays
  <1> SUFFICES Goal
    BY Zenon, <1>2
  <1> USE DEF Course
  <1>3. cq \in Seq(Cqes) /\ pending \in Seq(Fds) /\ user \in Seq(Fds)
    BY Zenon DEF TypeOK, Cqes
  <1>4. sqe = "armed" => ~EndsWithError
    BY Zenon DEF EndsWithError, QueueShape
  <1>5. ASSUME NEW more \in BOOLEAN, KernelAccepts(more) PROVE Goal
    <2> DEFINE e == [fd |-> accepted + 1, res |-> "ok", more |-> more]
    <2>1. e \in Cqes /\ e.res = "ok" /\ e.fd = accepted + 1
      <3>1. accepted + 1 \in Fds
        BY <1>5, AcceptAssumption DEF KernelAccepts, TypeOK, Fds
      <3> QED
        BY Zenon, <3>1 DEF Cqes
    <2>2. /\ sqe = "armed" /\ cq' = Append(cq, e) /\ accepted' = accepted + 1
          /\ UNCHANGED <<pc, objVars, userVars>>
      BY Zenon, <1>5 DEF KernelAccepts
    <2>3. Pushed(cq, cq', e)
      BY Zenon, <1>3, <2>1, <2>2, PushBack
    <2>4. Keeps /\ UNCHANGED <<pending, OnItsWay>>
      BY Zenon, <2>2 DEF Keeps, OnItsWay, objVars, userVars
    <2>5. Arrives(e)
      BY Zenon, <1>4, <2>1, <2>2, <2>3, <2>4 DEF Arrives
    <2> QED
      BY Zenon, <2>1, <2>5
  <1>6. ASSUME NEW res \in {"einval", "failed"}, KernelEnds(res) PROVE Goal
    <2> DEFINE e == [fd |-> None, res |-> res, more |-> FALSE]
    <2>1. e \in Cqes /\ e.res # "ok"
      BY Zenon DEF Cqes, Errors
    <2>2. /\ sqe = "armed" /\ cq' = Append(cq, e) /\ accepted' = accepted
          /\ UNCHANGED <<pc, objVars, userVars>>
      BY Zenon, <1>6 DEF KernelEnds
    <2>3. Pushed(cq, cq', e)
      BY Zenon, <1>3, <2>1, <2>2, PushBack
    <2>4. Keeps /\ UNCHANGED <<pending, OnItsWay>>
      BY Zenon, <2>2 DEF Keeps, OnItsWay, objVars, userVars
    <2>5. Ends(e)
      BY Zenon, <1>4, <2>1, <2>2, <2>3, <2>4 DEF Ends
    <2> QED
      BY Zenon, <2>1, <2>5
  <1>7. CASE RequestStop \/ ProgramShutsDown
    BY Zenon, <1>7 DEF RequestStop, ProgramShutsDown, objVars, kernVars, Stays, Keeps, OnItsWay
  <1>8. CASE Complete
    <2>1. PICK e \in Cqes : Drains(e)
      BY Zenon, <1>8, CompleteDrains
    <2>2. Popped(cq, cq', e) /\ Keeps /\ UNCHANGED <<accepted, closing>>
      BY Zenon, <2>1 DEF Drains, Keeps, userVars
    <2>3. e.res = "ok" <=> e.fd # None
      BY <2>2 DEF QueueShape, Popped
    <2>4. e.res # "ok" => Len(cq) = 1
      BY <2>2 DEF QueueShape, Popped
    <2>5. CASE waiter
      <3>1. /\ pc \in Waits /\ pending = <<>> /\ UNCHANGED pending
            /\ promised' = [fd |-> e.fd, res |-> e.res] /\ pc' = Woken
        BY Zenon, <2>1, <2>5 DEF Drains, LiveIsServed
      <3>2. pc' \in Resumes
        BY Zenon, <3>1 DEF Waits, Woken, Resumes
      <3>3. Len(pending) = 0 /\ OnItsWay = None /\ OnItsWay' = e.fd
        BY <3>1, <3>2 DEF OnItsWay, PromiseShape, NoResult, Waits, Resumes
      <3>4. Promises(e) \/ Fails(e)
        BY Zenon, <2>2, <2>3, <2>4, <3>1, <3>3 DEF Promises, Fails
      <3> QED
        BY Zenon, <2>1, <3>4
    <2>6. CASE ~waiter
      <3>1. UNCHANGED OnItsWay
        BY Zenon, <2>1, <2>2, <2>6 DEF Drains, OnItsWay
      <3>2. Queues(e) \/ Fails(e)
        BY Zenon, <2>1, <2>2, <2>4, <2>6, <3>1 DEF Drains, Queues, Fails
      <3> QED
        BY Zenon, <2>1, <3>2
    <2> QED
      BY Zenon, <2>5, <2>6
  <1>9. CASE NextPending
    <2> DEFINE fd == Head(pending)
    <2>1. /\ pc \in {"body", "loop"} /\ pending # <<>> /\ pending' = Tail(pending)
          /\ UNCHANGED <<promised, closed, kernVars>>
      BY Zenon, <1>9 DEF NextPending
    <2>2. fd \in Fds /\ Popped(pending, pending', fd) /\ fd # None
      <3>1. fd \in Fds /\ Popped(pending, pending', fd)
        BY Zenon, <1>3, <2>1, PopFront
      <3> QED
        BY <3>1 DEF Fds, None
    <2>3. promised.fd = None /\ OnItsWay = None
      BY <2>1 DEF PromiseShape, OnItsWay, NoResult, Resumes
    <2>4. CASE pc = "body"
      <3>1. user' = Append(user, fd) /\ pc' = "body"
        BY Zenon, <1>9, <2>4 DEF NextPending, Got, InLoop
      <3>2. Pushed(user, user', fd) /\ closed = {} /\ closed' = {}
        BY Zenon, <1>3, <2>1, <2>2, <2>4, <3>1, PushBack DEF DestructorShape, Streaming
      <3>3. Departs(fd)
        BY Zenon, <2>1, <2>2, <2>3, <3>1, <3>2 DEF Departs, Takes, OnItsWay, kernVars
      <3> QED
        BY Zenon, <2>2, <3>3
    <2>5. CASE pc = "loop"
      <3>1. user' = user /\ pc' = "loop_close" /\ closing' = fd
        BY Zenon, <1>9, <2>5 DEF NextPending, Got, InLoop
      <3>2. Starts(fd)
        BY Zenon, <2>1, <2>2, <2>3, <3>1 DEF Starts, Keeps, OnItsWay, kernVars
      <3> QED
        BY Zenon, <2>2, <3>2
    <2> QED
      BY Zenon, <2>1, <2>4, <2>5
  <1>10. CASE NextResumes
    <2> DEFINE fd == promised.fd
    <2>1. /\ pc \in Resumes /\ promised.res = "ok" /\ promised' = NoResult
          /\ UNCHANGED <<pending, closed, kernVars>>
      BY Zenon, <1>10 DEF NextResumes, Resumes
    <2>2. fd \in Fds /\ fd # None /\ OnItsWay = fd
      BY Zenon, <2>1 DEF PromiseShape, TypeOK, OnItsWay, Resumes
    <2>3. CASE pc = "resume"
      <3>1. user' = Append(user, fd) /\ pc' = "body"
        BY Zenon, <1>10, <2>3 DEF NextResumes, Got, InLoop
      <3>2. Pushed(user, user', fd) /\ closed = {} /\ closed' = {}
        BY Zenon, <1>3, <2>1, <2>2, <2>3, <3>1, PushBack DEF DestructorShape, Streaming
      <3>3. Returns(fd)
        BY Zenon, <2>1, <2>2, <3>1, <3>2 DEF Returns, Takes, OnItsWay, kernVars, NoResult
      <3> QED
        BY Zenon, <2>2, <3>3
    <2>4. CASE pc = "loop_resume"
      <3>1. user' = user /\ pc' = "loop_close" /\ closing' = fd
        BY Zenon, <1>10, <2>4 DEF NextResumes, Got, InLoop
      <3>2. Stays
        BY Zenon, <2>1, <2>2, <3>1 DEF Stays, Keeps, OnItsWay, kernVars
      <3> QED
        BY Zenon, <3>2
    <2> QED
      BY Zenon, <2>1, <2>3, <2>4 DEF Resumes
  <1>11. CASE NextEnds \/ NextStopped \/ NextWaits
    <2>1. /\ UNCHANGED <<pending, userVars, kernVars>> /\ pc # "loop_close" /\ pc' # "loop_close"
          /\ promised' = NoResult \/ promised' = promised
      BY Zenon, <1>11 DEF NextEnds, NextStopped, NextWaits
    <2>2. promised.fd = None
      BY <1>11 DEF NextEnds, NextStopped, NextWaits, PromiseShape, NoResult, Resumes
    <2>3. Stays
      BY <2>1, <2>2 DEF Stays, Keeps, OnItsWay, userVars, kernVars, NoResult
    <2> QED
      BY Zenon, <2>3
  <1>12. CASE DestructorStarts \/ FlushNext
    <2>1. /\ UNCHANGED <<objVars, user, closed, kernVars>> /\ pc # "loop_close"
          /\ pc' # "loop_close"
      BY Zenon, <1>12 DEF DestructorStarts, FlushNext
    <2>2. Stays
      BY Zenon, <2>1 DEF Stays, Keeps, OnItsWay, objVars, kernVars
    <2> QED
      BY Zenon, <2>2
  <1>13. CASE CloseDone
    <2>1. /\ pc \in Closes /\ closed' = closed \cup {closing} /\ closing' = None
          /\ UNCHANGED <<promised, user, kernVars>> /\ pc' # "loop_close"
          /\ pc = "flush_close" => pending' = Tail(pending)
          /\ pc = "loop_close" => UNCHANGED pending
      BY Zenon, <1>13 DEF CloseDone, Closes
    <2>2. closing \in Fds /\ closing # None /\ promised.fd = None
      BY <2>1 DEF TypeOK, DestructorShape, PromiseShape, Closes, Resumes, NoResult
    <2>3. CASE pc = "loop_close"
      <3>1. Returns(closing)
        BY Zenon, <2>1, <2>2, <2>3 DEF Returns, Takes, OnItsWay, kernVars
      <3> QED
        BY Zenon, <2>2, <3>1
    <2>4. CASE pc = "flush_close"
      <3>1. Popped(pending, Tail(pending), Head(pending)) /\ closing = pending[1]
        BY Zenon, <1>3, <2>4, PopFront DEF DestructorShape
      <3>2. Popped(pending, pending', closing)
        BY Zenon, <2>1, <2>4, <3>1 DEF Popped
      <3>3. Departs(closing)
        BY Zenon, <2>1, <2>2, <2>4, <3>2 DEF Departs, Takes, OnItsWay, kernVars
      <3> QED
        BY Zenon, <2>2, <3>3
    <2> QED
      BY Zenon, <2>1, <2>3, <2>4 DEF Closes
  <1>14. CASE UNCHANGED vars
    BY Zenon, <1>14 DEF vars, Stays, Keeps, OnItsWay
  <1> QED
    BY Zenon, <1>5, <1>6, <1>7, <1>8, <1>9, <1>10, <1>11, <1>12, <1>13, <1>14, <1>1
       DEF Next, Kernel, Fiber

-----------------------------------------------------------------------------
(* Whether an error is at the end of the completion queue after a step. *)
LEMMA ErrorAtEnd ==
    ASSUME NEW e
    PROVE  /\ Pushed(cq, cq', e) => (EndsWithError' <=> e.res # "ok")
           /\ Popped(cq, cq', e) /\ (e.res = "ok" \/ Len(cq) = 1) =>
                 (EndsWithError' <=> EndsWithError /\ e.res = "ok")
  <1>1. ASSUME Pushed(cq, cq', e) PROVE EndsWithError' <=> e.res # "ok"
    <2>1. Len(cq') \in 1..Len(cq') /\ cq'[Len(cq')] = e
      BY <1>1 DEF Pushed
    <2> QED
      BY Zenon, <2>1 DEF EndsWithError
  <1>2. ASSUME Popped(cq, cq', e), e.res = "ok" \/ Len(cq) = 1
        PROVE  EndsWithError' <=> EndsWithError /\ e.res = "ok"
    <2>1. Len(cq) \in Nat \ {0} /\ Len(cq') = Len(cq) - 1 /\ cq[1] = e
      BY Zenon, <1>2 DEF Popped
    <2>2. CASE Len(cq) = 1
      BY <2>1, <2>2 DEF EndsWithError
    <2>3. CASE Len(cq) # 1
      <3>1. /\ Len(cq') \in 1..Len(cq') /\ Len(cq) \in 1..Len(cq) /\ Len(cq') + 1 = Len(cq)
        BY <2>1, <2>3
      <3>2. cq'[Len(cq')] = cq[Len(cq)]
        BY Zenon, <1>2, <3>1 DEF Popped
      <3> QED
        BY Zenon, <1>2, <2>3, <3>1, <3>2 DEF EndsWithError
    <2> QED
      BY Zenon, <2>2, <2>3
  <1> QED
    BY Zenon, <1>1, <1>2

(* While none is closed, all the sockets that left are with the user. *)
LEMMA AllWithUser ==
    ASSUME NEW m \in Nat, Len(user) \in Nat, Left(m), closed = {}
    PROVE  Len(user) = m
  <1>1. (Len(user) + 1)..m = {} /\ Len(user) <= m
    BY Zenon DEF Left
  <1> QED
    BY <1>1

(* The next socket of the line leaves the object. *)
LEMMA LeftStep ==
    ASSUME NEW m \in Nat, Len(user) \in Nat, Left(m), Takes(m + 1)
    PROVE  Left(m + 1)'
  <1>1. CASE Pushed(user, user', m + 1) /\ closed = {} /\ closed' = {}
    <2>1. Len(user) = m
      BY Zenon, <1>1, AllWithUser
    <2>2. Len(user') = m + 1 /\ \A i \in 1..(m + 1) : user'[i] = i
      <3>1. Len(user') = m + 1 /\ user'[m + 1] = m + 1 /\ \A i \in 1..m : user'[i] = user[i]
        BY Zenon, <1>1, <2>1 DEF Pushed
      <3>2. \A i \in 1..(m + 1) : i = m + 1 \/ i \in 1..m
        OBVIOUS
      <3> QED
        BY Zenon, <2>1, <3>1, <3>2 DEF Left
    <2>3. closed' = (m + 1 + 1)..(m + 1)
      BY <1>1
    <2> QED
      BY <2>2, <2>3 DEF Left
  <1>2. CASE user' = user /\ closed' = closed \cup {m + 1}
    <2>1. Len(user) <= m /\ closed = (Len(user) + 1)..m
      BY Zenon DEF Left
    <2>2. closed' = (Len(user) + 1)..(m + 1)
      <3>1. \A i \in (Len(user) + 1)..(m + 1) : i = m + 1 \/ i \in (Len(user) + 1)..m
        BY <2>1
      <3>2. m + 1 \in (Len(user) + 1)..(m + 1) /\
            \A i \in (Len(user) + 1)..m : i \in (Len(user) + 1)..(m + 1)
        BY <2>1
      <3> QED
        BY Zenon, <1>2, <2>1, <3>1, <3>2
    <2> QED
      BY <1>2, <2>1, <2>2 DEF Left
  <1> QED
    BY Zenon, <1>1, <1>2 DEF Takes

(* Each effect keeps the line, and moves at most its first socket out. *)
LEMMA LineStep ==
    ASSUME TypeOK, TypeOK', Course, Line, [Next]_vars
    PROVE  Line'
  <1> SUFFICES ASSUME close_fails' = MaxCloseFails
               PROVE  \E m \in 0..accepted' : Left(m)' /\ InLine(m)'
    BY Zenon DEF Line
  <1>1. /\ close_fails = MaxCloseFails
        /\ \/ \E e \in Cqes : Arrives(e) \/ Ends(e) \/ Queues(e) \/ Promises(e) \/ Fails(e)
           \/ \E fd \in Fds : Departs(fd) \/ Starts(fd) \/ Returns(fd)
           \/ Stays
    BY Zenon, Effects
  <1>2. PICK m \in 0..accepted : Left(m) /\ InLine(m)
    BY Zenon, <1>1 DEF Line
  <1>3. /\ Len(cq) \in Nat /\ Len(pending) \in Nat /\ Len(user) \in Nat /\ accepted \in Nat
        /\ Len(cq') \in Nat /\ Len(pending') \in Nat /\ Len(user') \in Nat /\ accepted' \in Nat
        /\ m \in Nat
    <2>1. accepted \in Nat /\ accepted' \in Nat /\ m \in Nat
      BY <1>2, AcceptAssumption DEF TypeOK
    <2>2. Len(cq) \in Nat /\ Len(pending) \in Nat /\ Len(user) \in Nat
      BY Zenon, Elements DEF TypeOK
    <2>3. Len(cq') \in Nat /\ Len(pending') \in Nat /\ Len(user') \in Nat
      BY Zenon, Elements DEF TypeOK
    <2> QED
      BY Zenon, <2>1, <2>2, <2>3
  <1> DEFINE Err == IF EndsWithError THEN 1 ELSE 0
  <1>4. /\ OnItsWay # None => OnItsWay = m + 1
        /\ \A i \in 1..Len(pending) : pending[i] = m + Way + i
        /\ \A i \in 1..Len(cq) : cq[i].res = "ok" => cq[i].fd = m + Way + Len(pending) + i
        /\ accepted = m + Way + Len(pending) + Len(cq) - Err
    BY Zenon, <1>2 DEF InLine
  <1>5. ASSUME NEW k \in Nat, Left(k)',
               OnItsWay' # None => OnItsWay' = k + 1,
               \A i \in 1..Len(pending') : pending'[i] = k + Way' + i,
               \A i \in 1..Len(cq') : cq'[i].res = "ok" => cq'[i].fd = k + Way' + Len(pending') + i,
               accepted' = k + Way' + Len(pending') + Len(cq') - Err'
        PROVE  \E n \in 0..accepted' : Left(n)' /\ InLine(n)'
    <2>1. InLine(k)'
      BY Zenon, <1>5 DEF InLine
    <2>2. Err' \in {0, 1} /\ Err' <= Len(cq') /\ Way' \in {0, 1}
      BY <1>3 DEF Way, EndsWithError
    <2>3. k \in 0..accepted'
      BY SMTT(60), <1>3, <1>5, <2>2
    <2> QED
      BY Zenon, <1>5, <2>1, <2>3
  <1>6. Way \in {0, 1} /\ Way' \in {0, 1} /\ Err \in {0, 1} /\ Err' \in {0, 1}
    BY Zenon DEF Way
  <1> HIDE DEF Err
  <1>7. Keeps => Left(m)'
    BY Zenon, <1>2 DEF Keeps, Left
  <1>8. UNCHANGED OnItsWay => UNCHANGED Way
    BY Zenon DEF Way
  <1>9. ASSUME NEW e \in Cqes, Arrives(e) \/ Ends(e)
        PROVE  \E n \in 0..accepted' : Left(n)' /\ InLine(n)'
    <2>1. /\ Pushed(cq, cq', e) /\ ~EndsWithError /\ Keeps /\ UNCHANGED <<pending, OnItsWay>>
          /\ (e.res = "ok" /\ e.fd = accepted + 1 /\ accepted' = accepted + 1)
             \/ (e.res # "ok" /\ accepted' = accepted)
      BY Zenon, <1>9 DEF Arrives, Ends
    <2>2. Err = 0 /\ Err' = IF e.res # "ok" THEN 1 ELSE 0
      BY Zenon, <2>1, ErrorAtEnd DEF Err
    <2>3. Len(cq') = Len(cq) + 1 /\ Way' = Way
      BY Zenon, <2>1, <1>8 DEF Pushed
    <2>4. accepted = m + Way + Len(pending) + Len(cq) - Err
      BY Zenon, <1>4
    <2>5. ASSUME NEW i \in 1..Len(cq'), cq'[i].res = "ok"
          PROVE  cq'[i].fd = m + Way + Len(pending) + i
      <3>1. CASE i = Len(cq) + 1
        <4>1. cq'[i] = e
          BY Zenon, <2>1, <3>1 DEF Pushed
        <4>2. Err' = 0 /\ cq'[i].fd = accepted + 1
          BY Zenon, <2>1, <2>2, <2>5, <4>1
        <4>3. accepted + 1 = m + Way + Len(pending) + i
          BY <1>3, <1>6, <2>2, <2>4, <3>1
        <4> QED
          BY Zenon, <4>2, <4>3
      <3>2. CASE i # Len(cq) + 1
        <4>1. i \in 1..Len(cq)
          BY <1>3, <2>3, <3>2
        <4>2. cq'[i] = cq[i]
          BY Zenon, <2>1, <4>1 DEF Pushed
        <4> QED
          BY Zenon, <1>4, <2>5, <4>1, <4>2
      <3> QED
        BY Zenon, <3>1, <3>2
    <2>6. accepted' = m + Way + Len(pending) + Len(cq') - Err'
      <3>1. CASE accepted' = accepted + 1 /\ Err' = 0
        BY <1>3, <1>6, <2>2, <2>3, <2>4, <3>1
      <3>2. CASE accepted' = accepted /\ Err' = 1
        BY <1>3, <1>6, <2>2, <2>3, <2>4, <3>2
      <3> QED
        BY Zenon, <2>1, <2>2, <3>1, <3>2
    <2> QED
      BY Zenon, <1>3, <1>4, <1>5, <1>7, <2>1, <2>3, <2>5, <2>6
  <1>10. ASSUME NEW e \in Cqes, Popped(cq, cq', e), e.res = "ok"
         PROVE  /\ Len(cq) = Len(cq') + 1 /\ Err' = Err /\ e.fd = m + Way + Len(pending) + 1
                /\ \A i \in 1..Len(cq') : cq'[i].res = "ok" =>
                      cq'[i].fd = m + Way + Len(pending) + 1 + i
    <2>1. Len(cq) \in Nat \ {0} /\ Len(cq') = Len(cq) - 1 /\ e = cq[1]
      BY Zenon, <1>10 DEF Popped
    <2>2. 1 \in 1..Len(cq) /\ Len(cq) = Len(cq') + 1
      BY <1>3, <2>1
    <2>3. e.fd = m + Way + Len(pending) + 1
      BY Zenon, <1>4, <1>10, <2>1, <2>2
    <2>4. Err' = Err
      BY Zenon, <1>10, ErrorAtEnd DEF Err
    <2>5. ASSUME NEW i \in 1..Len(cq'), cq'[i].res = "ok"
          PROVE  cq'[i].fd = m + Way + Len(pending) + 1 + i
      <3>1. i \in Nat /\ i + 1 \in 1..Len(cq)
        BY <1>3, <2>2
      <3>2. cq'[i] = cq[i + 1]
        BY Zenon, <1>10 DEF Popped
      <3>3. cq[i + 1].fd = m + Way + Len(pending) + (i + 1)
        BY Zenon, <1>4, <2>5, <3>1, <3>2
      <3>4. m + Way + Len(pending) + (i + 1) = m + Way + Len(pending) + 1 + i
        BY <1>3, <1>6, <3>1
      <3> QED
        BY Zenon, <3>2, <3>3, <3>4
    <2> QED
      BY Zenon, <2>2, <2>3, <2>4, <2>5
  <1>11. ASSUME NEW e \in Cqes, Queues(e)
         PROVE  \E n \in 0..accepted' : Left(n)' /\ InLine(n)'
    <2>1. /\ Popped(cq, cq', e) /\ e.res = "ok" /\ Pushed(pending, pending', e.fd)
          /\ Keeps /\ UNCHANGED <<accepted, OnItsWay>>
      BY Zenon, <1>11 DEF Queues
    <2>2. /\ Len(cq) = Len(cq') + 1 /\ Err' = Err /\ e.fd = m + Way + Len(pending) + 1
          /\ \A i \in 1..Len(cq') : cq'[i].res = "ok" =>
                cq'[i].fd = m + Way + Len(pending) + 1 + i
      BY Zenon, <1>10, <2>1
    <2>3. Way' = Way /\ Len(pending') = Len(pending) + 1
      BY Zenon, <1>8, <2>1 DEF Pushed
    <2>4. ASSUME NEW i \in 1..Len(pending') PROVE pending'[i] = m + Way + i
      <3>1. CASE i = Len(pending) + 1
        <4>1. pending'[i] = e.fd
          BY Zenon, <2>1, <3>1 DEF Pushed
        <4>2. m + Way + Len(pending) + 1 = m + Way + i
          BY <1>3, <1>6, <3>1
        <4> QED
          BY Zenon, <2>2, <4>1, <4>2
      <3>2. CASE i # Len(pending) + 1
        <4>1. i \in 1..Len(pending)
          BY <1>3, <2>3, <3>2
        <4>2. pending'[i] = pending[i]
          BY Zenon, <2>1, <4>1 DEF Pushed
        <4> QED
          BY Zenon, <1>4, <4>1, <4>2
      <3> QED
        BY Zenon, <3>1, <3>2
    <2>5. \A i \in 1..Len(cq') : cq'[i].res = "ok" => cq'[i].fd = m + Way + Len(pending') + i
      <3>1. m + Way + Len(pending') = m + Way + Len(pending) + 1
        BY <1>3, <1>6, <2>3
      <3> QED
        BY Zenon, <2>2, <3>1
    <2>6. accepted' = m + Way + Len(pending') + Len(cq') - Err'
      BY <1>3, <1>4, <1>6, <2>1, <2>2, <2>3
    <2> QED
      BY Zenon, <1>3, <1>4, <1>5, <1>7, <2>1, <2>3, <2>4, <2>5, <2>6
  <1>12. ASSUME NEW e \in Cqes, Promises(e)
         PROVE  \E n \in 0..accepted' : Left(n)' /\ InLine(n)'
    <2>1. /\ Popped(cq, cq', e) /\ e.res = "ok" /\ Len(pending) = 0 /\ UNCHANGED pending
          /\ OnItsWay = None /\ OnItsWay' = e.fd /\ e.fd # None /\ Keeps /\ accepted' = accepted
      BY Zenon, <1>12 DEF Promises
    <2>2. /\ Len(cq) = Len(cq') + 1 /\ Err' = Err /\ e.fd = m + Way + Len(pending) + 1
          /\ \A i \in 1..Len(cq') : cq'[i].res = "ok" =>
                cq'[i].fd = m + Way + Len(pending) + 1 + i
      BY Zenon, <1>10, <2>1
    <2>3. Way = 0 /\ Way' = 1
      BY Zenon, <2>1 DEF Way
    <2>4. OnItsWay' = m + 1
      BY <1>3, <2>1, <2>2, <2>3
    <2>5. \A i \in 1..Len(pending') : pending'[i] = m + Way' + i
      BY <2>1
    <2>6. \A i \in 1..Len(cq') : cq'[i].res = "ok" => cq'[i].fd = m + Way' + Len(pending') + i
      <3>1. m + Way + Len(pending) + 1 = m + Way' + Len(pending') /\ pending' = pending
        BY <1>3, <2>1, <2>3
      <3> QED
        BY Zenon, <2>2, <3>1
    <2>7. accepted' = m + Way' + Len(pending') + Len(cq') - Err'
      BY <1>3, <1>4, <1>6, <2>1, <2>2, <2>3
    <2> QED
      BY Zenon, <1>3, <1>5, <1>7, <2>1, <2>4, <2>5, <2>6, <2>7
  <1>13. ASSUME NEW e \in Cqes, Fails(e)
         PROVE  \E n \in 0..accepted' : Left(n)' /\ InLine(n)'
    <2>1. /\ Popped(cq, cq', e) /\ e.res # "ok" /\ Len(cq) = 1 /\ e = cq[1]
          /\ Keeps /\ UNCHANGED <<accepted, pending, OnItsWay>> /\ Len(cq') = 0
      BY <1>13 DEF Fails, Popped
    <2>2. Err' = 0 /\ Err = 1
      <3>1. EndsWithError /\ ~EndsWithError'
        BY <2>1 DEF EndsWithError
      <3> QED
        BY Zenon, <3>1 DEF Err
    <2>3. accepted' = m + Way + Len(pending) + Len(cq') - Err' /\ Way' = Way
      <3>1. accepted' = m + Way + Len(pending) + 1 - 1
        BY Zenon, <1>4, <2>1, <2>2
      <3> QED
        BY <1>3, <1>6, <1>8, <2>1, <2>2, <3>1
    <2>4. \A i \in 1..Len(cq') : cq'[i].res = "ok" => cq'[i].fd = m + Way + Len(pending) + i
      BY <2>1
    <2> QED
      BY Zenon, <1>3, <1>4, <1>5, <1>7, <2>1, <2>3, <2>4
  <1>14. ASSUME NEW fd \in Fds, Popped(pending, pending', fd), OnItsWay = None
         PROVE  /\ fd = m + 1 /\ Way = 0 /\ Len(pending) = Len(pending') + 1
                /\ \A i \in 1..Len(pending') : pending'[i] = m + 1 + i
    <2>1. Len(pending) \in Nat \ {0} /\ Len(pending') = Len(pending) - 1 /\ fd = pending[1]
      BY Zenon, <1>14 DEF Popped
    <2>2. Way = 0
      BY Zenon, <1>14 DEF Way
    <2>3. fd = m + 1
      <3>1. 1 \in 1..Len(pending)
        BY <2>1
      <3>2. pending[1] = m + Way + 1
        BY Zenon, <1>4, <3>1
      <3> QED
        BY <1>3, <2>1, <2>2, <3>2
    <2>4. ASSUME NEW i \in 1..Len(pending') PROVE pending'[i] = m + 1 + i
      <3>1. i \in Nat /\ i + 1 \in 1..Len(pending)
        BY <1>3, <2>1
      <3>2. pending'[i] = pending[i + 1]
        BY Zenon, <1>14 DEF Popped
      <3>3. pending[i + 1] = m + Way + (i + 1)
        BY Zenon, <1>4, <3>1
      <3> QED
        BY <1>3, <2>2, <3>1, <3>2, <3>3
    <2> QED
      BY <2>1, <2>2, <2>3, <2>4
  <1>15. ASSUME NEW fd \in Fds, Departs(fd)
         PROVE  \E n \in 0..accepted' : Left(n)' /\ InLine(n)'
    <2>1. /\ Popped(pending, pending', fd) /\ OnItsWay = None /\ OnItsWay' = None
          /\ Takes(fd) /\ UNCHANGED <<accepted, cq>>
      BY Zenon, <1>15 DEF Departs
    <2>2. /\ fd = m + 1 /\ Way = 0 /\ Len(pending) = Len(pending') + 1
          /\ \A i \in 1..Len(pending') : pending'[i] = m + 1 + i
      BY Zenon, <1>14, <2>1
    <2>3. Way' = 0 /\ Err' = Err
      BY Zenon, <2>1 DEF Way, Err, EndsWithError
    <2>4. m + 1 \in Nat /\ Left(m + 1)'
      BY <1>2, <1>3, <2>1, <2>2, LeftStep
    <2>5. \A i \in 1..Len(pending') : pending'[i] = m + 1 + Way' + i
      BY <1>3, <2>2, <2>3
    <2>6. \A i \in 1..Len(cq') : cq'[i].res = "ok" => cq'[i].fd = m + 1 + Way' + Len(pending') + i
      <3>1. m + 1 + Way' + Len(pending') = m + Way + Len(pending)
        BY <1>3, <2>2, <2>3
      <3> QED
        BY Zenon, <1>4, <2>1, <3>1
    <2>7. accepted' = m + 1 + Way' + Len(pending') + Len(cq') - Err'
      BY <1>3, <1>4, <1>6, <2>1, <2>2, <2>3
    <2> QED
      BY Zenon, <1>5, <2>1, <2>4, <2>5, <2>6, <2>7
  <1>16. ASSUME NEW fd \in Fds, Starts(fd)
         PROVE  \E n \in 0..accepted' : Left(n)' /\ InLine(n)'
    <2>1. /\ Popped(pending, pending', fd) /\ OnItsWay = None /\ OnItsWay' = fd /\ fd # None
          /\ Keeps /\ UNCHANGED <<accepted, cq>>
      BY Zenon, <1>16 DEF Starts
    <2>2. /\ fd = m + 1 /\ Way = 0 /\ Len(pending) = Len(pending') + 1
          /\ \A i \in 1..Len(pending') : pending'[i] = m + 1 + i
      BY Zenon, <1>14, <2>1
    <2>3. Way' = 1 /\ Err' = Err
      BY Zenon, <2>1 DEF Way, Err, EndsWithError
    <2>4. \A i \in 1..Len(pending') : pending'[i] = m + Way' + i
      BY Zenon, <1>3, <2>2, <2>3
    <2>5. \A i \in 1..Len(cq') : cq'[i].res = "ok" => cq'[i].fd = m + Way' + Len(pending') + i
      <3>1. m + Way' + Len(pending') = m + Way + Len(pending)
        BY <1>3, <2>2, <2>3
      <3> QED
        BY Zenon, <1>4, <2>1, <3>1
    <2>6. accepted' = m + Way' + Len(pending') + Len(cq') - Err'
      BY <1>3, <1>4, <1>6, <2>1, <2>2, <2>3
    <2> QED
      BY Zenon, <1>3, <1>5, <1>7, <2>1, <2>2, <2>4, <2>5, <2>6
  <1>17. ASSUME NEW fd \in Fds, Returns(fd)
         PROVE  \E n \in 0..accepted' : Left(n)' /\ InLine(n)'
    <2>1. /\ OnItsWay = fd /\ fd # None /\ OnItsWay' = None
          /\ Takes(fd) /\ UNCHANGED <<accepted, cq, pending>>
      BY Zenon, <1>17 DEF Returns
    <2>2. fd = m + 1 /\ Way = 1 /\ Way' = 0 /\ Err' = Err
      BY Zenon, <1>4, <2>1 DEF Way, Err, EndsWithError
    <2>3. m + 1 \in Nat /\ Left(m + 1)'
      BY <1>2, <1>3, <2>1, <2>2, LeftStep
    <2>4. m + 1 + Way' = m + Way
      BY <1>3, <2>2
    <2>5. /\ \A i \in 1..Len(pending') : pending'[i] = m + 1 + Way' + i
          /\ \A i \in 1..Len(cq') :
                cq'[i].res = "ok" => cq'[i].fd = m + 1 + Way' + Len(pending') + i
          /\ accepted' = m + 1 + Way' + Len(pending') + Len(cq') - Err'
      BY Zenon, <1>4, <2>1, <2>2, <2>4
    <2> QED
      BY Zenon, <1>5, <2>1, <2>3, <2>5
  <1>18. CASE Stays
    <2>1. /\ Keeps /\ UNCHANGED <<accepted, cq, pending, OnItsWay>> /\ Way' = Way /\ Err' = Err
      BY Zenon, <1>8, <1>18 DEF Stays, Err, EndsWithError
    <2> QED
      BY Zenon, <1>3, <1>4, <1>5, <1>7, <2>1
  <1> QED
    BY Zenon, <1>1, <1>9, <1>11, <1>12, <1>13, <1>15, <1>16, <1>17, <1>18

-----------------------------------------------------------------------------
(* A new acceptor. *)
LEMMA InitInvariant == Init => IInv
  <1> SUFFICES ASSUME Init PROVE IInv
    BY Zenon
  <1> USE AcceptAssumption DEF Init
  <1>1. TypeOK
    <2>1. pending \in Seq(Fds) /\ user \in Seq(Fds)
      OBVIOUS
    <2>2. cq \in Seq([fd : Fds \cup {None}, res : Errors \cup {"ok"}, more : BOOLEAN])
      OBVIOUS
    <2>3. promised \in [fd : Fds \cup {None}, res : Errors \cup {"ok"}]
      BY Zenon DEF NoResult
    <2>4. /\ accepted \in 0..MaxAccepts /\ close_fails \in 0..MaxCloseFails
          /\ ring_full \in 0..MaxRingFull
      OBVIOUS
    <2> QED
      BY Zenon, <2>1, <2>2, <2>3, <2>4 DEF TypeOK
  <1>2. QueueShape /\ ErrorIsFinal /\ LiveIsServed
    BY DEF QueueShape, ErrorIsFinal, LiveIsServed
  <1>3. PromiseShape /\ DestructorShape
    BY Zenon DEF PromiseShape, DestructorShape, Streaming, Closes, Resumes, NoResult, Undisturbed
  <1>4. Left(0)
    <2>1. Len(user) = 0
      BY Zenon
    <2> QED
      BY <2>1 DEF Left
  <1>5. InLine(0)
    <2>1. Len(pending) = 0 /\ Len(cq) = 0 /\ OnItsWay = None /\ Way = 0 /\ ~EndsWithError
      BY DEF OnItsWay, Way, NoResult, EndsWithError
    <2> QED
      BY <2>1 DEF InLine
  <1>6. Line
    <2>1. 0 \in 0..accepted
      OBVIOUS
    <2> QED
      BY Zenon, <1>4, <1>5, <2>1 DEF Line
  <1> QED
    BY Zenon, <1>1, <1>2, <1>3, <1>6 DEF IInv

(* IInv is an invariant. *)
LEMMA Invariance == Spec => []IInv
  <1>1. IInv /\ [Next]_vars => IInv'
    <2> SUFFICES ASSUME IInv, [Next]_vars PROVE IInv'
      BY Zenon
    <2>1. TypeOK /\ Course /\ Line
      BY Zenon DEF IInv, Course
    <2>2. TypeOK'
      BY Zenon, <2>1, TypeStep DEF Course
    <2>3. Course'
      BY Zenon, <2>1, CourseStep
    <2>4. Line'
      BY Zenon, <2>1, <2>2, LineStep
    <2> QED
      BY Zenon, <2>2, <2>3, <2>4 DEF IInv, Course
  <1> QED
    BY <1>1, InitInvariant, PTL DEF Spec

(* The types are kept: complete() queues only sockets, and the destructor   *)
(* closes only sockets, never a negative result.                            *)
THEOREM TypeCorrect == Spec => []TypeOK
  <1>1. IInv => TypeOK
    BY Zenon DEF IInv
  <1> QED
    BY <1>1, Invariance, PTL

(* Before the destructor all sockets that have left the object are with    *)
(* the user, and the line goes on through the promise and the two queues.  *)
LEMMA OrderInv == IInv => SocketsInOrder
  <1>1. IInv => SocketsInOrder
    <2> DEFINE arrived == {i \in DOMAIN cq : cq[i].res = "ok"}
               base == Len(user) + (IF promised.fd = None THEN 0 ELSE 1)
               Err == IF EndsWithError THEN 1 ELSE 0
    <2> SUFFICES ASSUME IInv, Streaming
                 PROVE  /\ \A i \in DOMAIN user : user[i] = i
                        /\ promised.fd # None => promised.fd = Len(user) + 1
                        /\ \A i \in DOMAIN pending : pending[i] = base + i
                        /\ \A i \in arrived : cq[i].fd = base + Len(pending) + i
                        /\ base <= accepted
                        /\ (base + 1)..accepted = {pending[i] : i \in DOMAIN pending}
                                                  \cup {cq[i].fd : i \in arrived}
                        /\ pending = <<>> /\ error # "live" /\ ~stop => base = accepted
      BY Zenon DEF SocketsInOrder, Streaming
    <2>1. /\ Len(cq) \in Nat /\ Len(pending) \in Nat /\ Len(user) \in Nat /\ accepted \in Nat
          /\ DOMAIN cq = 1..Len(cq) /\ DOMAIN pending = 1..Len(pending)
          /\ DOMAIN user = 1..Len(user)
      <3>1. accepted \in Nat
        BY AcceptAssumption DEF IInv, TypeOK
      <3> QED
        BY Zenon, <3>1, Elements DEF IInv, TypeOK
    <2>2. PICK m \in 0..accepted : Left(m) /\ InLine(m)
      BY Zenon DEF IInv, DestructorShape, Line
    <2>3. Len(user) = m
      <3>1. closed = {}
        BY Zenon DEF IInv, DestructorShape
      <3>2. m \in Nat
        BY <2>1, <2>2
      <3> QED
        BY Zenon, <2>1, <2>2, <3>1, <3>2, AllWithUser
    <2>4. OnItsWay = promised.fd /\ base = m + Way
      BY Zenon, <2>3 DEF OnItsWay, Way, Streaming
    <2>5. /\ promised.fd # None => promised.fd = Len(user) + 1
          /\ \A i \in 1..Len(pending) : pending[i] = base + i
          /\ \A i \in 1..Len(cq) : cq[i].res = "ok" => cq[i].fd = base + Len(pending) + i
          /\ accepted = base + Len(pending) + Len(cq) - Err
          /\ base \in Nat
      <3>1. base \in Nat
        BY <2>1
      <3> HIDE DEF base
      <3> QED
        BY Zenon, <2>2, <2>3, <2>4, <3>1 DEF InLine
    <2> HIDE DEF base
    <2>6. \A i \in 1..Len(cq) : cq[i].res # "ok" <=> i = Len(cq) /\ EndsWithError
      BY Zenon DEF IInv, QueueShape, EndsWithError
    <2>7. PICK n \in Nat : arrived = 1..n /\ accepted = base + Len(pending) + n
      <3>1. CASE EndsWithError
        <4>1. Len(cq) - 1 \in Nat
          BY <2>1, <3>1 DEF EndsWithError
        <4>2. accepted = base + Len(pending) + (Len(cq) - 1)
          BY Zenon, <2>1, <2>5, <3>1
        <4>3. \A i : i \in arrived <=> i \in 1..Len(cq) /\ i # Len(cq)
          BY Zenon, <2>1, <2>6, <3>1
        <4> HIDE DEF arrived
        <4>4. \A i : i \in arrived <=> i \in 1..(Len(cq) - 1)
          BY <2>1, <4>3
        <4>5. arrived = 1..(Len(cq) - 1)
          BY Zenon, <4>4
        <4> QED
          BY Zenon, <4>1, <4>2, <4>5
      <3>2. CASE ~EndsWithError
        <4>1. accepted = base + Len(pending) + Len(cq)
          BY <2>1, <2>5, <3>2
        <4>2. arrived = 1..Len(cq)
          BY Zenon, <2>1, <2>6, <3>2
        <4> QED
          BY Zenon, <2>1, <4>1, <4>2
      <3> QED
        BY Zenon, <3>1, <3>2
    <2>8. \A i \in 1..n : cq[i].fd = base + Len(pending) + i
      BY Zenon, <2>1, <2>5, <2>7
    <2> HIDE DEF arrived
    <2>9. ASSUME NEW x \in (base + 1)..accepted
          PROVE  x \in {pending[i] : i \in 1..Len(pending)} \cup {cq[i].fd : i \in 1..n}
      <3>1. CASE x - base <= Len(pending)
        <4>1. x - base \in 1..Len(pending) /\ base + (x - base) = x
          BY <2>1, <2>5, <3>1
        <4> QED
          BY Zenon, <2>5, <4>1
      <3>2. CASE ~(x - base <= Len(pending))
        <4> DEFINE i == x - base - Len(pending)
        <4>1. i \in 1..n /\ base + Len(pending) + i = x
          BY <2>1, <2>5, <2>7, <3>2
        <4> HIDE DEF i
        <4> QED
          BY Zenon, <2>8, <4>1
      <3> QED
        BY Zenon, <3>1, <3>2
    <2>10. \A i \in 1..Len(pending) : pending[i] \in (base + 1)..accepted
      BY <2>1, <2>5, <2>7
    <2>11. \A i \in 1..n : cq[i].fd \in (base + 1)..accepted
      BY SMTT(60), <2>1, <2>5, <2>7, <2>8
    <2>12. base <= accepted
      BY <2>1, <2>5, <2>7
    <2>13. \A i \in DOMAIN user : user[i] = i
      BY Zenon, <2>1, <2>2 DEF Left
    <2>14. (base + 1)..accepted = {pending[i] : i \in 1..Len(pending)}
                                   \cup {cq[i].fd : i \in 1..n}
      BY Zenon, <2>9, <2>10, <2>11
    <2>15. ASSUME pending = <<>>, error # "live", ~stop PROVE base = accepted
      <3>1. Len(pending) = 0 /\ Len(cq) = 0
        BY <2>15 DEF IInv, ErrorIsFinal
      <3>2. ~EndsWithError
        BY <3>1 DEF EndsWithError
      <3> QED
        BY <2>1, <2>5, <3>1, <3>2
    <2> QED
      BY Zenon, <2>1, <2>5, <2>7, <2>8, <2>12, <2>13, <2>14, <2>15
  <1> QED
    BY <1>1

(* For any number of connections: next() hands the sockets out in the order *)
(* in which they were accepted, each once, across every end and re-arm of   *)
(* the accept, and reports an end only after the last one, unless a stop    *)
(* was requested.                                                           *)
THEOREM InOrder == Spec => []SocketsInOrder
  BY OrderInv, Invariance, PTL

(* The socket that next() hands to the user is the one after the last. *)
LEMMA UserTakes ==
    ASSUME IInv, NEW fd, pc \in {"body", "resume"}, user' = Append(user, fd), pc' = "body",
           accepted' = accepted, fd = Len(user) + 1, fd <= accepted
    PROVE  Stream!HandOver
  <1>1. user \in Seq(Fds) /\ accepted \in Nat
    BY AcceptAssumption DEF IInv, TypeOK
  <1>2. Len(user) \in Nat /\ DOMAIN user = 1..Len(user) /\ (user = <<>> <=> Len(user) = 0)
    BY <1>1
  <1>3. \A i \in 1..Len(user) : user[i] = i
    BY Zenon, <1>2, OrderInv DEF SocketsInOrder
  <1>4. LastSocket = Len(user)
    BY <1>2, <1>3 DEF LastSocket
  <1>5. fd \in Fds
    BY <1>1, <1>2, AcceptAssumption DEF IInv, TypeOK, Fds
  <1>6. user' # <<>> /\ user'[Len(user')] = fd
    BY <1>1, <1>5
  <1>7. LastSocket' = LastSocket + 1 /\ LastSocket < accepted
    <2>1. LastSocket' = fd
      BY Zenon, <1>6 DEF LastSocket
    <2> QED
      BY <1>1, <1>2, <1>4, <2>1
  <1>8. StreamPhase = "open" /\ StreamPhase' = "open"
    BY DEF StreamPhase
  <1> QED
    BY Zenon, <1>7, <1>8 DEF Stream!HandOver

(***************************************************************************)
(* multishot_acceptor is a stream of results: an accept by the kernel is   *)
(* an arrival, a socket that next() hands out, from the queue or through   *)
(* the promise, is the one that follows the last, the start of the         *)
(* destructor closes the stream, and no other step is visible.             *)
(***************************************************************************)
THEOREM StreamRefinement == Spec => ImplementsStream
  <1>1. Init => Stream!Init
    BY DEF Init, Stream!Init, StreamPhase, LastSocket
  <1>2. IInv /\ [Next]_vars => [Stream!Next]_<<accepted, LastSocket, StreamPhase>>
    <2> SUFFICES ASSUME IInv, [Next]_vars
                 PROVE  Stream!Next \/ UNCHANGED <<accepted, LastSocket, StreamPhase>>
      OBVIOUS
    <2> DEFINE base == Len(user) + (IF promised.fd = None THEN 0 ELSE 1)
    <2>1. user \in Seq(Fds) /\ pending \in Seq(Fds) /\ Len(user) \in Nat /\ accepted \in Nat
      BY AcceptAssumption DEF IInv, TypeOK
    <2>2. user' = user => LastSocket' = LastSocket
      BY Zenon DEF LastSocket
    <2>3. ASSUME NEW more \in BOOLEAN, KernelAccepts(more) PROVE Stream!Arrive
      BY Zenon, <2>2, <2>3 DEF KernelAccepts, Stream!Arrive, StreamPhase, userVars
    <2>4. ASSUME NextPending, ~InLoop PROVE Stream!HandOver
      <3>1. /\ pc \in {"body", "loop"} /\ pending # <<>> /\ user' = Append(user, Head(pending))
            /\ pc' = "body" /\ accepted' = accepted
        BY Zenon, <2>4 DEF NextPending, Got, kernVars
      <3>2. pc = "body"
        BY <2>4, <3>1 DEF InLoop
      <3>3. promised.fd = None
        BY <3>2 DEF IInv, PromiseShape, Resumes, NoResult
      <3>4. pending[1] = Head(pending) /\ 1 \in DOMAIN pending
        BY <2>1, <3>1
      <3>5. /\ \A i \in DOMAIN pending : pending[i] = base + i
            /\ \A i \in DOMAIN pending : pending[i] \in (base + 1)..accepted
        BY Zenon, <3>2, OrderInv DEF SocketsInOrder
      <3>6. Head(pending) = Len(user) + 1 /\ Head(pending) <= accepted
        BY <2>1, <3>3, <3>4, <3>5
      <3> QED
        BY <3>1, <3>2, <3>6, UserTakes
    <2>5. ASSUME NextResumes, ~InLoop PROVE Stream!HandOver
      <3>1. /\ pc \in {"resume", "loop_resume"} /\ promised.res = "ok" /\ pc' = "body"
            /\ user' = Append(user, promised.fd) /\ accepted' = accepted
        BY Zenon, <2>5 DEF NextResumes, Got, kernVars
      <3>2. pc = "resume"
        BY <2>5, <3>1 DEF InLoop
      <3>3. promised.fd # None
        BY <3>1 DEF IInv, PromiseShape, Resumes
      <3>4. (promised.fd # None => promised.fd = Len(user) + 1) /\ base <= accepted
        BY Zenon, <3>2, OrderInv DEF SocketsInOrder
      <3>5. promised.fd = Len(user) + 1 /\ promised.fd <= accepted
        BY <3>3, <3>4
      <3> QED
        BY <3>1, <3>2, <3>5, UserTakes
    <2>6. ASSUME DestructorStarts PROVE Stream!Close
      <3>1. pc = "body" /\ pc' \in {"flush", "loop"} /\ UNCHANGED <<accepted, user>>
        BY Zenon, <2>6 DEF DestructorStarts, kernVars
      <3>2. StreamPhase = "open" /\ StreamPhase' = "closed"
        BY <3>1 DEF StreamPhase
      <3> QED
        BY Zenon, <2>2, <3>1, <3>2 DEF Stream!Close
    <2>7. ASSUME \/ (\E res \in {"einval", "failed"} : KernelEnds(res)) \/ RequestStop
                 \/ ProgramShutsDown \/ Complete \/ (NextPending /\ InLoop) \/ (NextResumes /\ InLoop)
                 \/ NextEnds \/ NextStopped \/ NextWaits \/ FlushNext \/ CloseDone \/ CloseThrows
                 \/ UNCHANGED vars
          PROVE  UNCHANGED <<accepted, LastSocket, StreamPhase>>
      <3>1. UNCHANGED <<accepted, user>>
        BY Zenon, <2>7 DEF KernelEnds, RequestStop, ProgramShutsDown, Complete, NextPending, NextResumes,
           Got, NextEnds, NextStopped, NextWaits, FlushNext, CloseDone, CloseThrows, userVars, kernVars,
           vars
      <3>2. \/ pc' = pc
            \/ pc \in {"body", "wait", "resume"} /\ pc' \in {"body", "wait", "resume"}
            \/ /\ pc \in {"flush", "flush_close", "loop", "loop_wait", "loop_resume", "loop_close"}
               /\ pc' \in {"flush", "flush_close", "loop", "loop_wait", "loop_resume", "loop_close",
                           "gone"}
        <4>1. CASE Complete
          BY <4>1 DEF Complete, Woken
        <4>2. CASE (NextPending /\ InLoop) \/ (NextResumes /\ InLoop)
          BY <4>2 DEF NextPending, NextResumes, InLoop, Got
        <4>3. CASE NextEnds \/ NextStopped \/ NextWaits
          BY <4>3 DEF NextEnds, NextStopped, NextWaits, InLoop
        <4>4. CASE FlushNext \/ CloseDone \/ CloseThrows
          BY <4>4 DEF FlushNext, CloseDone, CloseThrows
        <4> QED
          BY Zenon, <2>7, <4>1, <4>2, <4>3, <4>4 DEF KernelEnds, RequestStop, ProgramShutsDown, vars
      <3>3. StreamPhase' = StreamPhase
        BY <3>2 DEF StreamPhase
      <3> QED
        BY Zenon, <2>2, <3>1, <3>3
    <2> QED
      BY Zenon, <2>3, <2>4, <2>5, <2>6, <2>7 DEF Next, Kernel, Fiber, Stream!Next
  <1> QED
    BY <1>1, <1>2, Invariance, PTL DEF Spec, ImplementsStream, Stream!Spec

(* For any number of connections: an undisturbed destructor closes exactly *)
(* the sockets that the user did not take.                                 *)
THEOREM NothingLeaks == Spec => []NoSocketLeaks
  <1>1. IInv => NoSocketLeaks
    <2> DEFINE kept == {user[i] : i \in DOMAIN user}
    <2> SUFFICES ASSUME IInv, pc = "gone", Undisturbed
                 PROVE  closed \cup kept = 1..accepted /\ closed \cap kept = {}
      BY Zenon DEF NoSocketLeaks
    <2>1. /\ Len(user) \in Nat /\ DOMAIN user = 1..Len(user) /\ accepted \in Nat
      <3>1. accepted \in Nat
        BY AcceptAssumption DEF IInv, TypeOK
      <3> QED
        BY Zenon, <3>1, Elements DEF IInv, TypeOK
    <2>2. cq = <<>> /\ pending = <<>>
      BY Zenon DEF IInv, DestructorShape, ErrorIsFinal, Undisturbed
    <2>3. PICK m \in 0..accepted : Left(m) /\ InLine(m)
      BY Zenon DEF IInv, Line, Undisturbed
    <2>4. OnItsWay = None /\ Way = 0
      BY DEF OnItsWay, Way, IInv, PromiseShape, NoResult, Resumes
    <2>5. accepted = m
      <3>1. Len(cq) = 0 /\ Len(pending) = 0 /\ ~EndsWithError
        BY <2>2 DEF EndsWithError
      <3> QED
        BY <2>1, <2>3, <2>4, <3>1 DEF InLine
    <2>6. kept = 1..Len(user)
      BY Zenon, <2>1, <2>3 DEF Left
    <2>7. closed = (Len(user) + 1)..accepted /\ Len(user) <= accepted
      BY Zenon, <2>3, <2>5 DEF Left
    <2> HIDE DEF kept
    <2> QED
      BY <2>1, <2>6, <2>7
  <1> QED
    BY <1>1, Invariance, PTL

(* An undisturbed destructor ends only after the kernel let go of the       *)
(* accept and every completion was drained, also when SQEs are missing.     *)
THEOREM ObjectOutlives == Spec => []ObjectOutlivesAccept
  <1>1. IInv => ObjectOutlivesAccept
    BY Zenon DEF IInv, ObjectOutlivesAccept, ErrorIsFinal, DestructorShape, Undisturbed
  <1> QED
    BY <1>1, Invariance, PTL

(* A fiber that waits in next() is never forgotten, unless an SQE was      *)
(* missing when the accept had to be armed again.                          *)
THEOREM WaitersServed == Spec => []WaiterIsServed
  <1>1. IInv => WaiterIsServed
    BY Zenon DEF IInv, WaiterIsServed, LiveIsServed
  <1> QED
    BY <1>1, Invariance, PTL
=============================================================================
