--------------------------- MODULE IoCancelProofs ----------------------------
(***************************************************************************)
(* Proofs about IoCancel for any number of stacks, fibers and operations,  *)
(* any submission queue of two entries or more and any number of failing   *)
(* submits.                                                                *)
(***************************************************************************)
EXTENDS IoCancel, Integers, TLAPS

(* The elements of a queue have the type of the queue. *)
LEMMA Elements ==
    ASSUME NEW S, NEW s \in Seq(S)
    PROVE  /\ Len(s) \in Nat /\ DOMAIN s = 1..Len(s)
           /\ \A i \in 1..Len(s) : s[i] \in S
           /\ s # <<>> <=> Len(s) # 0
  OBVIOUS

(* Append pushes at the back. *)
LEMMA PushBack ==
    ASSUME NEW S, NEW s \in Seq(S), NEW e \in S
    PROVE  Append(s, e) \in Seq(S)
  OBVIOUS

(* Head and Tail pop from the front. *)
LEMMA PopFront ==
    ASSUME NEW S, NEW s \in Seq(S), s # <<>>
    PROVE  Head(s) \in S /\ Tail(s) \in Seq(S)
  OBVIOUS

-----------------------------------------------------------------------------
(***************************************************************************)
(* The ring.  A notify read waits for submission only after it was let go; *)
(* without a failed submit nothing waits there, unless the worker died,    *)
(* and then no operation does; and the notify read is always armed or its  *)
(* completion on the way.                                                  *)
(***************************************************************************)
RingShape ==
    /\ InBatch(sq, "notify") # {} => notify_read = "off"
    /\ NoFailure => /\ InBatch(sq, "op") = {}
                    /\ ~crashed => sq = <<>> /\ notify_read # "off"

(* A fiber runs only outside drain_cqes. *)
OneAtATime == cur # None => ~draining

(* The operations of a fiber are those it waits for. *)
Alive ==
    NoFailure => \A a \in Addrs : op[a] # "free" => InCall(a[1]) /\ a[2] \in Unset(a[1])

(* Which stop callbacks are registered, by where the fiber stands, and      *)
(* which are executing: their fiber is still in the call that owns them.    *)
Fits(x, s, label) ==
    \/ x = Pool /\ label \in {"reg_fiber", "get", "wait", "dereg_fiber", "dereg_pool"}
    \/ x = s /\ label \in {"get", "wait", "dereg_fiber"}
Callbacks ==
    /\ \A x \in Sources : \A s \in Stacks : <<x, s>> \in cbs => Fits(x, s, fpc[s])
    /\ \A x \in Sources :
          /\ caller[x].pc \in {"push", "write"} =>
                 /\ caller[x].at \in Stacks /\ x \in requested
                 /\ Fits(x, caller[x].at, fpc[caller[x].at])
          /\ caller[x].pc = "calling" => x \in requested

(* Every queued cancel has its own wakeup: one not yet taken from the       *)
(* eventfd, or the write of the thread that pushed it.                      *)
Tokens ==
    \A j \in 1..Len(cancel_queue) :
        \/ notify_fd > 0 \/ notify_read = "done" \/ crashed
        \/ \E x \in Sources : /\ caller[x].pc = "write"
                              /\ cancel_queue[j] = <<caller[x].at, caller[x].i>>

(* No cancel is queued for a fiber that was not asked to stop, except for   *)
(* one launched by this very drain_cqes, on a stack whose last fiber was:   *)
(* then the completion of the notify read is still to be drained.           *)
Fresh(s) == draining /\ notify_read = "done" /\ fpc[s] = "body"
Clean ==
    NoFailure /\ ~crashed =>
        \A s \in Stacks : fpc[s] # "none" /\ ~Asked(s) /\ ~Fresh(s) =>
            \A j \in 1..Len(cancel_queue) : cancel_queue[j][1] # s

(* What became of an operation, in the kernel or in its promise. *)
Final(v, o) == IF v = "unset" THEN o ELSE v
Outcome(a) == Final(value[a], op[a])
Active(s) == InCall(s) \/ fpc[s] \in {"dereg_fiber", "dereg_pool"}
Justified ==
    NoFailure => \A s \in Stacks : Active(s) => \A i \in Awaitables(s) :
        Outcome(<<s, i>>) = "cancelled" =>
            \/ kind[s] = "timed" \/ Asked(s)
            \/ i = 2 /\ Outcome(<<s, 1>>) \in {"error", "cancelled"}

IInv == /\ TypeOK /\ RingShape /\ OneAtATime /\ Alive /\ Callbacks /\ Tokens
        /\ Clean /\ Justified

-----------------------------------------------------------------------------
(* A batch of two parts holds what its parts hold. *)
LEMMA ConcatBatch ==
    ASSUME NEW b \in Seq(Entries), NEW c \in Seq(Entries), NEW w
    PROVE  InBatch(b \o c, w) = InBatch(b, w) \cup InBatch(c, w)
  <1>1. /\ Len(b) \in Nat /\ Len(c) \in Nat /\ Len(b \o c) = Len(b) + Len(c)
        /\ DOMAIN b = 1..Len(b) /\ DOMAIN c = 1..Len(c)
        /\ DOMAIN (b \o c) = 1..(Len(b) + Len(c))
    OBVIOUS
  <1>2. \A j \in 1..Len(b) : j \in DOMAIN (b \o c) /\ (b \o c)[j] = b[j]
    BY <1>1
  <1>3. \A j \in 1..Len(c) : Len(b) + j \in DOMAIN (b \o c) /\ (b \o c)[Len(b) + j] = c[j]
    BY <1>1
  <1>4. ASSUME NEW j \in DOMAIN (b \o c)
        PROVE  \/ j \in 1..Len(b) /\ (b \o c)[j] = b[j]
               \/ \E l \in 1..Len(c) : (b \o c)[j] = c[l]
    <2>1. CASE j <= Len(b)
      BY <1>1, <2>1
    <2>2. CASE ~(j <= Len(b))
      <3>1. j - Len(b) \in 1..Len(c) /\ (b \o c)[j] = c[j - Len(b)]
        BY <1>1, <2>2
      <3> QED
        BY Zenon, <3>1
    <2> QED
      BY Zenon, <2>1, <2>2
  <1>5. InBatch(b \o c, w) \subseteq InBatch(b, w) \cup InBatch(c, w)
    <2> HIDE <1>2, <1>3
    <2> DEFINE d == b \o c
    <2> SUFFICES ASSUME NEW j \in DOMAIN d, d[j][1] = w
                 PROVE  d[j][2] \in InBatch(b, w) \cup InBatch(c, w)
      BY Zenon DEF InBatch
    <2>1. \/ j \in DOMAIN b /\ d[j] = b[j]
          \/ \E l \in DOMAIN c : d[j] = c[l]
      BY Zenon, <1>1, <1>4
    <2> HIDE DEF d
    <2> QED
      BY <2>1, Zenon DEF InBatch
  <1>6. InBatch(b, w) \subseteq InBatch(b \o c, w)
    <2> SUFFICES ASSUME NEW j \in DOMAIN b, b[j][1] = w PROVE b[j][2] \in InBatch(b \o c, w)
      BY Zenon DEF InBatch
    <2>1. j \in DOMAIN (b \o c) /\ (b \o c)[j] = b[j]
      BY Zenon, <1>1, <1>2
    <2> QED
      BY <2>1, Zenon DEF InBatch
  <1>7. InBatch(c, w) \subseteq InBatch(b \o c, w)
    <2> SUFFICES ASSUME NEW j \in DOMAIN c, c[j][1] = w PROVE c[j][2] \in InBatch(b \o c, w)
      BY Zenon DEF InBatch
    <2>1. Len(b) + j \in DOMAIN (b \o c) /\ (b \o c)[Len(b) + j] = c[j]
      BY Zenon, <1>1, <1>3
    <2> QED
      BY <2>1, Zenon DEF InBatch
  <1> QED
    BY Zenon, <1>5, <1>6, <1>7

(* An empty batch holds nothing. *)
LEMMA EmptyBatch ==
    ASSUME NEW w PROVE InBatch(<<>>, w) = {}
  BY DEF InBatch

(* A batch of two SQEs. *)
LEMMA TwoBatch ==
    ASSUME NEW x, NEW y, NEW w
    PROVE  InBatch(<<x, y>>, w) = {e[2] : e \in {d \in {x, y} : d[1] = w}}
  <1> DEFINE b == <<x, y>>
  <1>1. DOMAIN b = {1, 2} /\ b[1] = x /\ b[2] = y
    OBVIOUS
  <1> HIDE DEF b
  <1>2. InBatch(b, w) = {e[2] : e \in {d \in {x, y} : d[1] = w}}
    BY Zenon, <1>1 DEF InBatch
  <1> QED
    BY Zenon, <1>2 DEF b

(* The SQEs of an operation: at most two, no cancel and no notify read. *)
LEMMA OpBatch ==
    ASSUME NEW s \in Stacks, NEW k \in Kinds
    PROVE  /\ Sqes(s, k) \in Seq(Entries) /\ Len(Sqes(s, k)) \in {1, 2}
           /\ InBatch(Sqes(s, k), "op") = {<<s, i>> : i \in IF k = "linked" THEN {1, 2} ELSE {1}}
           /\ InBatch(Sqes(s, k), "cancel") = {} /\ InBatch(Sqes(s, k), "notify") = {}
  <1>1. <<s, 1>> \in Addrs /\ <<s, 2>> \in Addrs
    BY Zenon DEF Addrs
  <1>2. /\ <<"op", <<s, 1>>>> \in Entries /\ <<"timeout", <<s, 1>>>> \in Entries
        /\ <<"op", <<s, 2>>>> \in Entries
    BY Zenon, <1>1 DEF Entries
  <1>3. CASE k \in {"plain", "close"}
    <2>1. Sqes(s, k) = <<<<"op", <<s, 1>>>>>>
      BY Zenon, <1>3 DEF Sqes
    <2> QED
      BY <1>2, <1>3, <2>1 DEF InBatch
  <1>4. CASE k = "timed"
    <2> DEFINE x == <<"op", <<s, 1>>>>
               y == <<"timeout", <<s, 1>>>>
    <2>1. Sqes(s, k) = <<x, y>>
      BY Zenon, <1>4 DEF Sqes
    <2>2. Sqes(s, k) \in Seq(Entries) /\ Len(Sqes(s, k)) = 2
      BY <1>2, <2>1
    <2>3. /\ x[1] = "op" /\ x[2] = <<s, 1>>
          /\ y[1] = "timeout" /\ y[2] = <<s, 1>>
      BY Zenon
    <2> HIDE DEF x, y
    <2>4. \A w : InBatch(Sqes(s, k), w) = {e[2] : e \in {d \in {x, y} : d[1] = w}}
      BY <2>1, TwoBatch
    <2>5. InBatch(Sqes(s, k), "cancel") = {} /\ InBatch(Sqes(s, k), "notify") = {}
      BY <2>3, <2>4
    <2>6. {d \in {x, y} : d[1] = "op"} = {x}
      BY Zenon, <2>3
    <2>7. InBatch(Sqes(s, k), "op") = {x[2]}
      BY <2>4, <2>6
    <2> QED
      BY Zenon, <1>4, <2>2, <2>3, <2>5, <2>7
  <1>5. CASE k = "linked"
    <2> DEFINE x == <<"op", <<s, 1>>>>
               y == <<"op", <<s, 2>>>>
    <2>1. Sqes(s, k) = <<x, y>>
      BY Zenon, <1>5 DEF Sqes
    <2>2. Sqes(s, k) \in Seq(Entries) /\ Len(Sqes(s, k)) = 2
      BY <1>2, <2>1
    <2>3. /\ x[1] = "op" /\ x[2] = <<s, 1>>
          /\ y[1] = "op" /\ y[2] = <<s, 2>>
      BY Zenon
    <2> HIDE DEF x, y
    <2>4. \A w : InBatch(Sqes(s, k), w) = {e[2] : e \in {d \in {x, y} : d[1] = w}}
      BY <2>1, TwoBatch
    <2>5. /\ InBatch(Sqes(s, k), "op") = {x[2], y[2]}
          /\ InBatch(Sqes(s, k), "cancel") = {} /\ InBatch(Sqes(s, k), "notify") = {}
      BY <2>3, <2>4
    <2> QED
      BY Zenon, <1>5, <2>2, <2>3, <2>5
  <1> QED
    BY Zenon, <1>3, <1>4, <1>5, RingAssumption

(* The SQE of arm_notify. *)
LEMMA NotifyBatch ==
    /\ RearmSqe \in Seq(Entries) /\ Len(RearmSqe) = 1
    /\ InBatch(RearmSqe, "op") = {} /\ InBatch(RearmSqe, "cancel") = {}
    /\ InBatch(RearmSqe, "notify") # {}
  BY DEF RearmSqe, NotifySqe, Entries, InBatch

(* The SQEs of a flush are cancels of queued addresses. *)
CancelBatch(q, n) == [i \in 1..n |-> <<"cancel", q[i]>>]

(* A flush submits cancels of queued addresses and nothing else. *)
LEMMA FlushBatch ==
    ASSUME NEW q \in Seq(Addrs), NEW n \in 0..Len(q), NEW c, c = CancelBatch(q, n)
    PROVE  /\ c \in Seq(Entries) /\ Len(c) = n
           /\ InBatch(c, "op") = {} /\ InBatch(c, "notify") = {}
           /\ \A a \in InBatch(c, "cancel") : \E j \in 1..Len(q) : a = q[j]
  <1>1. Len(q) \in Nat /\ n \in Nat /\ \A i \in 1..n : i \in 1..Len(q)
    BY Elements
  <1>2. ASSUME NEW i \in 1..n PROVE <<"cancel", q[i]>> \in Entries
    <2>1. q[i] \in Addrs
      BY Zenon, <1>1, Elements
    <2> QED
      BY Zenon, <2>1 DEF Entries
  <1>3. c \in Seq(Entries) /\ Len(c) = n /\ DOMAIN c = 1..n
    BY <1>1, <1>2 DEF CancelBatch
  <1>4. \A i \in DOMAIN c : c[i][1] = "cancel" /\ c[i][2] = q[i]
    BY Zenon, <1>3 DEF CancelBatch
  <1>5. InBatch(c, "op") = {} /\ InBatch(c, "notify") = {}
    BY Zenon, <1>4 DEF InBatch
  <1>6. \A a \in InBatch(c, "cancel") : \E j \in 1..Len(q) : a = q[j]
    <2> SUFFICES ASSUME NEW i \in DOMAIN c PROVE \E j \in 1..Len(q) : c[i][2] = q[j]
      BY Zenon DEF InBatch
    <2> QED
      BY Zenon, <1>1, <1>3, <1>4
  <1> QED
    BY Zenon, <1>3, <1>5, <1>6

(* The parts of a batch add up. *)
LEMMA ConcatLen ==
    ASSUME NEW b \in Seq(Entries), NEW c \in Seq(Entries)
    PROVE  b \o c \in Seq(Entries) /\ Len(b \o c) = Len(b) + Len(c) /\ Len(b \o c) \in Nat
  OBVIOUS

(* What is left of a queue whose first entries are taken. *)
LEMMA Rest ==
    ASSUME NEW q \in Seq(Addrs), NEW n \in 0..Len(q), NEW r,
           r = SubSeq(q, n + 1, Len(q))
    PROVE  /\ r \in Seq(Addrs) /\ (n = Len(q) => r = <<>>)
           /\ \A j \in 1..Len(r) : \E l \in 1..Len(q) : r[j] = q[l]
  <1>1. Len(q) \in Nat /\ n \in Nat /\ n <= Len(q)
    BY Elements
  <1>2. r \in Seq(Addrs) /\ Len(r) = Len(q) - n
    BY <1>1
  <1>3. n = Len(q) => r = <<>>
    BY <1>1, <1>2, Elements
  <1>4. ASSUME NEW j \in 1..Len(r) PROVE n + j \in 1..Len(q) /\ r[j] = q[n + j]
    <2>1. j \in 1..(Len(q) - n) /\ n + j \in 1..Len(q) /\ n + 1 + j - 1 = n + j
      BY <1>1, <1>2
    <2>2. r[j] = q[n + 1 + j - 1]
      BY <1>1, <2>1
    <2> QED
      BY Zenon, <2>1, <2>2
  <1> QED
    BY Zenon, <1>2, <1>3, <1>4

(***************************************************************************)
(* flush_cancel_queue and arm_notify: either there was an SQE for every    *)
(* queued cancel and for the notify read, and the queue is empty, or the   *)
(* worker dies.                                                            *)
(***************************************************************************)
Flushed(c) ==
    \/ /\ crashed' = TRUE /\ sq' = sq \o c /\ Len(sq \o c) <= SqEntries
       /\ notify_read' = "off" /\ UNCHANGED <<op, failures>>
    \/ /\ Len(sq \o (c \o RearmSqe)) <= SqEntries /\ cancel_queue' = <<>>
       /\ SubmitOk(c \o RearmSqe, "off") \/ SubmitFails(c \o RearmSqe, "off")
       /\ UNCHANGED crashed

(* A flush takes its cancels from the queue and leaves the rest of it. *)
LEMMA Flush ==
    ASSUME TypeOK, DrainNotify
    PROVE  /\ cancel_queue' \in Seq(Addrs)
           /\ \A j \in 1..Len(cancel_queue') : \E l \in 1..Len(cancel_queue) :
                 cancel_queue'[j] = cancel_queue[l]
           /\ \E c \in Seq(Entries) :
                 /\ InBatch(c, "op") = {} /\ InBatch(c, "notify") = {}
                 /\ \A a \in InBatch(c, "cancel") :
                       \E j \in 1..Len(cancel_queue) : a = cancel_queue[j]
                 /\ Flushed(c)
  <1> DEFINE room == SqEntries - Len(sq)
             n == CancelSqes(room)
             c == CancelBatch(cancel_queue, n)
  <1>1. /\ sq \in Seq(Entries) /\ Len(sq) <= SqEntries /\ Len(sq) \in Nat
        /\ cancel_queue \in Seq(Addrs) /\ Len(cancel_queue) \in Nat
    BY Zenon, Elements DEF TypeOK
  <1>2. room \in Nat
    BY <1>1, RingAssumption
  <1>3. n \in 0..Len(cancel_queue) /\ n <= room /\ (n # room => n = Len(cancel_queue))
    BY <1>1, <1>2 DEF CancelSqes
  <1>4. cancel_queue' = SubSeq(cancel_queue, n + 1, Len(cancel_queue))
    BY Zenon DEF DrainNotify
  <1>5. IF n = room
        THEN /\ crashed' = TRUE
             /\ sq' = sq \o c /\ notify_read' = "off"
             /\ UNCHANGED <<op, failures>>
        ELSE /\ \/ SubmitOk(c \o RearmSqe, "off")
                \/ SubmitFails(c \o RearmSqe, "off")
             /\ UNCHANGED crashed
    BY Zenon DEF DrainNotify, CancelBatch
  <1>6. c = CancelBatch(cancel_queue, n)
    BY Zenon
  <1> HIDE DEF c, n
  <1>7. /\ c \in Seq(Entries) /\ Len(c) = n
        /\ InBatch(c, "op") = {} /\ InBatch(c, "notify") = {}
        /\ \A a \in InBatch(c, "cancel") : \E j \in 1..Len(cancel_queue) : a = cancel_queue[j]
    BY <1>1, <1>3, <1>6, FlushBatch
  <1>8. /\ cancel_queue' \in Seq(Addrs) /\ (n = Len(cancel_queue) => cancel_queue' = <<>>)
        /\ \A j \in 1..Len(cancel_queue') : \E l \in 1..Len(cancel_queue) :
                 cancel_queue'[j] = cancel_queue[l]
    BY <1>1, <1>3, <1>4, Rest
  <1>9. /\ Len(sq \o c) = Len(sq) + n
        /\ Len(sq \o (c \o RearmSqe)) = Len(sq) + n + 1
    <2>1. c \o RearmSqe \in Seq(Entries) /\ Len(c \o RearmSqe) = n + 1
      BY Zenon, <1>7, NotifyBatch, ConcatLen
    <2> QED
      <3>1. Len(sq \o (c \o RearmSqe)) = Len(sq) + Len(c \o RearmSqe)
        BY Zenon, <1>1, <2>1, ConcatLen
      <3>2. Len(sq \o c) = Len(sq) + Len(c)
        BY Zenon, <1>1, <1>7, ConcatLen
      <3> QED
        BY <1>1, <1>3, <1>7, <2>1, <3>1, <3>2
  <1>10. Flushed(c)
    <2>1. CASE n = room
      <3>1. Len(sq \o c) <= SqEntries
        BY <1>1, <1>9, <2>1, RingAssumption
      <3> QED
        BY Zenon, <1>5, <2>1, <3>1 DEF Flushed
    <2>2. CASE n # room
      <3>1. Len(sq \o (c \o RearmSqe)) <= SqEntries
        BY <1>1, <1>2, <1>3, <1>9, <2>2, RingAssumption
      <3> QED
        BY Zenon, <1>3, <1>5, <1>8, <2>2, <3>1 DEF Flushed
    <2> QED
      BY Zenon, <2>1, <2>2
  <1> QED
    BY <1>7, <1>8, <1>10, Zenon

-----------------------------------------------------------------------------
(* The states of an operation. *)
OpStates == Results \cup {"free", "linked", "pending", "running"}

(* A cancelled chain leaves every operation in one of them. *)
LEMMA CascadeType ==
    ASSUME NEW f \in [Addrs -> OpStates], NEW hit
    PROVE  Cascade(f, hit) \in [Addrs -> OpStates]
  BY Zenon DEF Cascade, OpStates, Results

(* A submit keeps the types, and one that does not fail took the batch. *)
LEMMA SubmitType ==
    ASSUME TypeOK, NEW new \in Seq(Entries), NEW read \in {"off", "armed", "done"},
           Len(sq \o new) <= SqEntries, SubmitOk(new, read) \/ SubmitFails(new, read)
    PROVE  /\ op' \in [Addrs -> OpStates] /\ notify_read' \in {"off", "armed", "done"}
           /\ sq' \in Seq(Entries) /\ Len(sq') <= SqEntries
           /\ failures' \in 0..MaxFailures
           /\ failures' = MaxFailures => SubmitOk(new, read) /\ NoFailure
  <1>1. /\ sq \in Seq(Entries) /\ op \in [Addrs -> OpStates]
        /\ failures \in 0..MaxFailures /\ MaxFailures \in Nat
    BY Zenon, RingAssumption DEF TypeOK, OpStates
  <1>2. CASE SubmitOk(new, read)
    <2> DEFINE b == sq \o new
               f == [a \in Addrs |-> IF a \notin InBatch(b, "op") THEN op[a]
                                     ELSE IF a[2] = 1 THEN "pending" ELSE "linked"]
    <2>1. f \in [Addrs -> OpStates]
      BY Zenon, <1>1 DEF OpStates
    <2>2. /\ op' = Cascade(f, {a \in InBatch(b, "cancel") : f[a] = "pending"})
          /\ notify_read' = IF InBatch(b, "notify") # {} THEN "armed" ELSE read
          /\ sq' = <<>> /\ failures' = failures
      BY <1>2, Zenon DEF SubmitOk, Consume
    <2> HIDE DEF f, b
    <2>3. op' \in [Addrs -> OpStates]
      BY Zenon, <2>1, <2>2, CascadeType
    <2>4. /\ sq' \in Seq(Entries) /\ Len(sq') <= SqEntries
          /\ notify_read' \in {"off", "armed", "done"}
      BY <2>2, RingAssumption
    <2>5. failures' \in 0..MaxFailures
      BY Zenon, <1>1, <2>2
    <2> QED
      BY <1>2, <2>2, <2>3, <2>4, <2>5, Zenon DEF NoFailure
  <1>3. CASE SubmitFails(new, read)
    <2>1. /\ sq' = sq \o new /\ notify_read' = read /\ op' = op
          /\ failures > 0 /\ failures' = failures - 1
      BY Zenon, <1>3 DEF SubmitFails
    <2>2. failures' \in 0..MaxFailures /\ failures' # MaxFailures
      BY <1>1, <2>1
    <2>3. sq' \in Seq(Entries) /\ Len(sq') <= SqEntries
      BY Zenon, <1>1, <2>1, ConcatLen
    <2> QED
      BY Zenon, <1>1, <2>1, <2>2, <2>3
  <1> QED
    BY Zenon, <1>2, <1>3

(* With nothing waiting in the queue, a submit starts the operations of the *)
(* new SQEs and hits what their cancels name.                               *)
Started(new) == [a \in Addrs |-> IF a \notin InBatch(new, "op") THEN op[a]
                                 ELSE IF a[2] = 1 THEN "pending" ELSE "linked"]

(* What a submit does to the operations when the queue was empty. *)
LEMMA CleanSubmit ==
    ASSUME NEW new \in Seq(Entries), NEW read, sq = <<>>, SubmitOk(new, read)
    PROVE  /\ op' = Cascade(Started(new),
                            {a \in InBatch(new, "cancel") : Started(new)[a] = "pending"})
           /\ notify_read' = IF InBatch(new, "notify") # {} THEN "armed" ELSE read
  <1>1. sq \o new = new
    OBVIOUS
  <1> QED
    BY <1>1, Zenon DEF SubmitOk, Consume, Started

-----------------------------------------------------------------------------
(***************************************************************************)
(* Type correctness, one step per actor.                                   *)
(***************************************************************************)
LEMMA InitType == ASSUME Init PROVE TypeOK
  <1>1. caller \in [Sources -> [pc : {"idle", "calling", "push", "write"},
                                at : Stacks \cup {None}, i : {1, 2}]]
    BY Zenon DEF Init, Idle
  <1>2. ready \in Seq(Stacks) /\ cancel_queue \in Seq(Addrs)
    BY DEF Init
  <1>3. sq \in Seq(Entries) /\ Len(sq) <= SqEntries
    BY RingAssumption DEF Init
  <1>4. /\ value \in [Addrs -> Results \cup {"unset"}]
        /\ op \in [Addrs -> Results \cup {"free", "linked", "pending", "running"}]
    BY Zenon DEF Init
  <1>5. /\ fibers_left \in [Stacks -> 0..MaxFibers] /\ ops_left \in [Stacks -> 0..MaxOps]
        /\ failures \in 0..MaxFailures /\ notify_fd \in Nat
    BY RingAssumption DEF Init
  <1>6. /\ fpc \in [Stacks -> FiberPCs] /\ kind \in [Stacks -> Kinds \cup {None}]
    BY Zenon DEF Init, FiberPCs
  <1> QED
    BY Zenon, <1>1, <1>2, <1>3, <1>4, <1>5, <1>6 DEF Init, TypeOK

(* The kernel changes the operations and the notify read. *)
LEMMA KernelType ==
    ASSUME TypeOK, Kernel
    PROVE  TypeOK'
  <1> SUFFICES /\ op' \in [Addrs -> OpStates]
               /\ notify_fd' \in Nat /\ notify_read' \in {"off", "armed", "done"}
               /\ UNCHANGED <<fiberVars, schedVars, sq, failures, cancel_queue, stopVars,
                              crashed>>
    BY Zenon DEF TypeOK, OpStates, fiberVars, schedVars, stopVars
  <1>1. /\ op \in [Addrs -> OpStates] /\ notify_fd \in Nat
        /\ notify_read \in {"off", "armed", "done"}
    BY Zenon DEF TypeOK, OpStates
  <1>2. ASSUME NEW a \in Addrs, KernelRun(a) \/ KernelComplete(a) PROVE op' \in [Addrs -> OpStates]
    <2>1. CASE KernelRun(a)
      BY Zenon, <1>1, <2>1 DEF KernelRun, OpStates
    <2>2. CASE KernelComplete(a)
      <3>1. [op EXCEPT ![a] = "error"] \in [Addrs -> OpStates]
        BY Zenon, <1>1 DEF OpStates, Results
      <3>2. CASE op' = Cascade([op EXCEPT ![a] = "error"], {a})
        BY Zenon, <3>1, <3>2, CascadeType
      <3>3. CASE op' = [x \in Addrs |-> IF x = a THEN "ok"
                                     ELSE IF x = <<a[1], a[2] + 1>> /\ op[x] = "linked"
                                     THEN "pending" ELSE op[x]]
        BY Zenon, <1>1, <3>3 DEF OpStates, Results
      <3> QED
        BY <2>2, <3>2, <3>3, Zenon DEF KernelComplete
    <2> QED
      BY Zenon, <1>2, <2>1, <2>2
  <1>3. ASSUME NEW s \in Stacks, KernelTimeout(s) PROVE op' \in [Addrs -> OpStates]
    BY Zenon, <1>1, <1>3 DEF KernelTimeout, OpStates, Results
  <1>4. CASE KernelNotify
    BY <1>1, <1>4 DEF KernelNotify
  <1>5. CASE ~KernelNotify
    <2>1. /\ notify_fd' = notify_fd /\ notify_read' = notify_read
          /\ UNCHANGED <<fiberVars, schedVars, sq, failures, cancel_queue, stopVars, crashed>>
      BY <1>5, Zenon DEF Kernel, KernelRun, KernelComplete, KernelTimeout, cancelVars
    <2> QED
      BY <1>1, <1>2, <1>3, <1>5, <2>1, Zenon DEF Kernel
  <1> QED
    BY Zenon, <1>4, <1>5

(* A thread in request_stop() cancels awaitables of real stacks. *)
LEMMA CallerType ==
    ASSUME TypeOK, Callbacks, NEW x \in Sources, RequestStop(x) \/ Calls(x)
    PROVE  TypeOK'
  <1> DEFINE Callers == [pc : {"idle", "calling", "push", "write"},
                         at : Stacks \cup {None}, i : {1, 2}]
  <1> SUFFICES /\ caller' \in [Sources -> Callers] /\ requested' \subseteq Sources
               /\ cbs' \subseteq Sources \X Stacks
               /\ cancel_queue' \in Seq(Addrs) /\ notify_fd' \in Nat
               /\ UNCHANGED <<fiberVars, schedVars, ringVars, stoppable, crashed>>
    BY Zenon DEF TypeOK, fiberVars, schedVars, ringVars
  <1>1. /\ caller \in [Sources -> Callers] /\ requested \subseteq Sources
        /\ cbs \subseteq Sources \X Stacks
        /\ cancel_queue \in Seq(Addrs) /\ notify_fd \in Nat
    BY Zenon DEF TypeOK
  <1>2. caller[x] \in Callers
    BY Zenon, <1>1
  <1>3. CASE RequestStop(x)
    BY Zenon, <1>1, <1>2, <1>3 DEF RequestStop, cancelVars
  <1>4. CASE CallsDone(x)
    BY Zenon, <1>1, <1>4 DEF CallsDone, Idle, cancelVars
  <1>5. CASE PushCancel(x)
    <2>1. caller[x].pc = "push" /\ caller[x].at \in Stacks
      BY Zenon, <1>5 DEF PushCancel, Callbacks
    <2>2. <<caller[x].at, caller[x].i>> \in Addrs
      BY Zenon, <1>2, <2>1 DEF Addrs
    <2>3. cancel_queue' \in Seq(Addrs)
      BY Zenon, <1>1, <1>5, <2>2, PushBack DEF PushCancel
    <2>4. [caller[x] EXCEPT !.pc = "write"] \in Callers
      BY Zenon, <1>2
    <2>5. /\ caller' = [caller EXCEPT ![x] = [caller[x] EXCEPT !.pc = "write"]]
          /\ UNCHANGED <<requested, cbs, notify_fd>>
          /\ UNCHANGED <<fiberVars, schedVars, ringVars, stoppable, crashed>>
      BY Zenon, <1>1, <1>5 DEF PushCancel
    <2> QED
      BY Zenon, <1>1, <2>3, <2>4, <2>5
  <1>6. CASE WriteNotify(x)
    <2> DEFINE next == IF caller[x].i + 1 \in Awaitables(caller[x].at)
                       THEN [caller[x] EXCEPT !.pc = "push", !.i = 2]
                       ELSE [pc |-> "calling", at |-> None, i |-> 1]
    <2>1. next \in Callers
      BY Zenon, <1>2
    <2>2. /\ caller' = [caller EXCEPT ![x] = next] /\ notify_fd' = notify_fd + 1
          /\ UNCHANGED <<requested, cbs, cancel_queue>>
          /\ UNCHANGED <<fiberVars, schedVars, ringVars, stoppable, crashed>>
      BY Zenon, <1>1, <1>6 DEF WriteNotify
    <2> QED
      BY <1>1, <2>1, <2>2
  <1>7. ASSUME NEW s \in Stacks, CallNext(x, s)
        PROVE  /\ caller' \in [Sources -> Callers]
               /\ cbs' \subseteq Sources \X Stacks
               /\ UNCHANGED <<requested, cancel_queue, notify_fd>>
               /\ UNCHANGED <<fiberVars, schedVars, ringVars, stoppable, crashed>>
    BY Zenon, <1>1, <1>7 DEF CallNext, cancelVars
  <1> QED
    BY Zenon, <1>1, <1>3, <1>4, <1>5, <1>6, <1>7 DEF Calls

(* The dispatcher and its completions. *)
LEMMA DispatchType ==
    ASSUME TypeOK, \/ PickNext \/ SuspendUntil \/ DrainEnd \/ DrainNotify
                   \/ \E a \in Addrs : DrainIo(a)
                   \/ \E s \in Stacks : LaunchFiber(s)
    PROVE  TypeOK'
  <1>1. CASE PickNext \/ SuspendUntil \/ DrainEnd
    <2>1. /\ cur' \in Stacks \cup {None} /\ draining' \in BOOLEAN /\ ready' \in Seq(Stacks)
          /\ UNCHANGED <<fiberVars, ringVars, cancelVars, stopVars, crashed>>
      <3>1. cur \in Stacks \cup {None} /\ draining \in BOOLEAN /\ ready \in Seq(Stacks)
        BY Zenon DEF TypeOK
      <3>2. CASE PickNext
        BY Zenon, <3>1, <3>2, PopFront DEF PickNext
      <3>3. CASE SuspendUntil \/ DrainEnd
        BY Zenon, <3>1, <3>3 DEF SuspendUntil, DrainEnd
      <3> QED
        BY Zenon, <1>1, <3>2, <3>3
    <2> QED
      BY Zenon, <2>1 DEF TypeOK, fiberVars, ringVars, cancelVars, stopVars
  <1>2. CASE DrainNotify
    <2>1. PICK c \in Seq(Entries) : Flushed(c)
      BY Zenon, <1>2, Flush
    <2>2. c \o RearmSqe \in Seq(Entries)
      BY Zenon, <2>1, NotifyBatch, ConcatLen
    <2>3. /\ op' \in [Addrs -> OpStates] /\ notify_read' \in {"off", "armed", "done"}
          /\ sq' \in Seq(Entries) /\ Len(sq') <= SqEntries
          /\ failures' \in 0..MaxFailures /\ crashed' \in BOOLEAN
      <3>1. CASE /\ Len(sq \o (c \o RearmSqe)) <= SqEntries /\ crashed' = crashed
                 /\ SubmitOk(c \o RearmSqe, "off") \/ SubmitFails(c \o RearmSqe, "off")
        <4>1. /\ op' \in [Addrs -> OpStates] /\ notify_read' \in {"off", "armed", "done"}
              /\ sq' \in Seq(Entries) /\ Len(sq') <= SqEntries
              /\ failures' \in 0..MaxFailures
          BY Zenon, <2>2, <3>1, SubmitType
        <4> QED
          BY Zenon, <3>1, <4>1 DEF TypeOK
      <3>2. CASE /\ crashed' = TRUE /\ sq' = sq \o c /\ Len(sq \o c) <= SqEntries
                 /\ notify_read' = "off" /\ op' = op /\ failures' = failures
        <4>1. sq \o c \in Seq(Entries)
          BY Zenon, <2>1, ConcatLen DEF TypeOK
        <4> QED
          BY Zenon, <3>2, <4>1 DEF TypeOK, OpStates
      <3> QED
        BY <2>1, <3>1, <3>2, Zenon DEF Flushed
    <2>4. cancel_queue' \in Seq(Addrs) /\ UNCHANGED <<schedVars, fiberVars, notify_fd, stopVars>>
      BY Zenon, <1>2, Flush DEF DrainNotify
    <2> QED
      BY Zenon, <2>3, <2>4 DEF TypeOK, OpStates, schedVars, fiberVars, stopVars
  <1>3. ASSUME NEW a \in Addrs, DrainIo(a) PROVE TypeOK'
    <2>1. a[1] \in Stacks /\ op[a] \in Results
      BY Zenon, <1>3 DEF DrainIo, Addrs
    <2>2. /\ op' \in [Addrs -> OpStates]
          /\ value' \in [Addrs -> Results \cup {"unset"}]
      BY Zenon, <1>3, <2>1 DEF DrainIo, TypeOK, OpStates
    <2>3. fpc' \in [Stacks -> FiberPCs] /\ ready' \in Seq(Stacks)
      BY Zenon, <1>3, <2>1, PushBack DEF DrainIo, TypeOK, FiberPCs
    <2>4. UNCHANGED <<cur, draining, kind, fibers_left, ops_left, sq, failures,
                      notify_read, cancelVars, stopVars, crashed>>
      BY Zenon, <1>3 DEF DrainIo
    <2> QED
      BY Zenon, <2>2, <2>3, <2>4 DEF TypeOK, OpStates, cancelVars, stopVars
  <1>4. ASSUME NEW s \in Stacks, LaunchFiber(s) PROVE TypeOK'
    <2>1. /\ fpc' \in [Stacks -> FiberPCs] /\ ready' \in Seq(Stacks)
          /\ requested' \subseteq Sources /\ stoppable' \subseteq Stacks
      BY Zenon, <1>4, PushBack DEF LaunchFiber, Goto, TypeOK, FiberPCs
    <2>2. fibers_left' \in [Stacks -> 0..MaxFibers] /\ ops_left' \in [Stacks -> 0..MaxOps]
      <3>1. fibers_left[s] - 1 \in 0..MaxFibers /\ MaxOps \in 0..MaxOps
        BY <1>4, RingAssumption DEF LaunchFiber, TypeOK
      <3> QED
        BY Zenon, <1>4, <3>1 DEF LaunchFiber, TypeOK
    <2>3. UNCHANGED <<cur, draining, kind, value, ringVars, cancelVars, cbs, caller, crashed>>
      BY Zenon, <1>4 DEF LaunchFiber
    <2> QED
      BY Zenon, <2>1, <2>2, <2>3 DEF TypeOK, ringVars, cancelVars
  <1> QED
    BY Zenon, <1>1, <1>2, <1>3, <1>4

(* The operations of a fiber. *)
LEMMA OpType ==
    ASSUME TypeOK, NEW s \in Stacks, NEW k \in Kinds,
           OpRefused(s, k) \/ SleepNoTime(s, k) \/ OpNoSqe(s, k) \/ OpSubmit(s, k)
    PROVE  TypeOK'
  <1>1. ops_left' \in [Stacks -> 0..MaxOps]
    <2>1. ops_left[s] > 0 /\ ops_left' = [ops_left EXCEPT ![s] = ops_left[s] - 1]
      BY Zenon DEF OpRefused, SleepNoTime, OpNoSqe, OpSubmit, TakeOp
    <2>2. ops_left[s] - 1 \in 0..MaxOps
      BY <2>1, RingAssumption DEF TypeOK
    <2> QED
      BY Zenon, <2>1, <2>2 DEF TypeOK
  <1>2. CASE OpRefused(s, k) \/ SleepNoTime(s, k)
    <2>1. UNCHANGED <<schedVars, fpc, kind, value, fibers_left, ringVars, cancelVars,
                      stopVars, crashed>>
      BY Zenon, <1>2 DEF OpRefused, SleepNoTime
    <2> QED
      BY Zenon, <1>1, <2>1 DEF TypeOK, schedVars, ringVars, cancelVars, stopVars
  <1>3. CASE OpNoSqe(s, k)
    <2>1. sq' \in Seq(Entries) /\ Len(sq') <= SqEntries /\ crashed' \in BOOLEAN
      <3>1. <<"op", <<s, 1>>>> \in Entries
        BY Zenon DEF Entries, Addrs
      <3>2. CASE sq' = Append(sq, <<"op", <<s, 1>>>>) /\ Len(sq) < SqEntries /\ crashed' = crashed
        BY <3>1, <3>2, RingAssumption DEF TypeOK
      <3>3. CASE crashed' = TRUE /\ sq' = sq
        BY Zenon, <3>3 DEF TypeOK
      <3> QED
        BY <1>3, <3>2, <3>3, Zenon DEF OpNoSqe
    <2>2. UNCHANGED <<schedVars, fpc, kind, value, fibers_left, op, failures,
                      notify_read, cancelVars, stopVars>>
      BY Zenon, <1>3 DEF OpNoSqe
    <2> QED
      BY Zenon, <1>1, <2>1, <2>2 DEF TypeOK, schedVars, cancelVars, stopVars
  <1>4. CASE OpSubmit(s, k)
    <2>1. /\ SubmitOk(Sqes(s, k), notify_read) \/ SubmitFails(Sqes(s, k), notify_read)
          /\ Len(sq) + Len(Sqes(s, k)) <= SqEntries
      BY <1>4, Zenon DEF OpSubmit
    <2>2. Len(sq \o Sqes(s, k)) <= SqEntries
      BY Zenon, <2>1, OpBatch, ConcatLen DEF TypeOK
    <2>3. notify_read \in {"off", "armed", "done"}
      BY Zenon DEF TypeOK
    <2>4. /\ op' \in [Addrs -> OpStates] /\ notify_read' \in {"off", "armed", "done"}
          /\ sq' \in Seq(Entries) /\ Len(sq') <= SqEntries
          /\ failures' \in 0..MaxFailures
      BY Zenon, <2>1, <2>2, <2>3, OpBatch, SubmitType
    <2>5. /\ kind' \in [Stacks -> Kinds \cup {None}]
          /\ value' \in [Addrs -> Results \cup {"unset"}]
          /\ fpc' \in [Stacks -> FiberPCs]
      BY Zenon, <1>4 DEF OpSubmit, Goto, TypeOK, FiberPCs
    <2>6. UNCHANGED <<schedVars, fibers_left, cancelVars, stopVars, crashed>>
      BY Zenon, <1>4 DEF OpSubmit
    <2> QED
      BY Zenon, <1>1, <2>4, <2>5, <2>6 DEF TypeOK, OpStates, schedVars, cancelVars, stopVars
  <1> QED
    BY Zenon, <1>2, <1>3, <1>4

(* Constructing a stop callback: it is registered, or it runs now, pushes   *)
(* cancels of this fiber only, and writes the notify eventfd.               *)
LEMMA RegisterEffect ==
    ASSUME TypeOK, NEW s \in Stacks, NEW x \in Sources, Register(s, x)
    PROVE  /\ cancel_queue' \in Seq(Addrs) /\ notify_fd' \in Nat
           /\ \/ /\ x \in requested /\ cbs' = cbs /\ notify_fd' > 0
                 /\ \A j \in 1..Len(cancel_queue') :
                       \/ cancel_queue'[j][1] = s
                       \/ \E l \in 1..Len(cancel_queue) : cancel_queue'[j] = cancel_queue[l]
              \/ /\ x \notin requested /\ cbs' = cbs \cup {<<x, s>>}
                 /\ cancel_queue' = cancel_queue /\ notify_fd' = notify_fd
  <1>1. /\ cancel_queue \in Seq(Addrs) /\ Len(cancel_queue) \in Nat /\ notify_fd \in Nat
    BY Zenon, Elements DEF TypeOK
  <1>2. CASE x \notin requested
    BY Zenon, <1>1, <1>2 DEF Register, cancelVars
  <1>3. CASE x \in requested
    <2> DEFINE c == Cancels(s)
    <2>1. c \in Seq(Addrs) /\ Len(c) \in {1, 2} /\ \A i \in 1..Len(c) : c[i][1] = s
      <3>1. <<s, 1>> \in Addrs /\ <<s, 2>> \in Addrs
        BY Zenon DEF Addrs
      <3>2. CASE kind[s] = "linked"
        <4>1. c = <<<<s, 1>>, <<s, 2>>>>
          BY Zenon, <3>2 DEF Cancels
        <4> QED
          BY <3>1, <4>1
      <3>3. CASE kind[s] # "linked"
        <4>1. c = <<<<s, 1>>>>
          BY Zenon, <3>3 DEF Cancels
        <4> QED
          BY <3>1, <4>1
      <3> QED
        BY Zenon, <3>2, <3>3
    <2>2. cancel_queue' = cancel_queue \o c /\ notify_fd' = notify_fd + Len(c) /\ cbs' = cbs
      BY Zenon, <1>3 DEF Register
    <2> HIDE DEF c
    <2>3. /\ cancel_queue' \in Seq(Addrs) /\ Len(cancel_queue') = Len(cancel_queue) + Len(c)
          /\ notify_fd' \in Nat /\ notify_fd' > 0
      <3>1. cancel_queue' \in Seq(Addrs) /\ Len(cancel_queue') = Len(cancel_queue) + Len(c)
        BY <1>1, <2>1, <2>2
      <3>2. notify_fd' \in Nat /\ notify_fd' > 0
        <4>1. \A m \in {1, 2} : notify_fd + m \in Nat /\ notify_fd + m > 0
          BY <1>1
        <4> QED
          BY <2>1, <2>2, <4>1, Zenon
      <3> QED
        BY Zenon, <3>1, <3>2
    <2>4. ASSUME NEW j \in 1..Len(cancel_queue')
          PROVE  \/ cancel_queue'[j][1] = s
                 \/ \E l \in 1..Len(cancel_queue) : cancel_queue'[j] = cancel_queue[l]
      <3>1. CASE j <= Len(cancel_queue)
        <4>1. j \in 1..Len(cancel_queue) /\ cancel_queue'[j] = cancel_queue[j]
          BY <1>1, <2>1, <2>2, <2>3, <3>1
        <4> QED
          BY Zenon, <4>1
      <3>2. CASE ~(j <= Len(cancel_queue))
        <4>1. j - Len(cancel_queue) \in 1..Len(c)
          BY <1>1, <2>1, <2>3, <3>2
        <4>2. cancel_queue'[j] = c[j - Len(cancel_queue)]
          BY <1>1, <2>1, <2>2, <2>3, <3>2
        <4> QED
          BY Zenon, <2>1, <4>1, <4>2
      <3> QED
        BY Zenon, <3>1, <3>2
    <2> QED
      BY Zenon, <1>3, <2>2, <2>3, <2>4
  <1> QED
    BY Zenon, <1>2, <1>3

(* The other steps of a fiber: it registers and destroys its callbacks,     *)
(* waits, and ends.                                                         *)
LEMMA FiberType ==
    ASSUME TypeOK, NEW s \in Stacks,
           \/ RegisterPool(s) \/ RegisterFiber(s) \/ FutureGet(s)
           \/ DeregisterFiber(s) \/ DeregisterPool(s) \/ FiberEnd(s)
    PROVE  TypeOK'
  <1>1. /\ cur' \in Stacks \cup {None} /\ fpc' \in [Stacks -> FiberPCs]
        /\ UNCHANGED <<draining, ready, kind, value, fibers_left, ops_left, ringVars,
                       requested, stoppable, caller, crashed>>
    <2>1. cur \in Stacks \cup {None} /\ fpc \in [Stacks -> FiberPCs]
      BY Zenon DEF TypeOK
    <2>2. CASE RegisterPool(s) \/ RegisterFiber(s)
      BY Zenon, <2>1, <2>2 DEF RegisterPool, RegisterFiber, Goto, FiberPCs, schedVars
    <2>3. CASE DeregisterFiber(s) \/ DeregisterPool(s)
      BY Zenon, <2>1, <2>3 DEF DeregisterFiber, DeregisterPool, Goto, FiberPCs, schedVars
    <2>4. CASE FutureGet(s) \/ FiberEnd(s)
      BY Zenon, <2>1, <2>4 DEF FutureGet, FiberEnd, Goto, FiberPCs, stopVars
    <2> QED
      BY Zenon, <2>2, <2>3, <2>4
  <1>2. cancel_queue' \in Seq(Addrs) /\ notify_fd' \in Nat /\ cbs' \subseteq Sources \X Stacks
    <2>1. /\ cancel_queue \in Seq(Addrs) /\ notify_fd \in Nat /\ cbs \subseteq Sources \X Stacks
          /\ s \in Sources /\ Pool \in Sources
      BY Zenon DEF TypeOK, Sources
    <2>2. ASSUME NEW x \in Sources, Register(s, x)
          PROVE  /\ cancel_queue' \in Seq(Addrs) /\ notify_fd' \in Nat
                 /\ cbs' \subseteq Sources \X Stacks
      BY <2>1, <2>2, RegisterEffect
    <2>3. CASE RegisterPool(s) \/ RegisterFiber(s)
      BY Zenon, <2>1, <2>2, <2>3 DEF RegisterPool, RegisterFiber
    <2>4. CASE DeregisterFiber(s) \/ DeregisterPool(s)
      BY Zenon, <2>1, <2>4 DEF DeregisterFiber, DeregisterPool, cancelVars
    <2>5. CASE FutureGet(s) \/ FiberEnd(s)
      BY Zenon, <2>1, <2>5 DEF FutureGet, FiberEnd, cancelVars, stopVars
    <2> QED
      BY Zenon, <2>3, <2>4, <2>5
  <1> QED
    BY Zenon, <1>1, <1>2 DEF TypeOK, ringVars

(* Every step keeps the types. *)
LEMMA TypeStep ==
    ASSUME TypeOK, Callbacks, [Next]_vars
    PROVE  TypeOK'
  <1>1. CASE Worker
    <2>1. ASSUME NEW s \in Stacks, Fiber(s) PROVE TypeOK'
      BY Zenon, <2>1, OpType, FiberType DEF Fiber
    <2> QED
      BY Zenon, <1>1, <2>1, DispatchType DEF Worker
  <1>2. CASE Kernel
    BY Zenon, <1>2, KernelType
  <1>3. ASSUME NEW x \in Sources, RequestStop(x) \/ Calls(x) PROVE TypeOK'
    BY Zenon, <1>3, CallerType
  <1>4. CASE UNCHANGED vars
    BY Zenon, <1>4 DEF vars, TypeOK
  <1> QED
    BY Zenon, <1>1, <1>2, <1>3, <1>4 DEF Next

(* The failing submits only ever get fewer. *)
LEMMA FailuresStay ==
    ASSUME TypeOK, [Next]_vars, NoFailure'
    PROVE  NoFailure
  <1>1. failures \in 0..MaxFailures /\ MaxFailures \in Nat /\ failures' = MaxFailures
    BY Zenon, RingAssumption DEF TypeOK, NoFailure
  <1>2. failures' = failures \/ failures' = failures - 1
    <2>1. CASE DrainNotify
      BY <2>1, Zenon DEF DrainNotify, SubmitOk, SubmitFails
    <2>2. ASSUME NEW s \in Stacks, NEW k \in Kinds,
                 OpRefused(s, k) \/ SleepNoTime(s, k) \/ OpNoSqe(s, k) \/ OpSubmit(s, k)
          PROVE  failures' = failures \/ failures' = failures - 1
      BY <2>2, Zenon DEF OpRefused, SleepNoTime, OpNoSqe, OpSubmit, SubmitOk, SubmitFails, ringVars
    <2>3. CASE \/ PickNext \/ SuspendUntil \/ DrainEnd
               \/ \E a \in Addrs : DrainIo(a)
               \/ \E s \in Stacks : LaunchFiber(s)
      BY <2>3, Zenon DEF PickNext, SuspendUntil, DrainEnd, DrainIo, LaunchFiber, ringVars
    <2>4. ASSUME NEW s \in Stacks,
                 \/ RegisterPool(s) \/ RegisterFiber(s) \/ FutureGet(s)
                 \/ DeregisterFiber(s) \/ DeregisterPool(s) \/ FiberEnd(s)
          PROVE  failures' = failures
      BY <2>4, Zenon DEF RegisterPool, RegisterFiber, FutureGet, DeregisterFiber,
                         DeregisterPool, FiberEnd, ringVars
    <2>5. CASE Kernel \/ \E x \in Sources : RequestStop(x) \/ Calls(x)
      BY <2>5, Zenon DEF Kernel, KernelRun, KernelComplete, KernelTimeout, KernelNotify,
                         RequestStop, Calls, CallsDone, PushCancel, WriteNotify, CallNext,
                         ringVars
    <2>6. CASE UNCHANGED vars
      BY Zenon, <2>6 DEF vars
    <2> QED
      BY <2>1, <2>2, <2>3, <2>4, <2>5, <2>6, Zenon DEF Next, Worker, Fiber
  <1> QED
    BY <1>1, <1>2 DEF NoFailure

-----------------------------------------------------------------------------
(* No operation lacks an SQE while nothing waits in the queue. *)
LEMMA SqeThere ==
    ASSUME TypeOK, RingShape, NoFailure, ~crashed, NEW s \in Stacks, NEW k \in Kinds
    PROVE  ~OpNoSqe(s, k)
  <1>1. Len(sq) = 0
    BY DEF RingShape
  <1>2. Len(Sqes(s, k)) \in {1, 2}
    BY Zenon, OpBatch
  <1>3. \A m \in {1, 2} : ~(0 + m > SqEntries)
    BY RingAssumption
  <1> QED
    BY <1>1, <1>2, <1>3, Zenon DEF OpNoSqe

(* The steps that touch the queue or the notify read. *)
RingAction ==
    \/ ~crashed /\ DrainNotify
    \/ ~crashed /\ \E s \in Stacks : \E k \in Kinds : OpNoSqe(s, k) \/ OpSubmit(s, k)
    \/ KernelNotify

(* All other steps leave both alone. *)
LEMMA RingFrame ==
    ASSUME Next, ~RingAction
    PROVE  UNCHANGED <<sq, failures, notify_read, crashed>>
  <1>1. CASE Worker
    <2>1. CASE \/ PickNext \/ SuspendUntil \/ DrainEnd
               \/ \E a \in Addrs : DrainIo(a)
               \/ \E s \in Stacks : LaunchFiber(s)
      BY <2>1, Zenon DEF PickNext, SuspendUntil, DrainEnd, DrainIo, LaunchFiber, ringVars
    <2>2. ASSUME NEW s \in Stacks, Fiber(s) PROVE UNCHANGED <<sq, failures, notify_read, crashed>>
      BY <1>1, <2>2, Zenon DEF Worker, RingAction, Fiber, OpRefused, SleepNoTime, RegisterPool,
                               RegisterFiber, FutureGet, DeregisterFiber, DeregisterPool,
                               FiberEnd, ringVars
    <2> QED
      BY <1>1, <2>1, <2>2, Zenon DEF Worker, RingAction
  <1>2. CASE Kernel
    BY <1>2, Zenon DEF RingAction, Kernel, KernelRun, KernelComplete, KernelTimeout
  <1>3. CASE \E x \in Sources : RequestStop(x) \/ Calls(x)
    BY <1>3, Zenon DEF RequestStop, Calls, CallsDone, PushCancel, WriteNotify, CallNext,
                       ringVars
  <1> QED
    BY <1>1, <1>2, <1>3, Zenon DEF Next

(* Appending is concatenating one element. *)
LEMMA AppendConcat ==
    ASSUME NEW b \in Seq(Entries), NEW e \in Entries
    PROVE  <<e>> \in Seq(Entries) /\ Append(b, e) = b \o <<e>>
  OBVIOUS

(* Every step keeps the shape of the ring. *)
LEMMA RingStep ==
    ASSUME TypeOK, RingShape, [Next]_vars
    PROVE  RingShape'
  <1>1. sq \in Seq(Entries)
    BY Zenon DEF TypeOK
  <1>2. NoFailure' => NoFailure
    BY Zenon, FailuresStay
  <1>3. CASE DrainNotify /\ ~crashed
    <2>1. PICK c \in Seq(Entries) : /\ InBatch(c, "op") = {} /\ InBatch(c, "notify") = {}
                                    /\ Flushed(c)
      BY <1>3, Flush, Zenon
    <2>2. CASE crashed' = TRUE /\ sq' = sq \o c /\ notify_read' = "off" /\ failures' = failures
      <3>1. NoFailure' => InBatch(sq', "op") = {}
        BY <1>1, <1>2, <1>3, <2>1, <2>2, ConcatBatch, EmptyBatch DEF RingShape
      <3> QED
        BY Zenon, <2>2, <3>1 DEF RingShape
    <2>3. CASE SubmitOk(c \o RearmSqe, "off")
      <3>1. sq' = <<>> /\ notify_read' = IF InBatch(sq \o (c \o RearmSqe), "notify") # {}
                                         THEN "armed" ELSE "off"
        BY <2>3, Zenon DEF SubmitOk, Consume
      <3>2. c \o RearmSqe \in Seq(Entries)
        BY Zenon, NotifyBatch, ConcatLen
      <3>3. InBatch(sq \o (c \o RearmSqe), "notify") =
                  InBatch(sq, "notify") \cup InBatch(c \o RearmSqe, "notify")
        <4> DEFINE d == c \o RearmSqe
        <4>1. d \in Seq(Entries)
          BY Zenon, <3>2
        <4> HIDE DEF d
        <4>2. InBatch(sq \o d, "notify") = InBatch(sq, "notify") \cup InBatch(d, "notify")
          BY <1>1, <4>1, ConcatBatch
        <4> QED
          BY Zenon, <4>2 DEF d
      <3>4. InBatch(c \o RearmSqe, "notify") =
                  InBatch(c, "notify") \cup InBatch(RearmSqe, "notify")
        BY Zenon, NotifyBatch, ConcatBatch
      <3>5. notify_read' = "armed"
        BY Zenon, <3>1, <3>3, <3>4, NotifyBatch
      <3> QED
        BY Zenon, <3>1, <3>5, EmptyBatch DEF RingShape
    <2>4. CASE SubmitFails(c \o RearmSqe, "off")
      <3>1. notify_read' = "off" /\ ~NoFailure'
        BY <2>4, RingAssumption DEF SubmitFails, NoFailure, TypeOK
      <3> QED
        BY Zenon, <3>1 DEF RingShape
    <2> QED
      BY <2>1, <2>2, <2>3, <2>4, Zenon DEF Flushed
  <1>4. ASSUME NEW s \in Stacks, NEW k \in Kinds, OpSubmit(s, k), ~crashed PROVE RingShape'
    <2>1. CASE SubmitOk(Sqes(s, k), notify_read)
      <3>1. sq' = <<>> /\ notify_read' \in {"armed", notify_read}
        BY <2>1, Zenon DEF SubmitOk, Consume
      <3> QED
        BY Zenon, <1>2, <1>4, <3>1, EmptyBatch DEF RingShape
    <2>2. CASE SubmitFails(Sqes(s, k), notify_read)
      <3>1. notify_read' = notify_read /\ ~NoFailure' /\ sq' = sq \o Sqes(s, k)
        BY <2>2, RingAssumption DEF SubmitFails, NoFailure, TypeOK
      <3>2. InBatch(sq', "notify") = InBatch(sq, "notify")
        <4>1. Sqes(s, k) \in Seq(Entries) /\ InBatch(Sqes(s, k), "notify") = {}
          BY Zenon, OpBatch
        <4>2. InBatch(sq \o Sqes(s, k), "notify") =
                  InBatch(sq, "notify") \cup InBatch(Sqes(s, k), "notify")
          BY <1>1, <4>1, ConcatBatch
        <4> QED
          BY Zenon, <3>1, <4>1, <4>2
      <3> QED
        BY Zenon, <3>1, <3>2 DEF RingShape
    <2> QED
      BY <1>4, <2>1, <2>2, Zenon DEF OpSubmit
  <1>5. ASSUME NEW s \in Stacks, NEW k \in Kinds, OpNoSqe(s, k), ~crashed PROVE RingShape'
    <2>1. ~NoFailure' /\ notify_read' = notify_read
      BY Zenon, <1>2, <1>5, SqeThere DEF OpNoSqe
    <2>2. InBatch(sq', "notify") = InBatch(sq, "notify")
      <3>1. CASE sq' = sq
        BY Zenon, <3>1
      <3>2. CASE sq' = Append(sq, <<"op", <<s, 1>>>>)
        <4> DEFINE c == <<<<"op", <<s, 1>>>>>>
        <4>1. <<"op", <<s, 1>>>> \in Entries
          BY Zenon DEF Entries, Addrs
        <4>2. c \in Seq(Entries) /\ sq' = sq \o c
          BY Zenon, <1>1, <3>2, <4>1, AppendConcat
        <4>3. InBatch(c, "notify") = {}
          BY DEF InBatch
        <4> HIDE DEF c
        <4>4. InBatch(sq \o c, "notify") = InBatch(sq, "notify") \cup InBatch(c, "notify")
          BY <1>1, <4>2, ConcatBatch
        <4> QED
          BY Zenon, <4>2, <4>3, <4>4
      <3> QED
        BY <1>5, <3>1, <3>2, Zenon DEF OpNoSqe
    <2> QED
      BY Zenon, <2>1, <2>2 DEF RingShape
  <1>6. CASE KernelNotify
    BY Zenon, <1>6 DEF KernelNotify, RingShape, NoFailure
  <1>7. CASE UNCHANGED <<sq, failures, notify_read, crashed>>
    BY Zenon, <1>7 DEF RingShape, NoFailure
  <1>8. CASE UNCHANGED vars
    BY Zenon, <1>7, <1>8 DEF vars
  <1> QED
    BY <1>3, <1>4, <1>5, <1>6, <1>7, <1>8, RingFrame, Zenon DEF RingAction

(* Every step keeps fibers out of drain_cqes. *)
LEMMA OneStep ==
    ASSUME OneAtATime, [Next]_vars
    PROVE  OneAtATime'
  <1>1. CASE PickNext \/ SuspendUntil \/ DrainEnd
    BY Zenon, <1>1 DEF PickNext, SuspendUntil, DrainEnd, OneAtATime
  <1>2. CASE DrainNotify \/ (\E a \in Addrs : DrainIo(a)) \/ \E s \in Stacks : LaunchFiber(s)
    BY Zenon, <1>2 DEF DrainNotify, DrainIo, LaunchFiber, OneAtATime, schedVars
  <1>3. ASSUME NEW s \in Stacks, Fiber(s) PROVE OneAtATime'
    <2>1. draining' = draining /\ cur' \in {cur, None}
      BY <1>3, Zenon DEF Fiber, OpRefused, SleepNoTime, OpNoSqe, OpSubmit, RegisterPool, RegisterFiber,
                         FutureGet, DeregisterFiber, DeregisterPool, FiberEnd, schedVars
    <2> QED
      BY Zenon, <2>1 DEF OneAtATime
  <1>4. CASE Kernel
    BY Zenon, <1>4 DEF Kernel, KernelRun, KernelComplete, KernelTimeout, KernelNotify, schedVars,
                OneAtATime
  <1>5. CASE \E x \in Sources : RequestStop(x) \/ Calls(x)
    BY Zenon, <1>5 DEF RequestStop, Calls, CallsDone, PushCancel, WriteNotify, CallNext, schedVars,
                OneAtATime
  <1>6. CASE UNCHANGED vars
    BY Zenon, <1>6 DEF vars, OneAtATime
  <1> QED
    BY Zenon, <1>1, <1>2, <1>3, <1>4, <1>5, <1>6 DEF Next, Worker

(***************************************************************************)
(* While no submit fails: a flush hits only pending operations whose       *)
(* cancel was queued, and a submit starts just the operations of its call. *)
(***************************************************************************)
LEMMA CascadeNone ==
    ASSUME NEW f \in [Addrs -> OpStates] PROVE Cascade(f, {}) = f
  BY Zenon DEF Cascade

(* The hits of a flush. *)
LEMMA FlushHits ==
    ASSUME TypeOK, RingShape, DrainNotify, ~crashed, NoFailure'
    PROVE  \E hit : /\ op' = Cascade(op, hit)
                    /\ \A a \in hit : /\ op[a] = "pending"
                                      /\ \E j \in 1..Len(cancel_queue) : a = cancel_queue[j]
  <1>1. op \in [Addrs -> OpStates]
    BY Zenon DEF TypeOK, OpStates
  <1>2. NoFailure /\ sq = <<>>
    BY Zenon, FailuresStay DEF RingShape, Next, Worker
  <1>3. PICK c \in Seq(Entries) :
               /\ InBatch(c, "op") = {}
               /\ \A a \in InBatch(c, "cancel") :
                     \E j \in 1..Len(cancel_queue) : a = cancel_queue[j]
               /\ Flushed(c)
    BY Flush, Zenon
  <1>4. CASE op' = op
    BY <1>1, <1>4, CascadeNone
  <1>5. CASE SubmitOk(c \o RearmSqe, "off")
    <2> DEFINE new == c \o RearmSqe
    <2>1. new \in Seq(Entries)
      BY Zenon, NotifyBatch, ConcatLen
    <2>2. InBatch(new, "op") = {} /\ InBatch(new, "cancel") = InBatch(c, "cancel")
      <3>1. \A w : InBatch(new, w) = InBatch(c, w) \cup InBatch(RearmSqe, w)
        BY Zenon, NotifyBatch, ConcatBatch
      <3> QED
        BY Zenon, <1>3, <3>1, NotifyBatch
    <2> HIDE DEF new
    <2>3. Started(new) = op
      BY Zenon, <1>1, <2>2 DEF Started
    <2>4. op' = Cascade(op, {a \in InBatch(c, "cancel") : op[a] = "pending"})
      <3>1. SubmitOk(new, "off")
        BY Zenon, <1>5 DEF new
      <3>2. op' = Cascade(Started(new),
                          {a \in InBatch(new, "cancel") : Started(new)[a] = "pending"})
        BY Zenon, <1>2, <2>1, <3>1, CleanSubmit
      <3> QED
        BY Zenon, <2>2, <2>3, <3>2
    <2> DEFINE hit == {a \in InBatch(c, "cancel") : op[a] = "pending"}
    <2>5. \A a \in hit : op[a] = "pending" /\ \E j \in 1..Len(cancel_queue) : a = cancel_queue[j]
      BY Zenon, <1>3
    <2>6. op' = Cascade(op, hit)
      BY Zenon, <2>4
    <2> HIDE DEF hit
    <2> QED
      BY <2>5, <2>6, Zenon
  <1>6. ~SubmitFails(c \o RearmSqe, "off")
    BY <1>2, RingAssumption DEF SubmitFails, NoFailure, TypeOK
  <1> QED
    BY <1>3, <1>4, <1>5, <1>6, Zenon DEF Flushed

(* The operations of a submit. *)
LEMMA SubmitStarts ==
    ASSUME TypeOK, RingShape, ~crashed, NoFailure', NoFailure,
           NEW s \in Stacks, NEW k \in Kinds, OpSubmit(s, k)
    PROVE  /\ op' = Started(Sqes(s, k)) /\ fpc' = [fpc EXCEPT ![s] = "reg_pool"]
           /\ InBatch(Sqes(s, k), "op") = {<<s, i>> : i \in IF k = "linked" THEN {1, 2} ELSE {1}}
  <1>1. op \in [Addrs -> OpStates] /\ sq = <<>>
    BY Zenon DEF TypeOK, OpStates, RingShape
  <1>2. ~SubmitFails(Sqes(s, k), notify_read)
    BY RingAssumption DEF SubmitFails, NoFailure, TypeOK
  <1>3. SubmitOk(Sqes(s, k), notify_read) /\ Goto(s, "reg_pool")
    BY <1>2, Zenon DEF OpSubmit
  <1>4. Started(Sqes(s, k)) \in [Addrs -> OpStates]
    BY Zenon, <1>1 DEF Started, OpStates
  <1>5. /\ Sqes(s, k) \in Seq(Entries) /\ InBatch(Sqes(s, k), "cancel") = {}
        /\ InBatch(Sqes(s, k), "op") = {<<s, i>> : i \in IF k = "linked" THEN {1, 2} ELSE {1}}
    BY Zenon, OpBatch
  <1>6. op' = Cascade(Started(Sqes(s, k)), {})
    <2>1. op' = Cascade(Started(Sqes(s, k)),
                        {a \in InBatch(Sqes(s, k), "cancel") : Started(Sqes(s, k))[a] = "pending"})
      BY Zenon, <1>1, <1>3, <1>5, CleanSubmit
    <2> QED
      BY Zenon, <1>5, <2>1
  <1> QED
    BY Zenon, <1>3, <1>4, <1>5, <1>6, CascadeNone DEF Goto

-----------------------------------------------------------------------------
(* The kernel frees nothing and starts nothing by itself: an operation that *)
(* is cancelled was pending or linked.                                      *)
LEMMA CascadeKeeps ==
    ASSUME NEW f \in [Addrs -> OpStates], NEW hit, NEW a \in Addrs
    PROVE  /\ Cascade(f, hit)[a] = "free" <=> f[a] = "free"
           /\ f[a] \notin {"pending", "linked"} => Cascade(f, hit)[a] = f[a]
           /\ Cascade(f, hit)[a] # f[a] =>
                 /\ Cascade(f, hit)[a] = "cancelled"
                 /\ \E i \in 1..a[2] : <<a[1], i>> \in hit
  BY Zenon DEF Cascade

(* A step of the kernel moves no fiber and starts no free operation. *)
LEMMA KernelKeeps ==
    ASSUME TypeOK, Kernel, NEW a \in Addrs
    PROVE  /\ op'[a] # "free" => op[a] # "free"
           /\ UNCHANGED <<fpc, kind, value>>
  <1>1. op \in [Addrs -> OpStates]
    BY Zenon DEF TypeOK, OpStates
  <1>2. ASSUME NEW b \in Addrs, KernelRun(b) PROVE op'[a] # "free" => op[a] # "free"
    BY Zenon, <1>1, <1>2 DEF KernelRun
  <1>3. ASSUME NEW b \in Addrs, KernelComplete(b) PROVE op'[a] # "free" => op[a] # "free"
    <2> DEFINE ends == [op EXCEPT ![b] = "error"]
    <2>1. ends \in [Addrs -> OpStates] /\ op[b] = "running"
      BY Zenon, <1>1, <1>3 DEF OpStates, Results, KernelComplete
    <2>2. CASE op' = Cascade(ends, {b})
      <3>1. ends[a] # "free" => op[a] # "free"
        BY Zenon, <1>1, <2>1
      <3> HIDE DEF ends
      <3>2. op'[a] # "free" => ends[a] # "free"
        BY <2>1, <2>2, CascadeKeeps
      <3> QED
        BY Zenon, <3>1, <3>2
    <2>3. CASE op' = [x \in Addrs |-> IF x = b THEN "ok"
                                   ELSE IF x = <<b[1], b[2] + 1>> /\ op[x] = "linked"
                                   THEN "pending" ELSE op[x]]
      BY Zenon, <1>1, <2>1, <2>3
    <2> QED
      BY <1>3, <2>2, <2>3, Zenon DEF KernelComplete
  <1>4. ASSUME NEW s \in Stacks, KernelTimeout(s) PROVE op'[a] # "free" => op[a] # "free"
    BY Zenon, <1>1, <1>4 DEF KernelTimeout
  <1>5. KernelNotify => op' = op
    BY Zenon DEF KernelNotify
  <1>6. UNCHANGED <<fpc, kind, value>>
    BY Zenon DEF Kernel, KernelRun, KernelComplete, KernelTimeout, KernelNotify, fiberVars
  <1> QED
    BY Zenon, <1>2, <1>3, <1>4, <1>5, <1>6 DEF Kernel

(***************************************************************************)
(* An operation in the kernel belongs to a call that waits for it.         *)
(***************************************************************************)
LEMMA AliveStep ==
    ASSUME TypeOK, RingShape, Alive, [Next]_vars
    PROVE  Alive'
  <1> SUFFICES ASSUME NoFailure', NEW a \in Addrs, op'[a] # "free"
               PROVE  InCall(a[1])' /\ a[2] \in Unset(a[1])'
    BY Zenon DEF Alive
  <1>1. NoFailure
    BY Zenon, FailuresStay
  <1>2. /\ a[1] \in Stacks /\ a[2] \in {1, 2} /\ a = <<a[1], a[2]>>
        /\ op \in [Addrs -> OpStates] /\ fpc \in [Stacks -> FiberPCs]
        /\ kind \in [Stacks -> Kinds \cup {None}]
        /\ value \in [Addrs -> Results \cup {"unset"}]
    BY DEF Addrs, TypeOK, OpStates
  <1>3. op[a] # "free" => InCall(a[1]) /\ a[2] \in Awaitables(a[1]) /\ value[a] = "unset"
    BY Zenon, <1>1, <1>2 DEF Alive, Unset
  <1>4. CASE /\ op[a] # "free" /\ value'[a] = value[a] /\ kind'[a[1]] = kind[a[1]]
             /\ InCall(a[1]) => InCall(a[1])'
    BY Zenon, <1>2, <1>3, <1>4 DEF Unset, Awaitables
  <1>5. CASE UNCHANGED <<op, fpc, kind, value>>
    BY Zenon, <1>4, <1>5 DEF InCall
  <1>6. ASSUME NEW s \in Stacks, NEW l, fpc' = [fpc EXCEPT ![s] = l],
               UNCHANGED <<op, kind, value>>,
               InCall(s) => l \in {"reg_pool", "reg_fiber", "get", "wait"}
        PROVE  InCall(a[1])' /\ a[2] \in Unset(a[1])'
    BY Zenon, <1>2, <1>4, <1>6 DEF InCall
  <1>7. CASE Worker
    <2>1. CASE PickNext \/ SuspendUntil \/ DrainEnd
      BY Zenon, <1>5, <2>1 DEF PickNext, SuspendUntil, DrainEnd, fiberVars, ringVars
    <2>2. CASE DrainNotify
      <3>1. PICK hit : op' = Cascade(op, hit)
        BY Zenon, <1>7, <2>2, FlushHits DEF Worker
      <3>2. op[a] # "free"
        BY <1>2, <3>1, CascadeKeeps
      <3>3. UNCHANGED <<fpc, kind, value>>
        BY Zenon, <2>2 DEF DrainNotify, fiberVars
      <3> QED
        BY Zenon, <1>4, <3>2, <3>3 DEF InCall
    <2>3. ASSUME NEW b \in Addrs, DrainIo(b) PROVE InCall(a[1])' /\ a[2] \in Unset(a[1])'
      <3>1. /\ op' = [op EXCEPT ![b] = "free"] /\ value' = [value EXCEPT ![b] = op[b]]
            /\ kind' = kind
            /\ fpc' = fpc \/ (fpc[b[1]] = "wait" /\ fpc' = [fpc EXCEPT ![b[1]] = "get"])
        BY Zenon, <2>3 DEF DrainIo
      <3>2. a # b /\ op[a] # "free" /\ value'[a] = value[a] /\ kind'[a[1]] = kind[a[1]]
        BY Zenon, <1>2, <3>1
      <3>3. InCall(a[1]) => InCall(a[1])'
        BY Zenon, <1>2, <3>1 DEF InCall
      <3> QED
        BY Zenon, <1>4, <3>2, <3>3
    <2>4. ASSUME NEW s \in Stacks, LaunchFiber(s) PROVE InCall(a[1])' /\ a[2] \in Unset(a[1])'
      BY Zenon, <1>6, <2>4 DEF LaunchFiber, Goto, ringVars, InCall
    <2>5. ASSUME NEW s \in Stacks, NEW k \in Kinds,
                 OpRefused(s, k) \/ SleepNoTime(s, k) \/ OpNoSqe(s, k) \/ OpSubmit(s, k)
          PROVE  InCall(a[1])' /\ a[2] \in Unset(a[1])'
      <3>1. CASE OpRefused(s, k) \/ SleepNoTime(s, k)
        BY Zenon, <1>5, <3>1 DEF OpRefused, SleepNoTime, ringVars
      <3>2. ~OpNoSqe(s, k)
        BY Zenon, <1>1, <1>7, SqeThere DEF Worker
      <3>3. CASE OpSubmit(s, k)
        <4>1. /\ op' = Started(Sqes(s, k)) /\ fpc' = [fpc EXCEPT ![s] = "reg_pool"]
              /\ InBatch(Sqes(s, k), "op") =
                     {<<s, i>> : i \in IF k = "linked" THEN {1, 2} ELSE {1}}
          BY Zenon, <1>1, <1>7, <3>3, SubmitStarts DEF Worker
        <4>2. /\ fpc[s] = "body" /\ kind' = [kind EXCEPT ![s] = k]
              /\ value' = [b \in Addrs |-> IF b[1] = s THEN "unset" ELSE value[b]]
          BY Zenon, <3>3 DEF OpSubmit, TakeOp, At
        <4>3. CASE a[1] = s
          <5>1. a \in InBatch(Sqes(s, k), "op")
            BY Zenon, <1>2, <1>3, <4>1, <4>2, <4>3 DEF Started, InCall
          <5>2. a[2] \in Awaitables(s)'
            BY <1>2, <4>1, <4>2, <5>1 DEF Awaitables
          <5> QED
            BY Zenon, <1>2, <4>1, <4>2, <4>3, <5>2 DEF InCall, Unset
        <4>4. CASE a[1] # s
          <5>1. a \notin InBatch(Sqes(s, k), "op")
            BY <1>2, <4>1, <4>4
          <5> QED
            BY Zenon, <1>2, <1>4, <4>1, <4>2, <4>4, <5>1 DEF Started, InCall
        <4> QED
          BY Zenon, <4>3, <4>4
      <3> QED
        BY Zenon, <2>5, <3>1, <3>2, <3>3
    <2>6. ASSUME NEW s \in Stacks, RegisterPool(s) \/ RegisterFiber(s)
          PROVE  InCall(a[1])' /\ a[2] \in Unset(a[1])'
      BY Zenon, <1>6, <2>6 DEF RegisterPool, RegisterFiber, Goto, ringVars
    <2>7. ASSUME NEW s \in Stacks, FutureGet(s) PROVE InCall(a[1])' /\ a[2] \in Unset(a[1])'
      <3>1. CASE AllSet(s)
        <4>1. fpc' = [fpc EXCEPT ![s] = "dereg_fiber"] /\ UNCHANGED <<op, kind, value>>
          BY Zenon, <2>7, <3>1 DEF FutureGet, Goto, ringVars
        <4>2. a[1] # s
          BY Zenon, <1>2, <1>3, <3>1, <4>1 DEF AllSet, Unset
        <4> QED
          BY Zenon, <1>2, <1>4, <4>1, <4>2 DEF InCall
      <3>2. CASE ~AllSet(s)
        BY Zenon, <1>6, <2>7, <3>2 DEF FutureGet, Goto, ringVars
      <3> QED
        BY Zenon, <3>1, <3>2
    <2>8. ASSUME NEW s \in Stacks, DeregisterFiber(s) \/ DeregisterPool(s) \/ FiberEnd(s)
          PROVE  InCall(a[1])' /\ a[2] \in Unset(a[1])'
      BY Zenon, <1>6, <2>8 DEF DeregisterFiber, DeregisterPool, FiberEnd, Goto, At, ringVars, InCall
    <2> QED
      BY <1>7, <2>1, <2>2, <2>3, <2>4, <2>5, <2>6, <2>7, <2>8, Zenon DEF Worker, Fiber
  <1>8. CASE Kernel
    BY Zenon, <1>4, <1>8, KernelKeeps DEF InCall
  <1>9. CASE \E x \in Sources : RequestStop(x) \/ Calls(x)
    BY <1>5, <1>9, Zenon DEF RequestStop, Calls, CallsDone, PushCancel, WriteNotify, CallNext,
                             fiberVars, ringVars
  <1>10. CASE UNCHANGED vars
    BY Zenon, <1>5, <1>10 DEF vars
  <1> QED
    BY Zenon, <1>7, <1>8, <1>9, <1>10 DEF Next

-----------------------------------------------------------------------------
(***************************************************************************)
(* The stop callbacks.  A fiber that moves keeps the shape if its own      *)
(* callbacks fit its new place.                                            *)
(***************************************************************************)
LEMMA CallbacksMove ==
    ASSUME TypeOK, Callbacks, NEW s \in Stacks, NEW l,
           fpc' = [fpc EXCEPT ![s] = l], UNCHANGED <<requested, caller>>,
           \A x \in Sources : \A t \in Stacks :
               <<x, t>> \in cbs' => <<x, t>> \in cbs \/ (t = s /\ Fits(x, s, l)),
           \A x \in Sources :
               /\ <<x, s>> \in cbs' => Fits(x, s, l)
               /\ caller[x].pc \in {"push", "write"} /\ caller[x].at = s => Fits(x, s, l)
    PROVE  Callbacks'
  <1>1. fpc' \in [Stacks -> FiberPCs \cup {l}] /\ fpc'[s] = l
        /\ \A t \in Stacks : t # s => fpc'[t] = fpc[t]
    BY Zenon DEF TypeOK
  <1>2. ASSUME NEW x \in Sources, NEW t \in Stacks, <<x, t>> \in cbs'
        PROVE  Fits(x, t, fpc'[t])
    BY Zenon, <1>1, <1>2 DEF Callbacks
  <1>3. ASSUME NEW x \in Sources
        PROVE  /\ caller'[x].pc \in {"push", "write"} =>
                     /\ caller'[x].at \in Stacks /\ x \in requested'
                     /\ Fits(x, caller'[x].at, fpc'[caller'[x].at])
               /\ caller'[x].pc = "calling" => x \in requested'
    <2>1. CASE caller[x].pc \in {"push", "write"}
      <3>1. /\ caller[x].at \in Stacks /\ x \in requested
            /\ Fits(x, caller[x].at, fpc[caller[x].at])
        BY Zenon, <2>1 DEF Callbacks
      <3>2. Fits(x, caller[x].at, fpc'[caller[x].at])
        BY Zenon, <1>1, <2>1, <3>1
      <3> QED
        BY Zenon, <3>1, <3>2
    <2>2. CASE caller[x].pc \notin {"push", "write"}
      BY Zenon, <2>2 DEF Callbacks
    <2> QED
      BY Zenon, <2>1, <2>2
  <1> QED
    BY Zenon, <1>2, <1>3 DEF Callbacks

(* Without a fiber moving: what a thread in request_stop() does. *)
LEMMA CallbacksCall ==
    ASSUME TypeOK, Callbacks, NEW x \in Sources, RequestStop(x) \/ Calls(x)
    PROVE  Callbacks'
  <1>1. caller \in [Sources -> [pc : {"idle", "calling", "push", "write"},
                                at : Stacks \cup {None}, i : {1, 2}]]
    BY Zenon DEF TypeOK
  <1>2. caller[x] \in [pc : {"idle", "calling", "push", "write"},
                       at : Stacks \cup {None}, i : {1, 2}]
    BY Zenon, <1>1
  <1>3. \A y \in Sources : y # x => caller'[y] = caller[y]
    BY <1>1, Zenon DEF RequestStop, Calls, CallsDone, PushCancel, WriteNotify, CallNext
  <1>4. fpc' = fpc /\ cbs' \subseteq cbs /\ requested \subseteq requested'
    BY Zenon DEF RequestStop, Calls, CallsDone, PushCancel, WriteNotify, CallNext, fiberVars
  <1>5. /\ caller'[x].pc \in {"push", "write"} =>
              /\ caller'[x].at \in Stacks /\ x \in requested
              /\ Fits(x, caller'[x].at, fpc[caller'[x].at])
        /\ caller'[x].pc = "calling" => x \in requested'
    <2>1. CASE RequestStop(x)
      <3>1. caller'[x].pc = "calling" /\ x \in requested'
        BY Zenon, <1>1, <1>2, <2>1 DEF RequestStop
      <3> QED
        BY Zenon, <3>1
    <2>2. ASSUME NEW s \in Stacks, CallNext(x, s)
          PROVE  caller'[x].pc = "push" /\ caller'[x].at = s /\ x \in requested
                 /\ Fits(x, s, fpc[s])
      BY Zenon, <1>1, <2>2 DEF CallNext, Callbacks
    <2>3. CASE CallsDone(x)
      <3>1. caller'[x].pc = "idle"
        BY Zenon, <1>1, <2>3 DEF CallsDone, Idle
      <3> QED
        BY Zenon, <3>1
    <2>4. CASE PushCancel(x)
      <3>1. /\ caller[x].pc = "push" /\ caller'[x].pc = "write"
            /\ caller'[x].at = caller[x].at
        BY Zenon, <1>1, <1>2, <2>4 DEF PushCancel
      <3> QED
        BY Zenon, <3>1 DEF Callbacks
    <2>5. CASE WriteNotify(x)
      <3>1. /\ caller[x].pc = "write" /\ caller'[x].pc \in {"push", "calling"}
            /\ caller'[x].pc = "push" => caller'[x].at = caller[x].at
            /\ requested' = requested
        BY Zenon, <1>1, <1>2, <2>5 DEF WriteNotify
      <3> QED
        BY Zenon, <3>1 DEF Callbacks
    <2> QED
      BY Zenon, <2>1, <2>2, <2>3, <2>4, <2>5 DEF Calls
  <1>6. ASSUME NEW y \in Sources
        PROVE  /\ caller'[y].pc \in {"push", "write"} =>
                     /\ caller'[y].at \in Stacks /\ y \in requested'
                     /\ Fits(y, caller'[y].at, fpc'[caller'[y].at])
               /\ caller'[y].pc = "calling" => y \in requested'
    <2>1. CASE y = x
      BY Zenon, <1>4, <1>5, <2>1
    <2>2. CASE y # x
      BY Zenon, <1>3, <1>4, <2>2 DEF Callbacks
    <2> QED
      BY Zenon, <2>1, <2>2
  <1>7. \A y \in Sources : \A s \in Stacks : <<y, s>> \in cbs' => Fits(y, s, fpc'[s])
    BY Zenon, <1>4 DEF Callbacks
  <1> QED
    BY Zenon, <1>6, <1>7 DEF Callbacks

(* Every step keeps the callbacks with their fibers. *)
LEMMA CallbacksStep ==
    ASSUME TypeOK, Callbacks, [Next]_vars
    PROVE  Callbacks'
  <1>1. /\ fpc \in [Stacks -> FiberPCs] /\ cbs \subseteq Sources \X Stacks
        /\ Pool \notin Stacks
    BY Zenon, SourcesAreDistinct DEF TypeOK
  <1>2. CASE UNCHANGED <<fpc, cbs, caller, requested>>
    BY Zenon, <1>2 DEF Callbacks
  (* A move that leaves the callbacks alone. *)
  <1>3. ASSUME NEW s \in Stacks, NEW l, fpc' = [fpc EXCEPT ![s] = l],
               UNCHANGED <<cbs, caller, requested>>,
               \A x \in Sources : Fits(x, s, fpc[s]) => Fits(x, s, l)
        PROVE  Callbacks'
    BY <1>3, CallbacksMove DEF Callbacks
  <1>4. CASE Worker
    <2>1. CASE PickNext \/ SuspendUntil \/ DrainEnd \/ DrainNotify
      BY <1>2, <2>1, Zenon DEF PickNext, SuspendUntil, DrainEnd, DrainNotify, fiberVars, stopVars
    <2>2. ASSUME NEW a \in Addrs, DrainIo(a) PROVE Callbacks'
      <3>1. /\ UNCHANGED <<cbs, caller, requested>> /\ a[1] \in Stacks
            /\ fpc' = fpc \/ (fpc[a[1]] = "wait" /\ fpc' = [fpc EXCEPT ![a[1]] = "get"])
        BY Zenon, <2>2 DEF DrainIo, stopVars, Addrs
      <3> QED
        BY Zenon, <1>2, <1>3, <3>1 DEF Fits
    <2>3. ASSUME NEW s \in Stacks, LaunchFiber(s) PROVE Callbacks'
      <3>1. /\ fpc[s] = "none" /\ fpc' = [fpc EXCEPT ![s] = "body"] /\ caller[s].pc # "calling"
            /\ requested' = requested \ {s} /\ cbs' = cbs /\ caller' = caller
        BY Zenon, <2>3 DEF LaunchFiber, Goto
      <3>2. \A x \in Sources : ~Fits(x, s, "none")
        BY Zenon DEF Fits
      <3>3. caller[s].pc \notin {"push", "write"} /\ s \in Sources
        BY Zenon, <1>1, <3>1 DEF Callbacks, Fits, Sources
      <3>4. ASSUME NEW x \in Sources, NEW t \in Stacks, Fits(x, t, fpc[t])
            PROVE  Fits(x, t, fpc'[t])
        BY Zenon, <1>1, <3>1, <3>2, <3>4
      <3>5. \A x \in Sources : \A t \in Stacks : <<x, t>> \in cbs' => Fits(x, t, fpc'[t])
        BY Zenon, <3>1, <3>4 DEF Callbacks
      <3>6. ASSUME NEW x \in Sources
            PROVE  /\ caller'[x].pc \in {"push", "write"} =>
                         /\ caller'[x].at \in Stacks /\ x \in requested'
                         /\ Fits(x, caller'[x].at, fpc'[caller'[x].at])
                   /\ caller'[x].pc = "calling" => x \in requested'
        BY Zenon, <3>1, <3>3, <3>4 DEF Callbacks
      <3> QED
        BY Zenon, <3>5, <3>6 DEF Callbacks
    <2>4. ASSUME NEW s \in Stacks, NEW k \in Kinds,
                 OpRefused(s, k) \/ SleepNoTime(s, k) \/ OpNoSqe(s, k) \/ OpSubmit(s, k)
          PROVE  Callbacks'
      <3>1. /\ UNCHANGED <<cbs, caller, requested>> /\ fpc[s] = "body"
            /\ fpc' = fpc \/ fpc' = [fpc EXCEPT ![s] = "reg_pool"]
        BY <2>4, Zenon DEF OpRefused, SleepNoTime, OpNoSqe, OpSubmit, TakeOp, At, Goto, stopVars
      <3> QED
        BY Zenon, <1>2, <1>3, <3>1 DEF Fits
    <2>5. ASSUME NEW s \in Stacks, NEW x \in Sources, NEW l, Register(s, x),
                 fpc' = [fpc EXCEPT ![s] = l], UNCHANGED <<requested, caller>>,
                 \A y \in Sources : Fits(y, s, fpc[s]) \/ y = x => Fits(y, s, l)
          PROVE  Callbacks'
      <3>1. cbs' = cbs \/ cbs' = cbs \cup {<<x, s>>}
        BY Zenon, <2>5 DEF Register
      <3> QED
        <4>1. ASSUME NEW y \in Sources, NEW t \in Stacks, <<y, t>> \in cbs'
              PROVE  /\ <<y, t>> \in cbs \/ (t = s /\ Fits(y, s, l))
                     /\ t = s => Fits(y, s, l)
          BY <2>5, <3>1, <4>1 DEF Callbacks
        <4>2. ASSUME NEW y \in Sources, caller[y].pc \in {"push", "write"}, caller[y].at = s
              PROVE  Fits(y, s, l)
          BY Zenon, <2>5, <4>2 DEF Callbacks
        <4> QED
          BY Zenon, <2>5, <4>1, <4>2, CallbacksMove
    <2>6. ASSUME NEW s \in Stacks, RegisterPool(s) \/ RegisterFiber(s) PROVE Callbacks'
      <3>1. UNCHANGED <<requested, caller>> /\ Pool \in Sources /\ s \in Sources
        BY Zenon, <2>6 DEF RegisterPool, RegisterFiber, Sources
      <3>2. CASE RegisterPool(s)
        <4>1. PICK l \in {"reg_fiber", "get"} : fpc' = [fpc EXCEPT ![s] = l]
          BY Zenon, <3>2 DEF RegisterPool, Goto
        <4>2. Register(s, Pool) /\ fpc[s] = "reg_pool"
          BY Zenon, <3>2 DEF RegisterPool, At
        <4>3. \A y \in Sources : Fits(y, s, fpc[s]) \/ y = Pool => Fits(y, s, l)
          BY Zenon, <4>1, <4>2 DEF Fits
        <4> QED
          BY Zenon, <2>5, <3>1, <4>1, <4>2, <4>3
      <3>3. CASE RegisterFiber(s)
        <4>1. Register(s, s) /\ fpc[s] = "reg_fiber" /\ fpc' = [fpc EXCEPT ![s] = "get"]
          BY Zenon, <3>3 DEF RegisterFiber, At, Goto
        <4>2. \A y \in Sources : Fits(y, s, fpc[s]) \/ y = s => Fits(y, s, "get")
          BY Zenon, <4>1 DEF Fits
        <4> QED
          BY Zenon, <2>5, <3>1, <4>1, <4>2
      <3> QED
        BY Zenon, <2>6, <3>2, <3>3
    <2>7. ASSUME NEW s \in Stacks, FutureGet(s) \/ FiberEnd(s) PROVE Callbacks'
      <3>1. /\ UNCHANGED <<cbs, caller, requested>>
            /\ \/ /\ fpc[s] = "get"
                  /\ \/ fpc' = [fpc EXCEPT ![s] = "dereg_fiber"]
                     \/ fpc' = [fpc EXCEPT ![s] = "wait"]
               \/ fpc[s] = "body" /\ fpc' = [fpc EXCEPT ![s] = "none"]
        BY <2>7, Zenon DEF FutureGet, FiberEnd, At, Goto, stopVars
      <3> QED
        BY Zenon, <1>3, <3>1 DEF Fits
    <2>8. ASSUME NEW s \in Stacks, NEW x \in Sources, NEW l, CallbackDone(s, x),
                 cbs' = cbs \ {<<x, s>>},
                 fpc' = [fpc EXCEPT ![s] = l], UNCHANGED <<requested, caller>>,
                 \A y \in Sources : Fits(y, s, fpc[s]) /\ y # x => Fits(y, s, l)
          PROVE  Callbacks'
      <3>1. ASSUME NEW y \in Sources, NEW t \in Stacks, <<y, t>> \in cbs'
            PROVE  <<y, t>> \in cbs /\ (t = s => y # x /\ Fits(y, s, l))
        BY Zenon, <2>8, <3>1 DEF Callbacks
      <3>2. ASSUME NEW y \in Sources, caller[y].pc \in {"push", "write"}, caller[y].at = s
            PROVE  Fits(y, s, l)
        BY Zenon, <2>8, <3>2 DEF Callbacks, CallbackDone
      <3> QED
        BY Zenon, <2>8, <3>1, <3>2, CallbacksMove
    <2>9. ASSUME NEW s \in Stacks, DeregisterFiber(s) \/ DeregisterPool(s) PROVE Callbacks'
      <3>1. UNCHANGED <<requested, caller>> /\ Pool \in Sources /\ s \in Sources
        BY Zenon, <2>9 DEF DeregisterFiber, DeregisterPool, Sources
      <3>2. CASE DeregisterFiber(s)
        <4>1. /\ fpc[s] = "dereg_fiber" /\ fpc' = [fpc EXCEPT ![s] = "dereg_pool"]
              /\ cbs' = cbs \ {<<s, s>>} /\ CallbackDone(s, s)
          BY Zenon, <3>2 DEF DeregisterFiber, At, Goto
        <4>2. \A y \in Sources : Fits(y, s, fpc[s]) /\ y # s => Fits(y, s, "dereg_pool")
          BY Zenon, <4>1 DEF Fits
        <4> QED
          BY Zenon, <2>8, <3>1, <4>1, <4>2
      <3>3. CASE DeregisterPool(s)
        <4>1. /\ fpc[s] = "dereg_pool" /\ fpc' = [fpc EXCEPT ![s] = "body"]
              /\ cbs' = cbs \ {<<Pool, s>>} /\ CallbackDone(s, Pool)
          BY Zenon, <3>3 DEF DeregisterPool, At, Goto
        <4>2. \A y \in Sources : Fits(y, s, fpc[s]) /\ y # Pool => Fits(y, s, "body")
          BY Zenon, <4>1 DEF Fits
        <4> QED
          BY Zenon, <2>8, <3>1, <4>1, <4>2
      <3> QED
        BY Zenon, <2>9, <3>2, <3>3
    <2> QED
      BY <1>4, <2>1, <2>2, <2>3, <2>4, <2>6, <2>7, <2>9, Zenon DEF Worker, Fiber
  <1>5. CASE Kernel
    BY <1>2, <1>5, Zenon DEF Kernel, KernelRun, KernelComplete, KernelTimeout, KernelNotify,
                             fiberVars, stopVars
  <1>6. CASE \E x \in Sources : RequestStop(x) \/ Calls(x)
    BY Zenon, <1>6, CallbacksCall
  <1>7. CASE UNCHANGED vars
    BY Zenon, <1>2, <1>7 DEF vars
  <1> QED
    BY Zenon, <1>4, <1>5, <1>6, <1>7 DEF Next

-----------------------------------------------------------------------------
(***************************************************************************)
(* Every queued cancel has a wakeup.                                       *)
(***************************************************************************)
Wakeup == notify_fd > 0 \/ notify_read = "done" \/ crashed

(* No step leaves a queued cancel without one. *)
LEMMA TokensStep ==
    ASSUME TypeOK, RingShape, Callbacks, Tokens, [Next]_vars
    PROVE  Tokens'
  <1>1. CASE Wakeup'
    BY Zenon, <1>1 DEF Tokens, Wakeup
  <1>2. CASE /\ cancel_queue' = cancel_queue /\ (Wakeup => Wakeup')
             /\ \A x \in Sources : caller[x].pc = "write" => caller'[x] = caller[x]
    <2> SUFFICES ASSUME ~Wakeup', NEW j \in 1..Len(cancel_queue)
                 PROVE  \E x \in Sources : /\ caller'[x].pc = "write"
                            /\ cancel_queue[j] = <<caller'[x].at, caller'[x].i>>
      BY <1>1, <1>2, Zenon DEF Tokens
    <2>1. PICK x \in Sources : /\ caller[x].pc = "write"
                               /\ cancel_queue[j] = <<caller[x].at, caller[x].i>>
      BY <1>2, Zenon DEF Tokens, Wakeup
    <2> QED
      BY <1>2, <2>1, Zenon
  <1>3. CASE UNCHANGED <<cancel_queue, notify_fd, notify_read, crashed, caller>>
    BY Zenon, <1>2, <1>3 DEF Wakeup
  <1>4. /\ caller \in [Sources -> [pc : {"idle", "calling", "push", "write"},
                                   at : Stacks \cup {None}, i : {1, 2}]]
        /\ notify_fd \in Nat /\ cancel_queue \in Seq(Addrs) /\ sq \in Seq(Entries)
    BY Zenon DEF TypeOK
  <1>5. CASE Worker
    <2>1. CASE PickNext \/ SuspendUntil \/ DrainEnd
      BY <1>3, <2>1, Zenon DEF PickNext, SuspendUntil, DrainEnd, ringVars, cancelVars, stopVars
    <2>2. CASE DrainNotify
      <3>1. PICK c \in Seq(Entries) : Flushed(c)
        BY <2>2, Flush, Zenon
      <3>2. crashed' = TRUE \/ cancel_queue' = <<>>
        BY <3>1, Zenon DEF Flushed
      <3>3. CASE crashed' = TRUE
        BY Zenon, <1>1, <3>3 DEF Wakeup
      <3>4. CASE cancel_queue' = <<>>
        BY <3>4 DEF Tokens
      <3> QED
        BY Zenon, <3>2, <3>3, <3>4
    <2>3. CASE (\E a \in Addrs : DrainIo(a)) \/ (\E s \in Stacks : LaunchFiber(s))
      BY <1>3, <2>3, Zenon DEF DrainIo, LaunchFiber, ringVars, cancelVars, stopVars
    <2>4. ASSUME NEW s \in Stacks, NEW k \in Kinds,
                 OpRefused(s, k) \/ SleepNoTime(s, k) \/ OpNoSqe(s, k) \/ OpSubmit(s, k)
          PROVE  Tokens'
      <3>1. UNCHANGED <<cancel_queue, notify_fd, caller>> /\ ~crashed
        BY <1>5, <2>4, Zenon DEF Worker, OpRefused, SleepNoTime, OpNoSqe, OpSubmit, cancelVars, stopVars
      <3>2. notify_read = "done" => notify_read' = "done"
        <4>1. CASE OpRefused(s, k) \/ SleepNoTime(s, k) \/ OpNoSqe(s, k)
          BY <4>1, Zenon DEF OpRefused, SleepNoTime, OpNoSqe, ringVars
        <4>2. CASE SubmitFails(Sqes(s, k), notify_read)
          BY Zenon, <4>2 DEF SubmitFails
        <4>3. CASE SubmitOk(Sqes(s, k), notify_read) /\ notify_read = "done"
          <5>1. InBatch(sq, "notify") = {} /\ InBatch(Sqes(s, k), "notify") = {}
            BY Zenon, <4>3, OpBatch DEF RingShape
          <5>2. InBatch(sq \o Sqes(s, k), "notify") =
                   InBatch(sq, "notify") \cup InBatch(Sqes(s, k), "notify")
            BY <1>4, OpBatch, ConcatBatch
          <5>3. InBatch(sq \o Sqes(s, k), "notify") = {}
            BY Zenon, <5>1, <5>2
          <5> QED
            BY <4>3, <5>3, Zenon DEF SubmitOk, Consume
        <4> QED
          BY <2>4, <4>1, <4>2, <4>3, Zenon DEF OpSubmit
      <3> QED
        BY Zenon, <1>2, <3>1, <3>2 DEF Wakeup
    <2>5. ASSUME NEW s \in Stacks, NEW x \in Sources, Register(s, x),
                 UNCHANGED <<notify_read, crashed, caller>>
          PROVE  Tokens'
      <3>1. notify_fd' > 0 \/ UNCHANGED <<cancel_queue, notify_fd>>
        BY Zenon, <2>5, RegisterEffect
      <3> QED
        BY Zenon, <1>1, <1>3, <2>5, <3>1 DEF Wakeup
    <2>6. ASSUME NEW s \in Stacks, RegisterPool(s) \/ RegisterFiber(s) PROVE Tokens'
      BY Zenon, <2>5, <2>6 DEF RegisterPool, RegisterFiber, ringVars, Sources
    <2>7. ASSUME NEW s \in Stacks,
                 FutureGet(s) \/ DeregisterFiber(s) \/ DeregisterPool(s) \/ FiberEnd(s)
          PROVE  Tokens'
      BY <1>3, <2>7, Zenon DEF FutureGet, DeregisterFiber, DeregisterPool, FiberEnd,
                               ringVars, cancelVars, stopVars
    <2> QED
      BY <1>5, <2>1, <2>2, <2>3, <2>4, <2>6, <2>7, Zenon DEF Worker, Fiber
  <1>6. CASE Kernel
    <2>1. CASE KernelNotify
      BY Zenon, <1>1, <2>1 DEF KernelNotify, Wakeup
    <2>2. CASE ~KernelNotify
      BY <1>3, <1>6, <2>2, Zenon DEF Kernel, KernelRun, KernelComplete, KernelTimeout,
                                     cancelVars, stopVars
    <2> QED
      BY Zenon, <2>1, <2>2
  <1>7. ASSUME NEW x \in Sources, RequestStop(x) PROVE Tokens'
    <2>1. caller[x].pc # "write"
      BY Zenon, <1>7 DEF RequestStop, Callbacks
    <2>2. UNCHANGED <<cancel_queue, notify_fd, notify_read, crashed>>
      BY Zenon, <1>7 DEF RequestStop, cancelVars, ringVars
    <2>3. \A y \in Sources : caller[y].pc = "write" => caller'[y] = caller[y]
      BY Zenon, <1>4, <1>7, <2>1 DEF RequestStop
    <2> QED
      BY Zenon, <1>2, <2>2, <2>3 DEF Wakeup
  <1>8. ASSUME NEW x \in Sources, Calls(x) PROVE Tokens'
    <2>1. CASE CallsDone(x) \/ \E s \in Stacks : CallNext(x, s)
      <3>1. UNCHANGED <<cancel_queue, notify_fd, notify_read, crashed>>
        BY Zenon, <2>1 DEF CallsDone, CallNext, cancelVars, ringVars
      <3>2. \A y \in Sources : caller[y].pc = "write" => caller'[y] = caller[y]
        BY Zenon, <1>4, <2>1 DEF CallsDone, CallNext
      <3> QED
        BY Zenon, <1>2, <3>1, <3>2 DEF Wakeup
    <2>2. CASE WriteNotify(x)
      <3>1. notify_fd' > 0
        BY <1>4, <2>2 DEF WriteNotify
      <3> QED
        BY Zenon, <1>1, <3>1 DEF Wakeup
    <2>3. CASE PushCancel(x)
      <3> SUFFICES ASSUME NEW j \in 1..Len(cancel_queue'), ~Wakeup'
                   PROVE  \E y \in Sources : /\ caller'[y].pc = "write"
                              /\ cancel_queue'[j] = <<caller'[y].at, caller'[y].i>>
        BY <1>1, Zenon DEF Tokens
      <3>1. /\ ~Wakeup /\ caller[x].pc = "push"
            /\ cancel_queue' = Append(cancel_queue, <<caller[x].at, caller[x].i>>)
            /\ caller' = [caller EXCEPT ![x].pc = "write"]
        BY Zenon, <2>3 DEF PushCancel, Wakeup, ringVars
      <3>2. /\ caller'[x].pc = "write" /\ caller'[x].at = caller[x].at /\ caller'[x].i = caller[x].i
            /\ \A y \in Sources : caller[y].pc = "write" => caller'[y] = caller[y]
        BY Zenon, <1>4, <3>1
      <3>3. CASE j \in 1..Len(cancel_queue)
        <4>1. cancel_queue'[j] = cancel_queue[j]
          BY <1>4, <3>1, <3>3
        <4>2. PICK y \in Sources : /\ caller[y].pc = "write"
                                   /\ cancel_queue[j] = <<caller[y].at, caller[y].i>>
          BY <3>1, <3>3, Zenon DEF Tokens, Wakeup
        <4> QED
          BY <3>2, <4>1, <4>2, Zenon
      <3>4. CASE j \notin 1..Len(cancel_queue)
        <4>1. Len(cancel_queue') = Len(cancel_queue) + 1 /\ Len(cancel_queue) \in Nat
          BY <1>4, <3>1
        <4>2. j = Len(cancel_queue) + 1
          BY <3>4, <4>1
        <4>3. cancel_queue'[j] = <<caller[x].at, caller[x].i>>
          BY <1>4, <3>1, <4>2
        <4> QED
          BY <3>2, <4>3, Zenon
      <3> QED
        BY Zenon, <3>3, <3>4
    <2> QED
      BY Zenon, <1>8, <2>1, <2>2, <2>3 DEF Calls
  <1>9. CASE UNCHANGED vars
    BY Zenon, <1>3, <1>9 DEF vars
  <1> QED
    BY Zenon, <1>5, <1>6, <1>7, <1>8, <1>9 DEF Next

-----------------------------------------------------------------------------
(* A worker that died stays dead. *)
LEMMA DeadStays ==
    ASSUME [Next]_vars, ~crashed'
    PROVE  ~crashed
  <1>1. CASE Kernel \/ \E x \in Sources : RequestStop(x) \/ Calls(x)
    BY <1>1, Zenon DEF Kernel, KernelRun, KernelComplete, KernelTimeout, KernelNotify,
                       RequestStop, Calls, CallsDone, PushCancel, WriteNotify, CallNext
  <1>2. CASE Worker
    BY Zenon, <1>2 DEF Worker
  <1>3. CASE UNCHANGED vars
    BY Zenon, <1>3 DEF vars
  <1> QED
    BY Zenon, <1>1, <1>2, <1>3 DEF Next

(* A thread that runs a callback was asked to, for the fiber it cancels. *)
LEMMA CallerAsked ==
    ASSUME Callbacks, NEW x \in Sources, caller[x].pc \in {"push", "write"}
    PROVE  Asked(caller[x].at)
  BY DEF Callbacks, Fits, Asked

(***************************************************************************)
(* No cancel is queued for a fiber that was not asked to stop.             *)
(***************************************************************************)
LEMMA CleanStep ==
    ASSUME TypeOK, RingShape, OneAtATime, Callbacks, Tokens, Clean, [Next]_vars
    PROVE  Clean'
  <1> SUFFICES ASSUME NoFailure', ~crashed', NEW s \in Stacks,
                      fpc'[s] # "none", ~Asked(s)', ~Fresh(s)',
                      NEW j \in 1..Len(cancel_queue')
               PROVE  cancel_queue'[j][1] # s
    BY Zenon DEF Clean
  <1>1. NoFailure /\ ~crashed
    BY Zenon, FailuresStay, DeadStays
  <1>2. /\ fpc \in [Stacks -> FiberPCs] /\ cancel_queue \in Seq(Addrs)
        /\ Pool \notin Stacks /\ None \notin Stacks
    BY Zenon, SourcesAreDistinct DEF TypeOK
  <1> DEFINE Before == fpc[s] # "none" /\ ~Asked(s) /\ ~Fresh(s)
             Old == \E l \in 1..Len(cancel_queue) : cancel_queue'[j] = cancel_queue[l]
  <1>3. CASE Before /\ Old
    BY Zenon, <1>1, <1>3 DEF Clean
  <1>4. CASE Before /\ cancel_queue' = cancel_queue
    BY Zenon, <1>3, <1>4
  <1>5. CASE UNCHANGED <<fpc, requested, draining, notify_read, cancel_queue>>
    BY Zenon, <1>4, <1>5 DEF Asked, Fresh
  (* A step of the running fiber. *)
  <1>6. ASSUME NEW t \in Stacks, cur = t, fpc[t] # "none", NEW l, requested' = requested,
               fpc' = fpc \/ fpc' = [fpc EXCEPT ![t] = l]
        PROVE  Before
    <2>1. ~draining
      BY Zenon, <1>2, <1>6 DEF OneAtATime
    <2>2. fpc[s] # "none"
      BY Zenon, <1>2, <1>6
    <2> QED
      BY Zenon, <1>6, <2>1, <2>2 DEF Asked, Fresh
  <1>7. CASE Worker
    <2>1. CASE PickNext \/ SuspendUntil \/ DrainEnd
      <3>1. ~Fresh(s)
        BY Zenon, <2>1 DEF PickNext, SuspendUntil, DrainEnd, HasCqe, Fresh
      <3> QED
        BY Zenon, <1>4, <2>1, <3>1 DEF PickNext, SuspendUntil, DrainEnd, fiberVars, cancelVars,
                                       stopVars, Asked
    <2>3. CASE DrainNotify
      <3>1. PICK c : Flushed(c)
        BY Zenon, <2>3, Flush
      <3>2. cancel_queue' = <<>>
        BY <3>1, Zenon DEF Flushed
      <3> QED
        BY <3>2
    <2>4. ASSUME NEW a \in Addrs, DrainIo(a) PROVE cancel_queue'[j][1] # s
      <3>1. /\ UNCHANGED <<requested, draining, notify_read, cancel_queue>> /\ a[1] \in Stacks
            /\ fpc' = fpc \/ (fpc[a[1]] = "wait" /\ fpc' = [fpc EXCEPT ![a[1]] = "get"])
        BY Zenon, <2>4 DEF DrainIo, stopVars, cancelVars, Addrs
      <3>2. fpc[s] # "none" /\ (fpc[s] = "body" => fpc'[s] = "body")
        BY Zenon, <1>2, <3>1
      <3> QED
        BY Zenon, <1>4, <3>1, <3>2 DEF Asked, Fresh
    <2>5. ASSUME NEW t \in Stacks, LaunchFiber(t) PROVE cancel_queue'[j][1] # s
      <3>1. /\ draining /\ ~NotifyDue /\ fpc[t] = "none"
            /\ UNCHANGED <<draining, notify_read, cancel_queue>>
            /\ fpc' = [fpc EXCEPT ![t] = "body"] /\ requested' = requested \ {t}
        BY Zenon, <2>5 DEF LaunchFiber, Goto, ringVars, cancelVars
      <3>2. CASE s # t
        <4>1. Before
          BY Zenon, <1>2, <3>1, <3>2 DEF Asked, Fresh
        <4> QED
          BY Zenon, <1>4, <3>1, <4>1
      <3>3. CASE s = t
        <4>1. notify_read # "done"
          BY Zenon, <1>2, <3>1, <3>3 DEF Fresh
        <4>2. ~(notify_fd > 0)
          BY Zenon, <1>1, <3>1, <4>1 DEF RingShape, TypeOK, NotifyDue
        <4>3. PICK x \in Sources : /\ caller[x].pc = "write"
                                   /\ cancel_queue[j] = <<caller[x].at, caller[x].i>>
          BY <1>1, <3>1, <4>1, <4>2, Zenon DEF Tokens
        <4>4. caller[x].at # t
          BY <3>1, <4>3 DEF Callbacks, Fits
        <4> QED
          BY <3>1, <3>3, <4>3, <4>4
      <3> QED
        BY Zenon, <3>2, <3>3
    <2>6. ASSUME NEW t \in Stacks, NEW k \in Kinds,
                 OpRefused(t, k) \/ SleepNoTime(t, k) \/ OpNoSqe(t, k) \/ OpSubmit(t, k)
          PROVE  cancel_queue'[j][1] # s
      <3>1. /\ UNCHANGED <<requested, cancel_queue>> /\ cur = t /\ fpc[t] = "body"
            /\ fpc' = fpc \/ fpc' = [fpc EXCEPT ![t] = "reg_pool"]
        BY <2>6, Zenon DEF OpRefused, SleepNoTime, OpNoSqe, OpSubmit, TakeOp, At, Goto, stopVars, cancelVars
      <3>2. Before
        BY Zenon, <1>6, <3>1
      <3> QED
        BY Zenon, <1>4, <3>1, <3>2
    <2>7. ASSUME NEW t \in Stacks, NEW x \in {Pool, t}, NEW l, Register(t, x), cur = t,
                 fpc[t] # "none", fpc' = [fpc EXCEPT ![t] = l], requested' = requested
          PROVE  cancel_queue'[j][1] # s
      <3>1. Before
        BY Zenon, <1>6, <2>7
      <3>2. x \in Sources
        BY Zenon, <2>7 DEF Sources
      <3>3. \/ x \in requested /\ cancel_queue'[j][1] = t
            \/ Old
            \/ cancel_queue' = cancel_queue
        BY Zenon, <2>7, <3>2, RegisterEffect
      <3>4. CASE x \in requested /\ cancel_queue'[j][1] = t
        BY Zenon, <2>7, <3>4 DEF Asked
      <3> QED
        BY Zenon, <1>3, <1>4, <3>1, <3>3, <3>4
    <2>8. ASSUME NEW t \in Stacks, RegisterPool(t) \/ RegisterFiber(t)
          PROVE  cancel_queue'[j][1] # s
      <3>1. CASE RegisterPool(t)
        <4>1. PICK l \in {"reg_fiber", "get"} : fpc' = [fpc EXCEPT ![t] = l]
          BY Zenon, <3>1 DEF RegisterPool, Goto
        <4>2. Register(t, Pool) /\ cur = t /\ fpc[t] # "none" /\ requested' = requested
          BY Zenon, <3>1 DEF RegisterPool, At
        <4> QED
          BY Zenon, <2>7, <4>1, <4>2
      <3>2. CASE RegisterFiber(t)
        <4>1. /\ Register(t, t) /\ cur = t /\ fpc[t] # "none" /\ requested' = requested
              /\ fpc' = [fpc EXCEPT ![t] = "get"]
          BY Zenon, <3>2 DEF RegisterFiber, At, Goto
        <4> QED
          BY Zenon, <2>7, <4>1
      <3> QED
        BY Zenon, <2>8, <3>1, <3>2
    <2>9. ASSUME NEW t \in Stacks,
                 FutureGet(t) \/ DeregisterFiber(t) \/ DeregisterPool(t) \/ FiberEnd(t)
          PROVE  cancel_queue'[j][1] # s
      <3>1. /\ UNCHANGED <<requested, cancel_queue>> /\ cur = t /\ fpc[t] # "none"
            /\ \E l \in FiberPCs : fpc' = [fpc EXCEPT ![t] = l]
        BY Zenon, <2>9 DEF FutureGet, DeregisterFiber, DeregisterPool, FiberEnd, At, Goto, FiberPCs,
                    stopVars, cancelVars
      <3>2. Before
        BY Zenon, <1>6, <3>1
      <3> QED
        BY Zenon, <1>4, <3>1, <3>2
    <2> QED
      BY <1>7, <2>1, <2>3, <2>4, <2>5, <2>6, <2>8, <2>9, Zenon DEF Worker, Fiber
  <1>8. CASE Kernel
    <2>1. CASE KernelNotify
      BY Zenon, <1>4, <2>1 DEF KernelNotify, fiberVars, stopVars, Asked, Fresh
    <2>2. CASE \/ \E a \in Addrs : KernelRun(a) \/ KernelComplete(a)
               \/ \E t \in Stacks : KernelTimeout(t)
      BY <1>5, <2>2, Zenon DEF KernelRun, KernelComplete, KernelTimeout,
                               fiberVars, schedVars, stopVars, cancelVars
    <2> QED
      BY Zenon, <1>8, <2>1, <2>2 DEF Kernel
  <1>9. ASSUME NEW x \in Sources, RequestStop(x) \/ CallsDone(x) \/ WriteNotify(x)
                                  \/ \E t \in Stacks : CallNext(x, t)
        PROVE  cancel_queue'[j][1] # s
    BY Zenon, <1>4, <1>9 DEF RequestStop, CallsDone, WriteNotify, CallNext, fiberVars, schedVars,
                      ringVars, cancelVars, Asked, Fresh
  <1>10. ASSUME NEW x \in Sources, PushCancel(x) PROVE cancel_queue'[j][1] # s
    <2>1. /\ caller[x].pc = "push" /\ UNCHANGED <<fpc, requested, draining, notify_read>>
          /\ cancel_queue' = Append(cancel_queue, <<caller[x].at, caller[x].i>>)
      BY Zenon, <1>10 DEF PushCancel, fiberVars, schedVars, ringVars
    <2>2. Before
      BY Zenon, <2>1 DEF Asked, Fresh
    <2>3. CASE j \in 1..Len(cancel_queue)
      <3>1. cancel_queue'[j] = cancel_queue[j]
        BY <1>2, <2>1, <2>3
      <3> QED
        BY Zenon, <1>3, <2>2, <2>3, <3>1
    <2>4. CASE j \notin 1..Len(cancel_queue)
      <3>1. Len(cancel_queue') = Len(cancel_queue) + 1 /\ Len(cancel_queue) \in Nat
        BY <1>2, <2>1
      <3>2. j = Len(cancel_queue) + 1
        BY <2>4, <3>1
      <3>3. cancel_queue'[j] = <<caller[x].at, caller[x].i>>
        BY <1>2, <2>1, <3>2
      <3>4. Asked(caller[x].at)
        BY Zenon, <2>1, CallerAsked
      <3> QED
        BY <2>2, <3>3, <3>4
    <2> QED
      BY Zenon, <2>3, <2>4
  <1>11. CASE UNCHANGED vars
    BY Zenon, <1>5, <1>11 DEF vars
  <1> QED
    BY Zenon, <1>7, <1>8, <1>9, <1>10, <1>11 DEF Next, Calls

-----------------------------------------------------------------------------
(***************************************************************************)
(* Why an operation is cancelled.                                          *)
(***************************************************************************)
LEMMA JustifiedStep ==
    ASSUME TypeOK, RingShape, OneAtATime, Alive, Clean, Justified, [Next]_vars
    PROVE  Justified'
  <1> SUFFICES ASSUME NoFailure', NEW s \in Stacks, Active(s)', NEW i \in Awaitables(s)',
                      Final(value'[<<s, i>>], op'[<<s, i>>]) = "cancelled"
               PROVE  \/ kind'[s] = "timed" \/ Asked(s)'
                      \/ /\ i = 2
                         /\ Final(value'[<<s, 1>>], op'[<<s, 1>>]) \in {"error", "cancelled"}
    BY Zenon DEF Justified, Outcome
  <1> DEFINE Goal == \/ kind'[s] = "timed" \/ Asked(s)'
                     \/ /\ i = 2
                        /\ Final(value'[<<s, 1>>], op'[<<s, 1>>]) \in {"error", "cancelled"}
  <1>1. NoFailure
    BY Zenon, FailuresStay
  <1>2. /\ op \in [Addrs -> OpStates] /\ fpc \in [Stacks -> FiberPCs]
        /\ kind \in [Stacks -> Kinds \cup {None}]
        /\ value \in [Addrs -> Results \cup {"unset"}]
        /\ Pool \notin Stacks /\ i \in {1, 2}
        /\ <<s, 1>> \in Addrs /\ <<s, i>> \in Addrs
    BY Zenon, SourcesAreDistinct DEF TypeOK, OpStates, Awaitables, Addrs
  <1>3. ASSUME Active(s), kind'[s] = kind[s], Asked(s) => Asked(s)',
               Outcome(<<s, i>>) = "cancelled",
               Outcome(<<s, 1>>) \in {"error", "cancelled"} =>
                   Final(value'[<<s, 1>>], op'[<<s, 1>>]) \in {"error", "cancelled"}
        PROVE  Goal
    <2>1. i \in Awaitables(s)
      BY Zenon, <1>3 DEF Awaitables
    <2> QED
      BY Zenon, <1>1, <1>3, <2>1 DEF Justified
  <1>4. ASSUME UNCHANGED <<op, value>>, kind'[s] = kind[s], Active(s), Asked(s) => Asked(s)'
        PROVE  Goal
    BY Zenon, <1>3, <1>4 DEF Outcome
  <1>5. ASSUME UNCHANGED <<op, value, kind, fpc, requested>> PROVE Goal
    BY Zenon, <1>4, <1>5 DEF Active, InCall, Asked
  <1>6. CASE Worker
    <2>1. CASE PickNext \/ SuspendUntil \/ DrainEnd
      BY <1>5, <2>1, Zenon DEF PickNext, SuspendUntil, DrainEnd, fiberVars, ringVars, stopVars
    <2>2. CASE DrainNotify
      <3>1. PICK hit : /\ op' = Cascade(op, hit)
                       /\ \A a \in hit : /\ op[a] = "pending"
                                         /\ \E j \in 1..Len(cancel_queue) : a = cancel_queue[j]
        BY Zenon, <1>6, <2>2, FlushHits DEF Worker
      <3>2. UNCHANGED <<fpc, kind, value, requested>>
        BY Zenon, <2>2 DEF DrainNotify, fiberVars, stopVars
      <3>3. CASE op'[<<s, i>>] = op[<<s, i>>]
        <4>1. op[<<s, 1>>] \in {"error", "cancelled"} => op'[<<s, 1>>] = op[<<s, 1>>]
          BY <1>2, <3>1, CascadeKeeps
        <4> QED
          BY ZenonT(60), <1>3, <3>2, <3>3, <4>1 DEF Active, InCall, Asked, Outcome, Final
      <3>4. CASE op'[<<s, i>>] # op[<<s, i>>]
        <4>1. PICK m \in 1..i : <<s, m>> \in hit
          BY SMTT(60), <1>2, <3>1, <3>4, CascadeKeeps
        <4>2. m \in {1, 2} /\ <<s, m>> \in Addrs
          BY <1>2, <4>1 DEF Addrs
        <4>3. InCall(s)
          BY Zenon, <1>1, <3>1, <4>1, <4>2 DEF Alive
        <4>4. \E j \in 1..Len(cancel_queue) : cancel_queue[j][1] = s
          BY <3>1, <4>1
        <4>5. Asked(s)
          BY Zenon, <1>1, <1>6, <4>3, <4>4 DEF Clean, Fresh, Worker, InCall
        <4> QED
          BY Zenon, <3>2, <4>5 DEF Asked
      <3> QED
        BY Zenon, <3>3, <3>4
    <2>3. ASSUME NEW b \in Addrs, DrainIo(b) PROVE Goal
      <3>1. /\ op' = [op EXCEPT ![b] = "free"] /\ value' = [value EXCEPT ![b] = op[b]]
            /\ kind' = kind /\ requested' = requested /\ op[b] \in Results /\ b[1] \in Stacks
            /\ fpc' = fpc \/ (fpc[b[1]] = "wait" /\ fpc' = [fpc EXCEPT ![b[1]] = "get"])
        BY Zenon, <2>3 DEF DrainIo, stopVars, Addrs
      <3>2. value[b] = "unset"
        <4>1. b[2] \in Unset(b[1]) /\ b = <<b[1], b[2]>>
          BY <1>1, <3>1 DEF Alive, Results, Addrs
        <4> QED
          BY Zenon, <4>1 DEF Unset
      <3>3. \A a \in Addrs : Final(value'[a], op'[a]) = Outcome(a)
        BY Zenon, <1>2, <3>1, <3>2 DEF Outcome, Final, Results
      <3>4. Active(s)
        BY Zenon, <1>2, <3>1 DEF Active, InCall
      <3> QED
        BY Zenon, <1>2, <1>3, <3>1, <3>3, <3>4 DEF Asked
    <2>4. ASSUME NEW t \in Stacks, LaunchFiber(t) PROVE Goal
      <3>1. /\ fpc' = [fpc EXCEPT ![t] = "body"] /\ requested' = requested \ {t}
            /\ UNCHANGED <<op, value, kind>>
        BY Zenon, <2>4 DEF LaunchFiber, Goto, ringVars
      <3>2. t # s /\ Active(s)
        BY Zenon, <1>2, <3>1 DEF Active, InCall
      <3>3. Asked(s) => Asked(s)'
        BY Zenon, <1>2, <3>1, <3>2 DEF Asked
      <3> QED
        BY Zenon, <1>4, <3>1, <3>2, <3>3
    <2>5. ASSUME NEW t \in Stacks, NEW k \in Kinds, OpSubmit(t, k) PROVE Goal
      <3>1. /\ op' = Started(Sqes(t, k)) /\ fpc' = [fpc EXCEPT ![t] = "reg_pool"]
            /\ InBatch(Sqes(t, k), "op") = {<<t, m>> : m \in IF k = "linked" THEN {1, 2} ELSE {1}}
        BY Zenon, <1>1, <1>6, <2>5, SubmitStarts DEF Worker
      <3>2. /\ fpc[t] = "body" /\ kind' = [kind EXCEPT ![t] = k] /\ requested' = requested
            /\ value' = [b \in Addrs |-> IF b[1] = t THEN "unset" ELSE value[b]]
        BY Zenon, <2>5 DEF OpSubmit, TakeOp, At, stopVars
      <3>3. CASE s = t
        <4>1. op[<<s, i>>] = "free"
          BY Zenon, <1>1, <1>2, <3>2, <3>3 DEF Alive, InCall
        <4>2. value'[<<s, i>>] = "unset" /\ op'[<<s, i>>] # "cancelled"
          BY Zenon, <1>2, <3>1, <3>2, <3>3, <4>1 DEF Started
        <4> QED
          BY Zenon, <4>2 DEF Final
      <3>4. CASE s # t
        <4>1. \A m \in {1, 2} : <<s, m>> \in Addrs /\ <<s, m>> \notin InBatch(Sqes(t, k), "op")
          BY Zenon, <3>1, <3>4 DEF Addrs
        <4>2. \A m \in {1, 2} : op'[<<s, m>>] = op[<<s, m>>] /\ value'[<<s, m>>] = value[<<s, m>>]
          BY Zenon, <1>2, <3>1, <3>2, <3>4, <4>1 DEF Started
        <4>3. Active(s) /\ kind'[s] = kind[s]
          BY Zenon, <1>2, <3>1, <3>2, <3>4 DEF Active, InCall
        <4> QED
          BY Zenon, <1>2, <1>3, <3>2, <4>2, <4>3 DEF Outcome, Asked
      <3> QED
        BY Zenon, <3>3, <3>4
    <2>6. ASSUME NEW t \in Stacks, NEW k \in Kinds,
                 OpRefused(t, k) \/ SleepNoTime(t, k) \/ OpNoSqe(t, k)
          PROVE  Goal
      <3>1. ~OpNoSqe(t, k)
        BY Zenon, <1>1, <1>6, SqeThere DEF Worker
      <3> QED
        BY <1>5, <2>6, <3>1, Zenon DEF OpRefused, SleepNoTime, ringVars, stopVars
    <2>7. ASSUME NEW t \in Stacks,
                 \/ RegisterPool(t) \/ RegisterFiber(t) \/ FutureGet(t)
                 \/ DeregisterFiber(t) \/ DeregisterPool(t) \/ FiberEnd(t)
          PROVE  Goal
      <3>1. UNCHANGED <<op, value, kind, requested>>
        BY <2>7, Zenon DEF RegisterPool, RegisterFiber, FutureGet, DeregisterFiber,
                           DeregisterPool, FiberEnd, ringVars, stopVars
      <3>2. CASE FiberEnd(t) \/ DeregisterPool(t)
        <4>1. fpc' = [fpc EXCEPT ![t] = "none"] \/ fpc' = [fpc EXCEPT ![t] = "body"]
          BY Zenon, <3>2 DEF FiberEnd, DeregisterPool, Goto
        <4>2. Active(s)
          BY Zenon, <1>2, <4>1 DEF Active, InCall
        <4> QED
          BY Zenon, <1>4, <3>1, <4>2 DEF Asked
      <3>3. CASE RegisterPool(t) \/ RegisterFiber(t) \/ FutureGet(t) \/ DeregisterFiber(t)
        <4>1. Active(t) /\ \E l \in FiberPCs : fpc' = [fpc EXCEPT ![t] = l]
          BY Zenon, <3>3 DEF RegisterPool, RegisterFiber, FutureGet, DeregisterFiber, At, Goto,
                      FiberPCs, Active, InCall
        <4>2. Active(s)
          BY Zenon, <1>2, <4>1 DEF Active, InCall
        <4> QED
          BY Zenon, <1>4, <3>1, <4>2 DEF Asked
      <3> QED
        BY Zenon, <2>7, <3>2, <3>3
    <2> QED
      BY <1>6, <2>1, <2>2, <2>3, <2>4, <2>5, <2>6, <2>7, Zenon DEF Worker, Fiber
  <1>7. CASE Kernel
    <2>1. UNCHANGED <<fpc, kind, value, requested>>
      BY <1>7, Zenon DEF Kernel, KernelRun, KernelComplete, KernelTimeout, KernelNotify,
                         fiberVars, stopVars
    <2>2. Active(s) /\ kind'[s] = kind[s] /\ (Asked(s) => Asked(s)')
      BY Zenon, <2>1 DEF Active, InCall, Asked
    <2>3. ASSUME op'[<<s, i>>] = "cancelled" => op[<<s, i>>] = "cancelled",
                 op[<<s, 1>>] \in {"error", "cancelled"} =>
                     op'[<<s, 1>>] \in {"error", "cancelled"}
          PROVE  Goal
      BY Zenon, <1>3, <2>1, <2>2, <2>3 DEF Outcome, Final
    <2>4. CASE KernelNotify
      BY Zenon, <2>3, <2>4 DEF KernelNotify
    <2>5. ASSUME NEW b \in Addrs, KernelRun(b) PROVE Goal
      BY Zenon, <1>2, <2>3, <2>5 DEF KernelRun
    <2>6. ASSUME NEW t \in Stacks, KernelTimeout(t) PROVE Goal
      <3>1. /\ kind[t] = "timed" /\ op[<<t, 1>>] = "pending" /\ <<t, 1>> \in Addrs
            /\ op' = [op EXCEPT ![<<t, 1>>] = "cancelled"]
        BY Zenon, <2>6 DEF KernelTimeout, Addrs
      <3>2. CASE s = t
        BY Zenon, <2>1, <3>1, <3>2
      <3>3. CASE s # t
        <4>1. op'[<<s, i>>] = op[<<s, i>>] /\ op'[<<s, 1>>] = op[<<s, 1>>]
          BY Zenon, <1>2, <3>1, <3>3
        <4> QED
          BY Zenon, <2>3, <4>1
      <3> QED
        BY Zenon, <3>2, <3>3
    <2>7. ASSUME NEW b \in Addrs, KernelComplete(b) PROVE Goal
      <3> DEFINE ends == [op EXCEPT ![b] = "error"]
      <3>1. op[b] = "running"
        BY Zenon, <2>7 DEF KernelComplete
      <3>2. CASE op' = [x \in Addrs |-> IF x = b THEN "ok"
                                     ELSE IF x = <<b[1], b[2] + 1>> /\ op[x] = "linked"
                                     THEN "pending" ELSE op[x]]
        BY Zenon, <1>2, <2>3, <3>1, <3>2
      <3>3. CASE op' = Cascade(ends, {b})
        <4>1. ends \in [Addrs -> OpStates] /\ ends[b] = "error"
              /\ \A a \in Addrs : a # b => ends[a] = op[a]
          BY Zenon, <1>2 DEF OpStates, Results
        <4> HIDE DEF ends
        <4>2. op'[b] = "error"
          BY Zenon, <3>3, <4>1, CascadeKeeps
        <4>3. op[<<s, 1>>] \in {"error", "cancelled"} => op'[<<s, 1>>] \in {"error", "cancelled"}
          BY <1>2, <3>1, <3>3, <4>1, CascadeKeeps
        <4>4. CASE op'[<<s, i>>] = ends[<<s, i>>]
          <5>1. op'[<<s, i>>] = "cancelled" => op[<<s, i>>] = "cancelled"
            BY Zenon, <1>2, <4>1, <4>4
          <5> QED
            BY Zenon, <2>3, <4>3, <5>1
        <4>5. CASE op'[<<s, i>>] # ends[<<s, i>>]
          <5>1. PICK m \in 1..i : <<s, m>> \in {b}
            <6> DEFINE a == <<s, i>>
                       hit == {b}
            <6>1. a \in Addrs /\ a[1] = s /\ a[2] = i /\ Cascade(ends, hit)[a] # ends[a]
              BY Zenon, <1>2, <3>3, <4>5
            <6> HIDE DEF a, hit
            <6>2. \E m \in 1..a[2] : <<a[1], m>> \in hit
              BY <4>1, <6>1, CascadeKeeps
            <6> QED
              BY Zenon, <6>1, <6>2 DEF hit
          <5>2. <<s, i>> # b
            BY Zenon, <4>1, <4>2, <4>5
          <5>3. i = 2 /\ b = <<s, 1>>
            <6>1. m \in {1, 2} /\ m <= i /\ b = <<s, m>> /\ m # i
              BY <1>2, <5>1, <5>2
            <6> QED
              BY <1>2, <6>1
          <5>4. value[b] = "unset"
            BY Zenon, <1>1, <1>2, <3>1, <5>3 DEF Alive, Unset
          <5> QED
            BY Zenon, <2>1, <4>2, <5>3, <5>4 DEF Final
        <4> QED
          BY Zenon, <4>4, <4>5
      <3> QED
        BY <2>7, <3>2, <3>3, Zenon DEF KernelComplete
    <2> QED
      BY <1>7, <2>4, <2>5, <2>6, <2>7, Zenon DEF Kernel
  <1>8. ASSUME NEW x \in Sources, RequestStop(x) \/ Calls(x) PROVE Goal
    <2>1. UNCHANGED <<op, value, kind, fpc>> /\ requested \subseteq requested'
      BY Zenon, <1>8 DEF RequestStop, Calls, CallsDone, PushCancel, WriteNotify, CallNext, fiberVars,
                  ringVars
    <2> QED
      BY Zenon, <1>4, <2>1 DEF Active, InCall, Asked
  <1>9. CASE UNCHANGED vars
    BY Zenon, <1>5, <1>9 DEF vars
  <1> QED
    BY Zenon, <1>6, <1>7, <1>8, <1>9 DEF Next

-----------------------------------------------------------------------------
(* The constructed scheduler satisfies the inductive invariant. *)
LEMMA InitInv == ASSUME Init PROVE IInv
  <1>1. TypeOK
    BY Zenon, InitType
  <1>2. RingShape
    BY Zenon, EmptyBatch DEF Init, RingShape
  <1>3. OneAtATime /\ Alive
    BY Zenon DEF Init, OneAtATime, Alive, Addrs
  <1>4. Callbacks
    BY Zenon DEF Init, Callbacks, Idle
  <1>5. Tokens /\ Clean
    BY DEF Init, Tokens, Clean
  <1>6. Justified
    BY Zenon DEF Init, Justified, Active, InCall
  <1> QED
    BY Zenon, <1>1, <1>2, <1>3, <1>4, <1>5, <1>6 DEF IInv

(* Every step keeps the inductive invariant. *)
LEMMA InvStep == ASSUME IInv, [Next]_vars PROVE IInv'
  BY Zenon, TypeStep, RingStep, OneStep, AliveStep, CallbacksStep, TokensStep, CleanStep,
     JustifiedStep DEF IInv

(* The inductive invariant holds in every reachable state. *)
LEMMA Invariance == Spec => []IInv
  <1>1. Init => IInv
    BY Zenon, InitInv
  <1>2. IInv /\ [Next]_vars => IInv'
    BY Zenon, InvStep
  <1> QED
    BY <1>1, <1>2, PTL DEF Spec

(* The state of the ring, the fibers and the stop callbacks is well typed. *)
THEOREM TypeCorrect == Spec => []TypeOK
  BY Invariance, PTL DEF IInv

(***************************************************************************)
(* While the kernel or the ring holds a pointer to an awaitable, its fiber *)
(* is in the call on whose stack it lies: nothing drain_cqes writes to is  *)
(* gone, whatever is asked to stop, for any number of fibers, as long as   *)
(* no io_uring_submit fails.                                               *)
(***************************************************************************)
THEOREM AwaitablesOutlive == Spec => []AwaitableAlive
  <1>1. IInv => AwaitableAlive
    BY Zenon DEF IInv, RingShape, Alive, AwaitableAlive
  <1> QED
    BY <1>1, Invariance, PTL

(***************************************************************************)
(* An operation reports ECANCELED only if it has a timeout, or its own     *)
(* fiber or the pool was asked to stop: a cancel queued for one fiber      *)
(* never hits the operation of the one launched later on its stack.        *)
(***************************************************************************)
THEOREM CancelledOnRequest == Spec => []OnlyAskedCancelled
  <1>1. ASSUME IInv PROVE OnlyAskedCancelled
    <2> SUFFICES ASSUME NoFailure, NEW s \in Stacks, fpc[s] \in {"dereg_fiber", "dereg_pool"},
                        Reported(s) = "cancelled"
                 PROVE  kind[s] = "timed" \/ Asked(s)
      BY Zenon DEF OnlyAskedCancelled
    <2>1. \A i \in Awaitables(s) : value[<<s, i>>] = "cancelled" =>
             \/ kind[s] = "timed" \/ Asked(s)
             \/ i = 2 /\ Outcome(<<s, 1>>) \in {"error", "cancelled"}
      BY Zenon, <1>1 DEF IInv, Justified, Active, Outcome, Final
    <2>2. CASE value[<<s, 1>>] = "ok" /\ kind[s] = "linked"
      BY Zenon, <2>1, <2>2 DEF Reported, Awaitables, Outcome, Final
    <2>3. CASE ~(value[<<s, 1>>] = "ok" /\ kind[s] = "linked")
      <3>1. value[<<s, 1>>] = "cancelled" /\ 1 \in Awaitables(s)
        BY Zenon, <2>3 DEF Reported, Awaitables
      <3> QED
        BY <2>1, <3>1
    <2> QED
      BY Zenon, <2>2, <2>3
  <1> QED
    BY <1>1, Invariance, PTL

(***************************************************************************)
(* A queued cancel always has a wakeup on its way: a counted notification, *)
(* a completed notify read, or the write of the thread that pushed it.     *)
(***************************************************************************)
THEOREM CancelsWoken == Spec => []QueuedCancelHasWakeup
  <1>1. ASSUME IInv PROVE QueuedCancelHasWakeup
    <2> SUFFICES ASSUME cancel_queue # <<>>
                 PROVE  \/ notify_fd > 0 \/ notify_read = "done" \/ crashed
                        \/ \E x \in Sources : caller[x].pc = "write"
      BY Zenon DEF QueuedCancelHasWakeup
    <2>1. 1 \in 1..Len(cancel_queue)
      BY <1>1, Elements DEF IInv, TypeOK
    <2> QED
      BY Zenon, <1>1, <2>1 DEF IInv, Tokens
  <1> QED
    BY <1>1, Invariance, PTL
=============================================================================
