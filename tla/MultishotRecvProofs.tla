------------------------ MODULE MultishotRecvProofs --------------------------
(***************************************************************************)
(* Proofs about MultishotRecv for any number of buffers, messages and null *)
(* SQEs.                                                                   *)
(***************************************************************************)
EXTENDS MultishotRecv, Integers, TLAPS

(* Queue t is s with e pushed at its back, or with e popped from its front. *)
Pushed(s, t, e) ==
    /\ Len(s) \in Nat /\ Len(t) = Len(s) + 1
    /\ t[Len(s) + 1] = e /\ \A i \in 1..Len(s) : t[i] = s[i]
Popped(s, t, e) ==
    /\ Len(s) \in Nat \ {0} /\ Len(t) = Len(s) - 1
    /\ e = s[1] /\ \A i \in 1..Len(t) : t[i] = s[i + 1]

(* The elements of a queue have the type of the queue. *)
LEMMA Elements ==
    ASSUME NEW S, NEW s \in Seq(S)
    PROVE  /\ Len(s) \in Nat /\ DOMAIN s = 1..Len(s)
           /\ \A i \in 1..Len(s) : s[i] \in S
           /\ s # <<>> <=> Len(s) # 0
  OBVIOUS

(* Append pushes at the back. *)
LEMMA PushBack ==
    ASSUME NEW S, NEW s \in Seq(S), NEW e \in S
    PROVE  /\ Append(s, e) \in Seq(S) /\ Append(s, e) # <<>>
           /\ Pushed(s, Append(s, e), e)
  BY DEF Pushed

(* Head and Tail pop from the front. *)
LEMMA PopFront ==
    ASSUME NEW S, NEW s \in Seq(S), s # <<>>
    PROVE  /\ Head(s) \in S /\ Tail(s) \in Seq(S)
           /\ Tail(s) = <<>> <=> Len(s) = 1
           /\ Popped(s, Tail(s), Head(s))
  <1>1. Len(s) \in Nat \ {0} /\ Tail(s) \in Seq(S) /\ Len(Tail(s)) = Len(s) - 1
    OBVIOUS
  <1>2. Tail(s) = <<>> <=> Len(s) = 1
    <2>1. Tail(s) = <<>> <=> Len(Tail(s)) = 0
      BY <1>1, Elements
    <2> QED
      BY <1>1, <2>1
  <1>3. /\ Head(s) \in S /\ Head(s) = s[1]
        /\ \A i \in 1..Len(Tail(s)) : Tail(s)[i] = s[i + 1]
    OBVIOUS
  <1> QED
    BY <1>1, <1>2, <1>3 DEF Popped

(* What a list holds, 0 standing for nothing, and that it holds none twice. *)
Listed(s) == {s[i] : i \in 1..Len(s)} \ {0}
Distinct(s) == \A i, j \in 1..Len(s) : s[i] # 0 /\ s[i] = s[j] => i = j

(* A new element pushed to a list. *)
LEMMA PushListed ==
    ASSUME NEW s, NEW t, NEW e, Pushed(s, t, e), Distinct(s), e \notin Listed(s)
    PROVE  Distinct(t) /\ Listed(t) = Listed(s) \cup ({e} \ {0})
  <1>1. Len(s) \in Nat /\ Len(t) = Len(s) + 1 /\ t[Len(s) + 1] = e
    BY DEF Pushed
  <1>2. ASSUME NEW i \in 1..Len(t)
        PROVE  \/ i = Len(s) + 1 /\ t[i] = e
               \/ i \in 1..Len(s) /\ t[i] = s[i] /\ (t[i] # 0 => t[i] # e)
    <2>1. i = Len(s) + 1 \/ i \in 1..Len(s)
      BY <1>1
    <2>2. CASE i \in 1..Len(s)
      BY <2>2 DEF Pushed, Listed
    <2> QED
      BY <1>1, <2>1, <2>2
  <1>3. \A i \in 1..Len(s) : i \in 1..Len(t) /\ t[i] = s[i]
    BY <1>1 DEF Pushed
  <1>4. Len(s) + 1 \in 1..Len(t)
    BY <1>1
  <1>5. Distinct(t)
    BY <1>2 DEF Distinct
  <1>6. Listed(t) \subseteq Listed(s) \cup ({e} \ {0})
    BY <1>2 DEF Listed
  <1>7. Listed(s) \cup ({e} \ {0}) \subseteq Listed(t)
    BY <1>1, <1>3, <1>4 DEF Listed
  <1> QED
    BY <1>5, <1>6, <1>7

(* The first element of a list popped. *)
LEMMA PopListed ==
    ASSUME NEW s, NEW t, NEW e, Popped(s, t, e), Distinct(s)
    PROVE  /\ Distinct(t) /\ Listed(t) = Listed(s) \ {e}
           /\ e # 0 => e \in Listed(s)
  <1>1. Len(s) \in Nat \ {0} /\ Len(t) = Len(s) - 1 /\ e = s[1] /\ 1 \in 1..Len(s)
    BY DEF Popped
  <1>2. ASSUME NEW i \in 1..Len(t)
        PROVE  i \in Int /\ i + 1 \in 1..Len(s) /\ t[i] = s[i + 1] /\ i + 1 # 1
    <2>1. i \in Int /\ i + 1 \in 1..Len(s) /\ i + 1 # 1
      BY <1>1
    <2> QED
      BY <2>1 DEF Popped
  <1>3. ASSUME NEW i \in 1..Len(s), i # 1
        PROVE  \E j \in 1..Len(t) : t[j] = s[i]
    <2>1. i - 1 \in 1..Len(t) /\ i - 1 + 1 = i
      BY <1>1, <1>3
    <2> QED
      BY Zenon, <1>2, <2>1
  <1>4. Distinct(t)
    <2> SUFFICES ASSUME NEW i \in 1..Len(t), NEW j \in 1..Len(t), t[i] # 0, t[i] = t[j]
                 PROVE  i = j
      BY DEF Distinct
    <2>1. i + 1 = j + 1
      BY <1>2 DEF Distinct
    <2> QED
      BY <1>2, <2>1
  <1>5. Listed(t) \subseteq Listed(s) \ {e}
    <2> SUFFICES ASSUME NEW i \in 1..Len(t), t[i] # 0 PROVE t[i] \in Listed(s) /\ t[i] # e
      BY DEF Listed
    <2>1. t[i] = s[i + 1] /\ i + 1 \in 1..Len(s) /\ i + 1 # 1
      BY <1>2
    <2> QED
      BY <1>1, <2>1 DEF Listed, Distinct
  <1>6. Listed(s) \ {e} \subseteq Listed(t)
    <2> SUFFICES ASSUME NEW i \in 1..Len(s), s[i] # 0, s[i] # e PROVE s[i] \in Listed(t)
      BY DEF Listed
    <2>1. PICK j \in 1..Len(t) : t[j] = s[i]
      BY Zenon, <1>1, <1>3
    <2> QED
      BY <2>1 DEF Listed
  <1>7. e # 0 => e \in Listed(s)
    BY <1>1 DEF Listed
  <1>8. Listed(t) = Listed(s) \ {e}
    BY <1>5, <1>6
  <1> QED
    BY <1>4, <1>7, <1>8

-----------------------------------------------------------------------------
(***************************************************************************)
(* The shape of the completion queue.  Data has a buffer and a message; a  *)
(* completion without IORING_CQE_F_MORE is the last one and leaves no      *)
(* receive armed; one with it leaves the receive armed.                    *)
(***************************************************************************)
QueueShape ==
    /\ \A i \in 1..Len(cq) :
          /\ cq[i].res = "data" => cq[i].buf # 0 /\ cq[i].msg # 0
          /\ cq[i].res # "data" => ~cq[i].more
          /\ ~cq[i].more => i = Len(cq) /\ sqe = "off"
    /\ \A i \in 1..Len(cq) : i = Len(cq) /\ cq[i].more => sqe = "armed"

(* error_ without a stop request: the receive has ended and is drained. *)
ErrorIsFinal == ~stop /\ error # "live" => sqe = "off" /\ cq = <<>>

(* The destructor leaves its loop only with error_ set. *)
FreesAfterError == pc \in {"free", "gone"} => error # "live"

(* A fiber waits only while the object is live, which unless an SQE was    *)
(* missing has a receive armed or a completion on its way.                 *)
LiveIsServed ==
    /\ waiter => pc \in {"wait", "loop_wait"}
    /\ waiter => error = "live"
    /\ error = "live" /\ ring_full = MaxRingFull => sqe = "armed" \/ cq # <<>>

(* Messages are numbered through the two queues; the last completion may   *)
(* be the one that is not data.                                            *)
EndsWithError == \E i \in 1..Len(cq) : i = Len(cq) /\ cq[i].res # "data"
Numbered ==
    pc \in {"body", "wait", "resume"} =>
        /\ \A i \in 1..Len(pending) : pending[i].msg = got + i
        /\ \A i \in 1..Len(cq) : cq[i].res = "data" => cq[i].msg = got + Len(pending) + i
        /\ sent = got + Len(pending) + Len(cq) - (IF EndsWithError THEN 1 ELSE 0)

(***************************************************************************)
(* The buffers in the ring, in completions, in pending_ and with the user: *)
(* no list has one twice, no two places have the same, and none is lost.   *)
(***************************************************************************)
BufList(s) == [i \in 1..Len(s) |-> s[i].buf]
InRing == Listed(avail)
InCq == Listed(BufList(cq))
InQueue == Listed(BufList(pending))
InUser == {h.buf : h \in held}
Partition(A, B, C, D) ==
    /\ A \cap B = {} /\ A \cap C = {} /\ A \cap D = {}
    /\ B \cap C = {} /\ B \cap D = {} /\ C \cap D = {}
    /\ A \cup B \cup C \cup D = Buffers
Places ==
    /\ Distinct(avail) /\ Distinct(BufList(cq)) /\ Distinct(BufList(pending))
    /\ \A g, h \in held : g.buf = h.buf => g = h
    /\ Partition(InRing, InCq, InQueue, InUser)

IInv == /\ TypeOK /\ QueueShape /\ ErrorIsFinal /\ FreesAfterError /\ LiveIsServed
        /\ Numbered /\ Places

-----------------------------------------------------------------------------
(* A completion the kernel posts is well-formed. *)
LEMMA CqeType ==
    ASSUME NEW res \in {"data", "eof", "nobufs", "cancelled", "failed"},
           NEW b \in Buffers \cup {0}, NEW m \in 0..MaxMessages, NEW more \in BOOLEAN
    PROVE  /\ Cqe(res, b, m, more) \in Cqes
           /\ Cqe(res, b, m, more).res = res /\ Cqe(res, b, m, more).buf = b
           /\ Cqe(res, b, m, more).msg = m /\ Cqe(res, b, m, more).more = more
  BY Zenon DEF Cqe, Cqes

(* The completion that ends a receive, with a buffer or without. *)
LEMMA EndType ==
    ASSUME NEW res \in {"eof", "nobufs", "cancelled", "failed"}, NEW b \in Buffers \cup {0}
    PROVE  /\ Cqe(res, b, 0, FALSE) \in Cqes
           /\ Cqe(res, b, 0, FALSE).res = res /\ Cqe(res, b, 0, FALSE).buf = b
           /\ Cqe(res, b, 0, FALSE).more = FALSE
  <1>1. 0 \in 0..MaxMessages /\ FALSE \in BOOLEAN
    BY RecvAssumption
  <1> QED
    BY Zenon, <1>1 DEF Cqe, Cqes

(* The destructor gives back the queued buffers behind those in the ring. *)
LEMMA ReturnAll ==
    ASSUME TypeOK
    PROVE  LET back == avail \o [i \in DOMAIN pending |-> pending[i].buf]
           IN  /\ back \in Seq(Buffers) /\ Len(back) = Len(avail) + Len(pending)
               /\ \A i \in 1..Len(avail) : back[i] = avail[i]
               /\ \A i \in 1..Len(pending) : back[Len(avail) + i] = pending[i].buf
  <1> DEFINE bufs == [i \in DOMAIN pending |-> pending[i].buf]
  <1>1. /\ Len(pending) \in Nat /\ DOMAIN pending = 1..Len(pending)
        /\ \A i \in 1..Len(pending) : pending[i].buf \in Buffers
    BY ZenonT(30), Elements DEF TypeOK, Items
  <1>2. bufs \in Seq(Buffers) /\ Len(bufs) = Len(pending)
    BY <1>1
  <1>3. \A i \in 1..Len(pending) : bufs[i] = pending[i].buf
    BY Zenon, <1>1
  <1>4. avail \in Seq(Buffers) /\ Len(avail) \in Nat
    BY Zenon, Elements DEF TypeOK
  <1> HIDE DEF bufs
  <1>5. /\ avail \o bufs \in Seq(Buffers) /\ Len(avail \o bufs) = Len(avail) + Len(bufs)
        /\ \A i \in 1..(Len(avail) + Len(bufs)) :
              (avail \o bufs)[i] = IF i <= Len(avail) THEN avail[i] ELSE bufs[i - Len(avail)]
    BY <1>2, <1>4
  <1>6. \A i \in 1..Len(pending) : (avail \o bufs)[Len(avail) + i] = pending[i].buf
    <2> TAKE i \in 1..Len(pending)
    <2> DEFINE k == Len(avail) + i
    <2>1. k \in 1..(Len(avail) + Len(bufs)) /\ ~(k <= Len(avail)) /\ k - Len(avail) = i
      BY <1>1, <1>2, <1>4
    <2> HIDE DEF k
    <2>2. (avail \o bufs)[k] = pending[i].buf
      BY Zenon, <2>1, <1>3, <1>5
    <2> QED
      BY Zenon, <2>2 DEF k
  <1>7. \A i \in 1..Len(avail) : (avail \o bufs)[i] = avail[i]
    BY <1>1, <1>2, <1>4, <1>5
  <1> QED
    BY Zenon, <1>2, <1>5, <1>6, <1>7 DEF bufs

-----------------------------------------------------------------------------
(* Every step keeps the types: complete() queues only data, which has a    *)
(* buffer and a message.                                                   *)
LEMMA TypeStep ==
    ASSUME TypeOK, QueueShape, [Next]_vars
    PROVE  TypeOK'
  <1> USE RecvAssumption DEF TypeOK
  <1>1. ASSUME NEW more \in BOOLEAN, KernelData(more) PROVE TypeOK'
    <2>1. Head(avail) \in Buffers /\ Tail(avail) \in Seq(Buffers)
      BY Zenon, <1>1, PopFront DEF KernelData
    <2>2. sent + 1 \in 0..MaxMessages
      BY <1>1 DEF KernelData
    <2>3. Cqe("data", Head(avail), sent + 1, more) \in Cqes
      BY Zenon, <2>1, <2>2, CqeType
    <2>4. cq' \in Seq(Cqes)
      BY Zenon, <1>1, <2>3, PushBack DEF KernelData
    <2> QED
      BY Zenon, <1>1, <2>1, <2>2, <2>4 DEF KernelData, objVars, userVars
  <1>2. CASE KernelNoBufs
    <2>1. Cqe("nobufs", 0, 0, FALSE) \in Cqes
      BY Zenon, EndType
    <2>2. cq' \in Seq(Cqes)
      BY Zenon, <1>2, <2>1, PushBack DEF KernelNoBufs
    <2> QED
      BY Zenon, <1>2, <2>2 DEF KernelNoBufs, objVars, userVars
  <1>3. ASSUME NEW res \in {"eof", "failed"}, KernelEnds(res) PROVE TypeOK'
    <2>1. cq' \in Seq(Cqes) /\ avail' \in Seq(Buffers)
      <3>1. CASE cq' = Append(cq, Cqe(res, 0, 0, FALSE)) /\ UNCHANGED avail
        <4>1. Cqe(res, 0, 0, FALSE) \in Cqes
          BY Zenon, EndType
        <4> QED
          BY Zenon, <3>1, <4>1, PushBack
      <3>2. CASE avail # <<>> /\ cq' = Append(cq, Cqe(res, Head(avail), 0, FALSE))
                 /\ avail' = Tail(avail)
        <4>1. Head(avail) \in Buffers /\ Tail(avail) \in Seq(Buffers)
          BY Zenon, <3>2, PopFront
        <4>2. Cqe(res, Head(avail), 0, FALSE) \in Cqes
          BY Zenon, <4>1, EndType
        <4> QED
          BY Zenon, <3>2, <4>1, <4>2, PushBack
      <3> QED
        BY Zenon, <1>3, <3>1, <3>2 DEF KernelEnds
    <2> QED
      BY Zenon, <1>3, <2>1 DEF KernelEnds, objVars, userVars
  <1>4. CASE RequestStop
    BY Zenon, <1>4 DEF RequestStop, objVars, kernVars
  <1>5. CASE Complete
    <2> DEFINE e == Head(cq)
    <2>1. e \in Cqes /\ e = cq[1] /\ 1 \in 1..Len(cq) /\ Tail(cq) \in Seq(Cqes)
      BY <1>5, PopFront DEF Complete, Popped
    <2>2. e.res = "data" => e.buf \in Buffers /\ e.msg \in 1..MaxMessages
      BY <2>1 DEF QueueShape, Cqes
    <2>3. e.res \in {"data", "eof", "nobufs", "cancelled", "failed"} /\ e.buf \in Buffers \cup {0}
      BY Zenon, <2>1 DEF Cqes
    <2> HIDE DEF e
    <2>4. e.res = "data" => Queued(e) \in Seq(Items)
      BY Zenon, <2>2, PushBack DEF Queued, Items
    <2>5. Returned(e) \in Seq(Buffers)
      BY Zenon, <2>3, PushBack DEF Returned
    <2>6. pending' \in Seq(Items) /\ avail' \in Seq(Buffers)
      BY Zenon, <1>5, <2>4, <2>5 DEF Complete, HasData, e
    <2>7. error' \in {"live", "eof", "nobufs", "cancelled", "failed"}
      BY Zenon, <1>5, <2>3 DEF Complete, HasData, e
    <2>8. sqe' \in {"armed", "off"} /\ ring_full' \in 0..MaxRingFull
      BY <1>5 DEF Complete, Arm
    <2>9. pc' \in {"body", "wait", "resume", "loop", "loop_wait", "loop_resume", "free", "gone"}
      BY Zenon, <1>5 DEF Complete, Woken
    <2>10. cq' \in Seq(Cqes) /\ waiter' \in BOOLEAN
      BY Zenon, <1>5, <2>1 DEF Complete
    <2> QED
      BY Zenon, <1>5, <2>6, <2>7, <2>8, <2>9, <2>10 DEF Complete, userVars
  <1>6. CASE NextItem
    <2>1. pending' \in Seq(Items) /\ Head(pending) \in Items
      BY Zenon, <1>6, PopFront DEF NextItem
    <2>2. Head(pending).msg \in 0..MaxMessages
      BY <2>1 DEF Items
    <2>3. got' \in 0..MaxMessages /\ held' \subseteq Items
      BY Zenon, <1>6, <2>1, <2>2 DEF NextItem
    <2> QED
      BY Zenon, <1>6, <2>1, <2>3 DEF NextItem, kernVars
  <1>7. CASE LoopItem
    <2>1. pending' \in Seq(Items) /\ Head(pending) \in Items
      BY Zenon, <1>7, PopFront DEF LoopItem
    <2>2. avail' \in Seq(Buffers)
      BY Zenon, <1>7, <2>1, PushBack DEF LoopItem, Items
    <2> QED
      BY Zenon, <1>7, <2>1, <2>2 DEF LoopItem, userVars
  <1>8. CASE NextEnds \/ NextStopped \/ NextWaits \/ DestructorFrees
    BY Zenon, <1>8 DEF NextEnds, NextStopped, NextWaits, DestructorFrees, objVars, userVars,
         kernVars
  <1>9. ASSUME NEW h \in held, ReleaseBuffer(h) PROVE TypeOK'
    <2>1. avail' \in Seq(Buffers)
      BY Zenon, <1>9, PushBack DEF ReleaseBuffer, Items
    <2> QED
      BY Zenon, <1>9, <2>1 DEF ReleaseBuffer, objVars
  <1>10. CASE DestructorStarts
    <2>1. avail' \in Seq(Buffers) /\ pending' \in Seq(Items)
      BY <1>10, ReturnAll DEF DestructorStarts
    <2>2. cq' \in Seq(Cqes) /\ sqe' \in {"armed", "off"} /\ ring_full' \in 0..MaxRingFull
      <3>1. Append(cq, Cqe("cancelled", 0, 0, FALSE)) \in Seq(Cqes)
        <4>1. Cqe("cancelled", 0, 0, FALSE) \in Cqes
          BY Zenon, EndType
        <4> QED
          BY Zenon, <4>1, PushBack
      <3>2. CASE error = "live"
        <4>1. ring_full > 0 => ring_full - 1 \in 0..MaxRingFull
          OBVIOUS
        <4>2. SubmitCancel
          BY Zenon, <1>10, <3>2 DEF DestructorStarts
        <4> QED
          BY <3>1, <4>1, <4>2, Zenon DEF SubmitCancel
      <3>3. CASE error # "live"
        BY Zenon, <1>10, <3>3 DEF DestructorStarts
      <3> QED
        BY Zenon, <3>2, <3>3
    <2> QED
      BY Zenon, <1>10, <2>1, <2>2 DEF DestructorStarts, userVars
  <1>11. CASE UNCHANGED vars
    BY Zenon, <1>11 DEF vars
  <1> QED
    BY Zenon, <1>1, <1>2, <1>3, <1>4, <1>5, <1>6, <1>7, <1>8, <1>9, <1>10, <1>11
       DEF Next, Kernel, Fiber

-----------------------------------------------------------------------------
(* A completion is posted only while the receive is armed. *)
LEMMA PostKeepsShape ==
    ASSUME QueueShape, sqe = "armed", NEW e, Pushed(cq, cq', e),
           e.res = "data" => e.buf # 0 /\ e.msg # 0,
           e.res # "data" => ~e.more,
           sqe' = IF e.more THEN "armed" ELSE "off"
    PROVE  QueueShape'
  <1>1. \A i \in 1..Len(cq) : cq[i].more
    BY Zenon DEF QueueShape
  <1>2. ASSUME NEW i \in 1..Len(cq')
        PROVE  \/ i = Len(cq') /\ cq'[i] = e
               \/ i # Len(cq') /\ i \in 1..Len(cq) /\ cq'[i] = cq[i]
    <2>1. Len(cq) \in Nat /\ Len(cq') = Len(cq) + 1
      BY Zenon DEF Pushed
    <2>2. i = Len(cq) + 1 \/ i \in 1..Len(cq)
      BY <2>1
    <2> QED
      BY Zenon, <2>1, <2>2 DEF Pushed
  <1> QED
    BY Zenon, <1>1, <1>2 DEF QueueShape

(* A drained completion leaves the others in their order; after one without *)
(* IORING_CQE_F_MORE none is left.                                          *)
LEMMA DrainKeepsShape ==
    ASSUME QueueShape, NEW e, Popped(cq, cq', e), e.more => sqe' = sqe
    PROVE  /\ QueueShape'
           /\ ~e.more => Len(cq) = 1 /\ sqe = "off"
           /\ e.more /\ Len(cq) = 1 => sqe = "armed"
  <1>1. 1 \in 1..Len(cq) /\ e = cq[1]
    BY DEF Popped
  <1>2. ~e.more => Len(cq) = 1 /\ sqe = "off"
    BY Zenon, <1>1 DEF QueueShape
  <1>3. e.more /\ Len(cq) = 1 => sqe = "armed"
    BY Zenon, <1>1 DEF QueueShape
  <1>4. QueueShape'
    <2>1. CASE Len(cq) = 1
      BY <2>1 DEF QueueShape, Popped
    <2>2. CASE Len(cq) # 1
      <3>1. sqe' = sqe
        BY Zenon, <2>2, <1>2
      <3>2. ASSUME NEW i \in 1..Len(cq')
            PROVE  /\ i + 1 \in 1..Len(cq) /\ (i + 1 = Len(cq) <=> i = Len(cq'))
                   /\ cq'[i] = cq[i + 1]
        <4>1. Len(cq) \in Nat \ {0} /\ Len(cq') = Len(cq) - 1
          BY Zenon DEF Popped
        <4>2. i + 1 \in 1..Len(cq) /\ (i + 1 = Len(cq) <=> i = Len(cq'))
          BY <4>1
        <4> QED
          BY Zenon, <4>2 DEF Popped
      <3>3. ASSUME NEW i \in 1..Len(cq')
            PROVE  /\ cq'[i].res = "data" => cq'[i].buf # 0 /\ cq'[i].msg # 0
                   /\ cq'[i].res # "data" => ~cq'[i].more
                   /\ ~cq'[i].more => i = Len(cq') /\ sqe' = "off"
                   /\ i = Len(cq') /\ cq'[i].more => sqe' = "armed"
        BY <3>1, <3>2 DEF QueueShape
      <3> QED
        BY Zenon, <3>3 DEF QueueShape
    <2> QED
      BY Zenon, <2>1, <2>2
  <1> QED
    BY Zenon, <1>2, <1>3, <1>4

(* The completion queue keeps its shape, and the end of the receive and of *)
(* the object come in order.                                               *)
Course == QueueShape /\ ErrorIsFinal /\ FreesAfterError /\ LiveIsServed

(* Every step keeps that course. *)
LEMMA CourseStep ==
    ASSUME TypeOK, Course, [Next]_vars
    PROVE  Course'
  <1> USE DEF Course
  <1>1. ASSUME NEW more \in BOOLEAN, KernelData(more) PROVE Course'
    <2> DEFINE e == Cqe("data", Head(avail), sent + 1, more)
    <2>1. /\ e \in Cqes /\ e.res = "data" /\ e.more = more /\ e.buf = Head(avail)
          /\ e.msg = sent + 1 /\ e.buf # 0 /\ e.msg # 0
      <3>1. Head(avail) \in Buffers
        BY Zenon, <1>1, PopFront DEF KernelData, TypeOK
      <3>2. sent + 1 \in 0..MaxMessages /\ sent + 1 # 0
        BY <1>1, RecvAssumption DEF KernelData, TypeOK
      <3>3. Head(avail) # 0
        BY <3>1, RecvAssumption DEF Buffers
      <3> QED
        BY <3>1, <3>2, <3>3, CqeType
    <2> HIDE DEF e
    <2>2. QueueShape' /\ cq' # <<>>
      <3>1. cq' = Append(cq, e) /\ sqe = "armed" /\ sqe' = IF e.more THEN "armed" ELSE "off"
        BY Zenon, <1>1, <2>1 DEF KernelData, e
      <3>2. cq \in Seq(Cqes)
        BY Zenon DEF TypeOK
      <3>3. cq' # <<>> /\ Pushed(cq, cq', e)
        BY Zenon, <2>1, <3>1, <3>2, PushBack
      <3> QED
        BY Zenon, <2>1, <3>1, <3>3, PostKeepsShape
    <2> QED
      BY Zenon, <1>1, <2>2 DEF KernelData, objVars, userVars, ErrorIsFinal, FreesAfterError, LiveIsServed
  <1>2. ASSUME NEW res \in {"eof", "nobufs", "cancelled", "failed"}, NEW b \in Buffers \cup {0},
               cq' = Append(cq, Cqe(res, b, 0, FALSE)), sqe = "armed", sqe' = "off"
        PROVE  QueueShape' /\ cq' # <<>>
    <2>1. /\ Cqe(res, b, 0, FALSE) \in Cqes /\ Cqe(res, b, 0, FALSE).res = res
          /\ ~Cqe(res, b, 0, FALSE).more
      BY ZenonT(30), EndType
    <2>2. cq \in Seq(Cqes)
      BY Zenon DEF TypeOK
    <2>3. cq' # <<>> /\ Pushed(cq, cq', Cqe(res, b, 0, FALSE))
      BY Zenon, <1>2, <2>1, <2>2, PushBack
    <2> QED
      BY Zenon, <1>2, <2>1, <2>3, PostKeepsShape
  <1>3. CASE KernelNoBufs
    <2>1. QueueShape' /\ cq' # <<>>
      BY Zenon, <1>2, <1>3 DEF KernelNoBufs
    <2> QED
      BY Zenon, <1>3, <2>1 DEF KernelNoBufs, objVars, userVars, ErrorIsFinal, FreesAfterError,
           LiveIsServed
  <1>4. ASSUME NEW res \in {"eof", "failed"}, KernelEnds(res) PROVE Course'
    <2>1. avail # <<>> => Head(avail) \in Buffers
      BY Zenon, PopFront DEF TypeOK
    <2>2. QueueShape' /\ cq' # <<>>
      BY Zenon, <1>2, <1>4, <2>1 DEF KernelEnds
    <2> QED
      BY Zenon, <1>4, <2>2 DEF KernelEnds, objVars, userVars, ErrorIsFinal, FreesAfterError, LiveIsServed
  <1>5. CASE RequestStop
    BY Zenon, <1>5 DEF RequestStop, objVars, kernVars, QueueShape, ErrorIsFinal, FreesAfterError,
         LiveIsServed
  <1>6. CASE Complete
    <2> DEFINE e == Head(cq)
    <2>1. cq # <<>> /\ cq' = Tail(cq) /\ UNCHANGED stop /\ waiter' = FALSE
      BY Zenon, <1>6 DEF Complete, userVars
    <2>2. e \in Cqes /\ Popped(cq, cq', e) /\ (cq' = <<>> <=> Len(cq) = 1)
      BY Zenon, <2>1, PopFront DEF TypeOK
    <2>3. e.res # "data" => ~e.more
      BY <2>2 DEF QueueShape, Popped
    <2>4. e.res # "live"
      BY Zenon, <2>2 DEF Cqes
    <2> HIDE DEF e
    <2>5. /\ error' = IF e.res = "data" THEN error ELSE e.res
          /\ IF ~e.more /\ e.res = "data" THEN Arm ELSE UNCHANGED <<sqe, ring_full>>
          /\ pc' \in {"free", "gone"} => pc \in {"free", "gone"}
      BY Zenon, <1>6 DEF Complete, HasData, MustRearm, e, Woken
    <2>6. /\ QueueShape'
          /\ ~e.more => cq' = <<>> /\ sqe = "off"
          /\ e.more /\ cq' = <<>> => sqe = "armed"
      BY Zenon, <2>2, <2>5, DrainKeepsShape
    <2>7. ErrorIsFinal'
      <3>1. CASE e.res = "data"
        BY Zenon, <3>1, <2>1, <2>5, <2>6 DEF ErrorIsFinal
      <3>2. CASE e.res # "data"
        BY Zenon, <3>2, <2>3, <2>5, <2>6 DEF ErrorIsFinal
      <3> QED
        BY Zenon, <3>1, <3>2
    <2>8. FreesAfterError'
      BY Zenon, <2>4, <2>5 DEF FreesAfterError
    <2>9. LiveIsServed'
      <3>1. CASE e.res # "data"
        BY Zenon, <3>1, <2>1, <2>4, <2>5 DEF LiveIsServed
      <3>2. CASE e.res = "data" /\ e.more
        BY Zenon, <3>2, <2>1, <2>5, <2>6 DEF LiveIsServed
      <3>3. CASE e.res = "data" /\ ~e.more
        BY <3>3, <2>1, <2>5, RecvAssumption DEF LiveIsServed, Arm, TypeOK
      <3> QED
        BY Zenon, <3>1, <3>2, <3>3
    <2> QED
      BY Zenon, <2>6, <2>7, <2>8, <2>9
  <1>7. CASE NextItem \/ LoopItem \/ NextEnds \/ NextWaits \/ DestructorFrees
             \/ \E h \in held : ReleaseBuffer(h)
    <2>1. /\ UNCHANGED <<cq, sqe, stop, error, ring_full>>
          /\ waiter' => error = "live" /\ pc' \in {"wait", "loop_wait"}
      BY <1>7 DEF NextItem, LoopItem, NextEnds, NextWaits, DestructorFrees, ReleaseBuffer,
           objVars, userVars, kernVars, LiveIsServed
    <2>2. pc' \in {"free", "gone"} => error # "live"
      BY Zenon, <1>7 DEF NextItem, LoopItem, NextEnds, NextWaits, DestructorFrees, ReleaseBuffer,
           objVars, userVars, kernVars, FreesAfterError
    <2>3. QueueShape' /\ ErrorIsFinal'
      BY Zenon, <2>1 DEF QueueShape, ErrorIsFinal
    <2>4. LiveIsServed'
      BY Zenon, <2>1 DEF LiveIsServed
    <2> QED
      BY Zenon, <2>1, <2>2, <2>3, <2>4 DEF FreesAfterError
  <1>8. CASE NextStopped
    <2>1. UNCHANGED <<cq, sqe, stop, waiter, ring_full>> /\ stop /\ error' = "cancelled"
      BY Zenon, <1>8 DEF NextStopped, userVars, kernVars
    <2>2. QueueShape'
      BY Zenon, <2>1 DEF QueueShape
    <2>3. ~waiter
      BY Zenon, <1>8 DEF NextStopped, LiveIsServed
    <2> QED
      BY Zenon, <2>1, <2>2, <2>3 DEF ErrorIsFinal, FreesAfterError, LiveIsServed
  <1>9. CASE DestructorStarts
    <2>1. CASE error = "live"
      <3>1. SubmitCancel /\ pc' = "loop" /\ UNCHANGED <<error, waiter, stop>> /\ ~waiter
        BY Zenon, <1>9, <2>1 DEF DestructorStarts, userVars, LiveIsServed
      <3>2. CASE sqe = "armed" /\ sqe' = "off" /\ cq' = Append(cq, Cqe("cancelled", 0, 0, FALSE))
        <4>1. QueueShape' /\ cq' # <<>>
          BY Zenon, <1>2, <3>2
        <4> QED
          BY Zenon, <2>1, <3>1, <4>1 DEF ErrorIsFinal, FreesAfterError, LiveIsServed
      <3>3. CASE UNCHANGED <<sqe, cq>> /\ (UNCHANGED ring_full \/ ring_full' = ring_full - 1)
        <4>1. ring_full' = MaxRingFull => ring_full = MaxRingFull
          BY <3>3, RecvAssumption DEF TypeOK
        <4>2. QueueShape'
          BY Zenon, <3>3 DEF QueueShape
        <4> QED
          BY Zenon, <2>1, <3>1, <3>3, <4>1, <4>2 DEF ErrorIsFinal, FreesAfterError, LiveIsServed
      <3> QED
        BY Zenon, <3>1, <3>2, <3>3 DEF SubmitCancel
    <2>2. CASE error # "live"
      <3>1. UNCHANGED <<error, waiter, stop, sqe, cq, ring_full>> /\ ~waiter
        BY Zenon, <1>9, <2>2 DEF DestructorStarts, userVars, LiveIsServed
      <3>2. QueueShape'
        BY Zenon, <3>1 DEF QueueShape
      <3> QED
        BY Zenon, <2>2, <3>1, <3>2 DEF ErrorIsFinal, FreesAfterError, LiveIsServed
    <2> QED
      BY Zenon, <2>1, <2>2
  <1>10. CASE UNCHANGED vars
    BY Zenon, <1>10 DEF vars, QueueShape, ErrorIsFinal, FreesAfterError, LiveIsServed
  <1> QED
    BY Zenon, <1>1, <1>3, <1>4, <1>5, <1>6, <1>7, <1>8, <1>9, <1>10 DEF Next, Kernel, Fiber

-----------------------------------------------------------------------------
(***************************************************************************)
(* What a step does to the queues: the kernel fills a buffer or ends the   *)
(* receive, complete() queues data or drops an end, next() gives an item   *)
(* to the user or to the destructor's loop, a buffer is released, or the   *)
(* destructor empties pending_.                                            *)
(***************************************************************************)
Streaming == pc \in {"body", "wait", "resume"}
Fills(e) ==
    /\ Pushed(cq, cq', e) /\ Popped(avail, avail', e.buf) /\ sqe = "armed"
    /\ e.res = "data" /\ e.msg = sent + 1 /\ sent' = sent + 1
    /\ UNCHANGED <<pending, held, got>>
Ends(e) ==
    /\ Pushed(cq, cq', e) /\ e.res # "data" /\ sqe = "armed"
    /\ (e.buf = 0 /\ UNCHANGED avail) \/ Popped(avail, avail', e.buf)
    /\ UNCHANGED <<pending, held, got, sent>>
Queues(e, x) ==
    /\ Popped(cq, cq', e) /\ e.res = "data"
    /\ Pushed(pending, pending', x) /\ x.buf = e.buf /\ x.msg = e.msg
    /\ UNCHANGED <<avail, held, got, sent>>
Drops(e) ==
    /\ Popped(cq, cq', e) /\ e.res # "data"
    /\ (e.buf = 0 /\ UNCHANGED avail) \/ (e.buf # 0 /\ Pushed(avail, avail', e.buf))
    /\ UNCHANGED <<pending, held, got, sent>>
Gives(x) ==
    /\ Popped(pending, pending', x) /\ held' = held \cup {x} /\ got' = x.msg
    /\ UNCHANGED <<avail, cq, sent>>
Loops(x) ==
    /\ Popped(pending, pending', x) /\ Pushed(avail, avail', x.buf) /\ ~Streaming'
    /\ UNCHANGED <<cq, held, got, sent>>
Releases(h) ==
    /\ h \in held /\ held' = held \ {h} /\ Pushed(avail, avail', h.buf)
    /\ UNCHANGED <<cq, pending, got, sent>>
Empties ==
    /\ Len(pending') = 0 /\ Len(avail') = Len(avail) + Len(pending)
    /\ \A i \in 1..Len(avail) : avail'[i] = avail[i]
    /\ \A i \in 1..Len(pending) : avail'[Len(avail) + i] = pending[i].buf
    /\ UNCHANGED cq \/ \E e \in Cqes : e.buf = 0 /\ Pushed(cq, cq', e)
    /\ ~Streaming' /\ UNCHANGED held
Stays == UNCHANGED <<avail, cq, pending, held, got, sent>>

(* Every step has one of these effects. *)
LEMMA Effects ==
    ASSUME TypeOK, [Next]_vars
    PROVE  /\ Streaming' => Streaming
           /\ \/ \E e \in Cqes : Fills(e) \/ Ends(e) \/ Drops(e)
              \/ \E e \in Cqes : \E x : Queues(e, x)
              \/ \E x \in Items : Gives(x) \/ Loops(x) \/ Releases(x)
              \/ Empties \/ Stays
  <1>0. cq \in Seq(Cqes) /\ avail \in Seq(Buffers) /\ pending \in Seq(Items) /\ held \subseteq Items
    BY Zenon DEF TypeOK
  <1>1. ASSUME NEW more \in BOOLEAN, KernelData(more)
        PROVE  (Streaming' => Streaming) /\ \E e \in Cqes : Fills(e)
    <2> DEFINE e == Cqe("data", Head(avail), sent + 1, more)
    <2>1. Head(avail) \in Buffers /\ Popped(avail, avail', Head(avail))
      BY Zenon, <1>0, <1>1, PopFront DEF KernelData
    <2>2. sent + 1 \in 0..MaxMessages
      BY <1>1, RecvAssumption DEF KernelData, TypeOK
    <2>3. e \in Cqes /\ e.res = "data" /\ e.buf = Head(avail) /\ e.msg = sent + 1
      BY <2>1, <2>2, CqeType
    <2>4. cq' = Append(cq, e)
      BY Zenon, <1>1 DEF KernelData
    <2> HIDE DEF e
    <2>5. Pushed(cq, cq', e)
      BY Zenon, <1>0, <2>3, <2>4, PushBack
    <2>6. Fills(e)
      BY Zenon, <1>1, <2>1, <2>3, <2>5 DEF KernelData, Fills, objVars, userVars
    <2>7. Streaming' => Streaming
      BY Zenon, <1>1 DEF KernelData, Streaming
    <2> QED
      BY Zenon, <2>3, <2>6, <2>7
  <1>2. ASSUME NEW res \in {"eof", "nobufs", "cancelled", "failed"}, NEW b \in Buffers \cup {0},
               cq' = Append(cq, Cqe(res, b, 0, FALSE))
        PROVE  \E e \in Cqes : Pushed(cq, cq', e) /\ e.res # "data" /\ e.buf = b
    <2>1. /\ Cqe(res, b, 0, FALSE) \in Cqes /\ Cqe(res, b, 0, FALSE).res # "data"
          /\ Cqe(res, b, 0, FALSE).buf = b
      BY ZenonT(60), EndType
    <2> QED
      BY Zenon, <1>0, <1>2, <2>1, PushBack
  <1>3. CASE KernelNoBufs
    <2>1. PICK e \in Cqes : Pushed(cq, cq', e) /\ e.res # "data" /\ e.buf = 0
      BY Zenon, <1>2, <1>3 DEF KernelNoBufs
    <2>2. Ends(e)
      BY Zenon, <1>3, <2>1 DEF KernelNoBufs, Ends, objVars, userVars
    <2> QED
      BY Zenon, <1>3, <2>2 DEF KernelNoBufs, Streaming
  <1>4. ASSUME NEW res \in {"eof", "failed"}, KernelEnds(res)
        PROVE  (Streaming' => Streaming) /\ \E e \in Cqes : Ends(e)
    <2>1. sqe = "armed" /\ UNCHANGED <<pending, held, got, sent>> /\ (Streaming' => Streaming)
      BY Zenon, <1>4 DEF KernelEnds, objVars, userVars, Streaming
    <2>2. CASE cq' = Append(cq, Cqe(res, 0, 0, FALSE)) /\ UNCHANGED avail
      <3>1. PICK e \in Cqes : Pushed(cq, cq', e) /\ e.res # "data" /\ e.buf = 0
        BY Zenon, <1>2, <2>2
      <3> QED
        BY Zenon, <2>1, <2>2, <3>1 DEF Ends
    <2>3. CASE avail # <<>> /\ cq' = Append(cq, Cqe(res, Head(avail), 0, FALSE))
               /\ avail' = Tail(avail)
      <3>1. Head(avail) \in Buffers /\ Popped(avail, avail', Head(avail))
        BY Zenon, <1>0, <2>3, PopFront
      <3>2. PICK e \in Cqes : Pushed(cq, cq', e) /\ e.res # "data" /\ e.buf = Head(avail)
        BY Zenon, <1>2, <2>3, <3>1
      <3> QED
        BY Zenon, <2>1, <3>1, <3>2 DEF Ends
    <2> QED
      BY Zenon, <1>4, <2>2, <2>3 DEF KernelEnds
  <1>5. CASE Complete
    <2> DEFINE e == Head(cq)
               x == [buf |-> e.buf, msg |-> e.msg]
    <2>1. e \in Cqes /\ Popped(cq, cq', e)
      BY Zenon, <1>0, <1>5, PopFront DEF Complete
    <2>2. UNCHANGED <<held, got, sent>> /\ (Streaming' => Streaming)
      BY Zenon, <1>5 DEF Complete, userVars, Streaming, Woken
    <2> HIDE DEF e
    <2>3. /\ pending' = IF e.res = "data" THEN Append(pending, x) ELSE pending
          /\ avail' = IF e.res # "data" /\ e.buf # 0 THEN Append(avail, e.buf) ELSE avail
      BY Zenon, <1>5 DEF Complete, HasData, Queued, Returned, e
    <2>4. CASE e.res = "data"
      <3>1. pending' = Append(pending, x)
        BY Zenon, <2>3, <2>4
      <3>2. pending \in Seq(Items \cup {x})
        BY <1>0
      <3>3. Pushed(pending, pending', x)
        BY Zenon, <3>1, <3>2, PushBack
      <3>4. x.buf = e.buf /\ x.msg = e.msg
        BY Zenon
      <3> HIDE DEF x
      <3>5. Queues(e, x)
        BY Zenon, <2>1, <2>2, <2>3, <2>4, <3>3, <3>4 DEF Queues
      <3> QED
        BY Zenon, <2>1, <2>2, <3>5
    <2>5. CASE e.res # "data"
      <3>1. (e.buf = 0 /\ UNCHANGED avail) \/ (e.buf # 0 /\ Pushed(avail, avail', e.buf))
        <4>1. CASE e.buf = 0
          <5>1. avail' = avail
            BY Zenon, <1>5, <4>1 DEF Complete, Returned, e
          <5> QED
            BY Zenon, <4>1, <5>1
        <4>2. CASE e.buf # 0
          <5>1. e.buf \in Buffers
            BY Zenon, <2>1, <4>2 DEF Cqes
          <5> QED
            BY Zenon, <1>0, <2>3, <2>5, <4>2, <5>1, PushBack
        <4> QED
          BY Zenon, <4>1, <4>2
      <3>2. Drops(e)
        BY Zenon, <2>1, <2>2, <2>3, <2>5, <3>1 DEF Drops
      <3> QED
        BY Zenon, <2>1, <2>2, <3>2
    <2> QED
      BY Zenon, <2>4, <2>5
  <1>6. CASE NextItem
    <2>1. Head(pending) \in Items /\ Popped(pending, pending', Head(pending))
      BY Zenon, <1>0, <1>6, PopFront DEF NextItem
    <2>2. Gives(Head(pending)) /\ (Streaming' => Streaming)
      BY Zenon, <1>6, <2>1 DEF NextItem, Gives, kernVars, Streaming
    <2> QED
      BY Zenon, <2>1, <2>2
  <1>7. CASE LoopItem
    <2>1. Head(pending) \in Items /\ Popped(pending, pending', Head(pending))
      BY Zenon, <1>0, <1>7, PopFront DEF LoopItem
    <2>2. Head(pending).buf \in Buffers
      BY Zenon, <2>1 DEF Items
    <2>3. Pushed(avail, avail', Head(pending).buf)
      BY Zenon, <1>0, <1>7, <2>2, PushBack DEF LoopItem
    <2>4. Loops(Head(pending)) /\ ~Streaming'
      BY Zenon, <1>7, <2>1, <2>3 DEF LoopItem, Loops, userVars, Streaming
    <2> QED
      BY Zenon, <2>1, <2>4
  <1>8. ASSUME NEW h \in held, ReleaseBuffer(h)
        PROVE  (Streaming' => Streaming) /\ h \in Items /\ Releases(h)
    <2>1. h \in Items /\ h.buf \in Buffers
      BY Zenon, <1>0 DEF Items
    <2>2. Pushed(avail, avail', h.buf)
      BY Zenon, <1>0, <1>8, <2>1, PushBack DEF ReleaseBuffer
    <2> QED
      BY Zenon, <1>8, <2>1, <2>2 DEF ReleaseBuffer, Releases, objVars, Streaming
  <1>9. CASE DestructorStarts
    <2>1. /\ avail' = avail \o [i \in DOMAIN pending |-> pending[i].buf]
          /\ pending' = <<>> /\ UNCHANGED held
      BY Zenon, <1>9 DEF DestructorStarts, userVars
    <2>2. /\ Len(avail') = Len(avail) + Len(pending)
          /\ \A i \in 1..Len(avail) : avail'[i] = avail[i]
          /\ \A i \in 1..Len(pending) : avail'[Len(avail) + i] = pending[i].buf
      BY Zenon, <2>1, ReturnAll
    <2>3. UNCHANGED cq \/ \E e \in Cqes : e.buf = 0 /\ Pushed(cq, cq', e)
      <3>1. UNCHANGED cq \/ cq' = Append(cq, Cqe("cancelled", 0, 0, FALSE))
        BY Zenon, <1>9 DEF DestructorStarts, SubmitCancel
      <3> QED
        BY Zenon, <1>2, <3>1
    <2>4. ~Streaming'
      BY Zenon, <1>9 DEF DestructorStarts, Streaming
    <2>5. Len(pending') = 0
      BY Zenon, <2>1
    <2> QED
      BY Zenon, <2>1, <2>2, <2>3, <2>4, <2>5 DEF Empties
  <1>10. CASE RequestStop \/ NextEnds \/ NextStopped \/ NextWaits \/ DestructorFrees
              \/ UNCHANGED vars
    <2>1. Stays
      BY Zenon, <1>10 DEF RequestStop, NextEnds, NextStopped, NextWaits, DestructorFrees, vars, Stays,
           objVars, userVars, kernVars
    <2>2. Streaming' => Streaming
      BY Zenon, <1>10 DEF RequestStop, NextEnds, NextStopped, NextWaits, DestructorFrees, vars, Streaming
    <2> QED
      BY Zenon, <2>1, <2>2
  <1> QED
    BY Zenon, <1>1, <1>3, <1>4, <1>5, <1>6, <1>7, <1>8, <1>9, <1>10 DEF Next, Kernel, Fiber

(* Only the last completion is not data, so data keeps its number when the *)
(* completion before it is drained, and an end changes no count.           *)
LEMMA NumberedStep ==
    ASSUME TypeOK, QueueShape, Numbered, [Next]_vars
    PROVE  Numbered'
  <1> SUFFICES ASSUME Streaming'
               PROVE  /\ \A i \in 1..Len(pending') : pending'[i].msg = got' + i
                      /\ \A i \in 1..Len(cq') :
                            cq'[i].res = "data" => cq'[i].msg = got' + Len(pending') + i
                      /\ sent' = got' + Len(pending') + Len(cq')
                                 - (IF EndsWithError' THEN 1 ELSE 0)
    BY Zenon DEF Numbered, Streaming
  <1>1. Streaming
    BY Zenon, Effects
  <1>2. /\ \A i \in 1..Len(pending) : pending[i].msg = got + i
        /\ \A i \in 1..Len(cq) : cq[i].res = "data" => cq[i].msg = got + Len(pending) + i
        /\ sent = got + Len(pending) + Len(cq) - (IF EndsWithError THEN 1 ELSE 0)
    BY Zenon, <1>1 DEF Numbered, Streaming
  <1>3. Len(cq) \in Nat /\ Len(pending) \in Nat /\ got \in Nat /\ sent \in Nat
    BY Elements DEF TypeOK
  <1>4. ASSUME NEW e \in Cqes, Pushed(cq, cq', e), sqe = "armed"
        PROVE  /\ ~EndsWithError /\ (EndsWithError' <=> e.res # "data")
               /\ Len(cq') = Len(cq) + 1
               /\ \A i \in 1..Len(cq') : \/ i = Len(cq) + 1 /\ cq'[i] = e
                                         \/ i \in 1..Len(cq) /\ cq'[i] = cq[i]
    <2>1. Len(cq') = Len(cq) + 1 /\ cq'[Len(cq) + 1] = e
      BY Zenon, <1>4 DEF Pushed
    <2>2. ~EndsWithError
      BY Zenon, <1>4 DEF EndsWithError, QueueShape
    <2>3. Len(cq) + 1 \in 1..Len(cq')
      BY <1>3, <2>1
    <2>4. EndsWithError' <=> e.res # "data"
      BY Zenon, <2>1, <2>3 DEF EndsWithError
    <2>5. ASSUME NEW i \in 1..Len(cq')
          PROVE  (i = Len(cq) + 1 /\ cq'[i] = e) \/ (i \in 1..Len(cq) /\ cq'[i] = cq[i])
      <3>1. i = Len(cq) + 1 \/ i \in 1..Len(cq)
        BY <1>3, <2>1
      <3> QED
        BY Zenon, <1>4, <3>1 DEF Pushed
    <2> QED
      BY Zenon, <2>1, <2>2, <2>4, <2>5
  <1>5. ASSUME NEW e \in Cqes, Fills(e) PROVE Numbered'
    <2>1. /\ sent' = sent + 1 /\ e.res = "data" /\ e.msg = sent + 1 /\ UNCHANGED <<pending, got>>
          /\ Pushed(cq, cq', e) /\ sqe = "armed"
      BY Zenon, <1>5 DEF Fills
    <2>2. e.msg = got + Len(pending) + Len(cq) + 1
      BY <1>2, <1>3, <1>4, <2>1
    <2>3. ASSUME NEW i \in 1..Len(cq'), cq'[i].res = "data"
          PROVE  cq'[i].msg = got' + Len(pending') + i
      <3>1. CASE i = Len(cq) + 1 /\ cq'[i] = e
        BY <1>3, <2>1, <2>2, <3>1
      <3>2. CASE i \in 1..Len(cq) /\ cq'[i] = cq[i]
        BY Zenon, <1>2, <2>1, <2>3, <3>2
      <3> QED
        BY Zenon, <1>4, <2>1, <3>1, <3>2
    <2>4. sent' = got' + Len(pending') + Len(cq') - (IF EndsWithError' THEN 1 ELSE 0)
      BY <1>2, <1>3, <1>4, <2>1
    <2> QED
      BY Zenon, <1>2, <2>1, <2>3, <2>4 DEF Numbered
  <1>6. ASSUME NEW e \in Cqes, Ends(e) PROVE Numbered'
    <2>1. /\ UNCHANGED <<pending, got, sent>> /\ Pushed(cq, cq', e) /\ e.res # "data"
          /\ sqe = "armed"
      BY Zenon, <1>6 DEF Ends
    <2>2. ASSUME NEW i \in 1..Len(cq'), cq'[i].res = "data"
          PROVE  cq'[i].msg = got' + Len(pending') + i
      BY Zenon, <1>2, <1>4, <2>1, <2>2
    <2>3. sent' = got' + Len(pending') + Len(cq') - (IF EndsWithError' THEN 1 ELSE 0)
      BY <1>2, <1>3, <1>4, <2>1
    <2> QED
      BY Zenon, <1>2, <2>1, <2>2, <2>3 DEF Numbered
  <1>7. ASSUME NEW e \in Cqes, Popped(cq, cq', e)
        PROVE  /\ Len(cq') = Len(cq) - 1
               /\ \A i \in 1..Len(cq') : i + 1 \in 1..Len(cq) /\ cq'[i] = cq[i + 1]
               /\ e.res = "data" => (EndsWithError' <=> EndsWithError)
               /\ e.res # "data" => EndsWithError /\ ~EndsWithError' /\ Len(cq') = 0
    <2>1. Len(cq) \in Nat \ {0} /\ Len(cq') = Len(cq) - 1 /\ e = cq[1] /\ 1 \in 1..Len(cq)
      BY <1>7 DEF Popped
    <2>2. ASSUME NEW i \in 1..Len(cq')
          PROVE  i + 1 \in 1..Len(cq) /\ (i + 1 = Len(cq) <=> i = Len(cq'))
                 /\ cq'[i] = cq[i + 1]
      <3>1. i + 1 \in 1..Len(cq) /\ (i + 1 = Len(cq) <=> i = Len(cq'))
        BY <2>1
      <3> QED
        BY Zenon, <1>7, <3>1 DEF Popped
    <2>3. CASE e.res # "data"
      <3>1. Len(cq) = 1
        BY Zenon, <2>1, <2>3 DEF QueueShape
      <3> QED
        BY <2>1, <2>2, <2>3, <3>1 DEF EndsWithError
    <2>4. CASE e.res = "data"
      <3>1. EndsWithError' => EndsWithError
        BY <2>2 DEF EndsWithError
      <3>2. ASSUME EndsWithError PROVE EndsWithError'
        <4>1. Len(cq) \in 1..Len(cq) /\ cq[Len(cq)].res # "data"
          BY Zenon, <2>1, <3>2 DEF EndsWithError
        <4>2. Len(cq) # 1
          BY Zenon, <2>1, <2>4, <4>1
        <4>3. Len(cq') \in 1..Len(cq') /\ Len(cq') + 1 = Len(cq)
          BY <2>1, <4>2
        <4>4. cq'[Len(cq')] = cq[Len(cq)]
          BY Zenon, <2>2, <4>3
        <4> QED
          BY Zenon, <4>1, <4>3, <4>4 DEF EndsWithError
      <3> QED
        BY Zenon, <2>1, <2>2, <2>4, <3>1, <3>2
    <2> QED
      BY Zenon, <2>3, <2>4
  <1>8. ASSUME NEW e \in Cqes, Drops(e) PROVE Numbered'
    <2>1. /\ UNCHANGED <<pending, got, sent>> /\ Popped(cq, cq', e) /\ e.res # "data"
      BY Zenon, <1>8 DEF Drops
    <2>2. /\ Len(cq') = 0 /\ EndsWithError /\ ~EndsWithError'
          /\ Len(cq') = Len(cq) - 1
      BY Zenon, <1>7, <2>1
    <2>3. Len(cq) = 1
      BY <1>3, <2>2
    <2>4. sent' = got' + Len(pending') + Len(cq') - (IF EndsWithError' THEN 1 ELSE 0)
      BY <1>2, <1>3, <2>1, <2>2, <2>3
    <2> QED
      BY <1>2, <2>1, <2>2, <2>4 DEF Numbered
  <1>9. ASSUME NEW e \in Cqes, NEW x, Queues(e, x) PROVE Numbered'
    <2>1. /\ UNCHANGED <<got, sent>> /\ Popped(cq, cq', e) /\ e.res = "data"
          /\ Pushed(pending, pending', x) /\ x.msg = e.msg
      BY Zenon, <1>9 DEF Queues
    <2>2. Len(pending') = Len(pending) + 1 /\ Len(cq') = Len(cq) - 1 /\ Len(cq) # 0
      BY Zenon, <1>7, <2>1 DEF Pushed, Popped
    <2>3. x.msg = got + Len(pending) + 1
      <3>1. e = cq[1] /\ 1 \in 1..Len(cq)
        BY <2>1 DEF Popped
      <3> QED
        BY Zenon, <1>2, <2>1, <3>1
    <2>4. ASSUME NEW i \in 1..Len(pending') PROVE pending'[i].msg = got' + i
      <3>1. CASE i = Len(pending) + 1
        BY <1>3, <2>1, <2>3, <3>1 DEF Pushed
      <3>2. CASE i \in 1..Len(pending)
        BY Zenon, <1>2, <2>1, <3>2 DEF Pushed
      <3> QED
        BY <1>3, <2>2, <3>1, <3>2
    <2>5. ASSUME NEW i \in 1..Len(cq'), cq'[i].res = "data"
          PROVE  cq'[i].msg = got' + Len(pending') + i
      <3>1. i + 1 \in 1..Len(cq) /\ cq'[i] = cq[i + 1]
        BY Zenon, <1>7, <2>1
      <3>2. cq'[i].msg = got + Len(pending) + (i + 1)
        BY Zenon, <1>2, <2>5, <3>1
      <3>3. i \in Int /\ got' = got
        BY <2>1
      <3> QED
        BY <1>3, <2>2, <3>2, <3>3
    <2>6. sent' = got' + Len(pending') + Len(cq') - (IF EndsWithError' THEN 1 ELSE 0)
      BY SMTT(60), <1>2, <1>3, <1>7, <2>1, <2>2
    <2> QED
      BY Zenon, <2>4, <2>5, <2>6 DEF Numbered
  <1>10. ASSUME NEW x \in Items, Gives(x) PROVE Numbered'
    <2>1. /\ UNCHANGED <<cq, sent>> /\ Popped(pending, pending', x) /\ got' = x.msg
      BY Zenon, <1>10 DEF Gives
    <2>2. Len(pending') = Len(pending) - 1 /\ Len(pending) # 0 /\ got' = got + 1
      <3>1. x = pending[1] /\ 1 \in 1..Len(pending) /\ Len(pending') = Len(pending) - 1
        BY <2>1 DEF Popped
      <3> QED
        BY <1>2, <1>3, <2>1, <3>1
    <2>3. ASSUME NEW i \in 1..Len(pending') PROVE pending'[i].msg = got' + i
      <3>1. i + 1 \in 1..Len(pending) /\ pending'[i] = pending[i + 1]
        BY <1>3, <2>1, <2>2 DEF Popped
      <3>2. pending'[i].msg = got + (i + 1)
        BY Zenon, <1>2, <3>1
      <3> QED
        BY <1>3, <2>2, <3>2
    <2>4. EndsWithError' <=> EndsWithError
      BY Zenon, <2>1 DEF EndsWithError
    <2>5. ASSUME NEW i \in 1..Len(cq'), cq'[i].res = "data"
          PROVE  cq'[i].msg = got' + Len(pending') + i
      <3>1. cq'[i].msg = got + Len(pending) + i
        BY Zenon, <1>2, <2>1, <2>5
      <3> QED
        BY <1>3, <2>1, <2>2, <3>1
    <2>6. sent' = got' + Len(pending') + Len(cq') - (IF EndsWithError' THEN 1 ELSE 0)
      BY <1>2, <1>3, <2>1, <2>2, <2>4
    <2> QED
      BY Zenon, <2>3, <2>5, <2>6 DEF Numbered
  <1>11. ASSUME NEW x \in Items, Releases(x) PROVE Numbered'
    BY Zenon, <1>2, <1>11 DEF Releases, Numbered, EndsWithError
  <1>12. ASSUME Stays PROVE Numbered'
    BY Zenon, <1>2, <1>12 DEF Stays, Numbered, EndsWithError
  <1>13. ASSUME Empties \/ \E x \in Items : Loops(x) PROVE Numbered'
    BY Zenon, <1>13 DEF Empties, Loops
  <1>14. Numbered'
    BY Zenon, <1>5, <1>6, <1>8, <1>9, <1>10, <1>11, <1>12, <1>13, Effects
  <1> QED
    BY Zenon, <1>14 DEF Numbered, Streaming

-----------------------------------------------------------------------------
(* The buffers of a queue of items, in order. *)
LEMMA BufListLen ==
    ASSUME NEW s, Len(s) \in Nat
    PROVE  Len(BufList(s)) = Len(s) /\ \A i \in 1..Len(s) : BufList(s)[i] = s[i].buf
  BY DEF BufList

(* The buffers of a queue of items move with the items. *)
LEMMA BufListSteps ==
    ASSUME NEW s, NEW t, NEW e, Len(s) \in Nat
    PROVE  /\ Pushed(s, t, e) => Pushed(BufList(s), BufList(t), e.buf)
           /\ Popped(s, t, e) => Popped(BufList(s), BufList(t), e.buf)
  <1>1. Len(BufList(s)) = Len(s) /\ \A i \in 1..Len(s) : BufList(s)[i] = s[i].buf
    BY Zenon, BufListLen
  <1>2. ASSUME Pushed(s, t, e) PROVE Pushed(BufList(s), BufList(t), e.buf)
    <2>1. Len(t) = Len(s) + 1 /\ Len(t) \in Nat /\ t[Len(s) + 1] = e /\ Len(s) + 1 \in 1..Len(t)
          /\ \A i \in 1..Len(s) : i \in 1..Len(t) /\ t[i] = s[i]
      BY <1>2 DEF Pushed
    <2>2. Len(BufList(t)) = Len(t) /\ \A i \in 1..Len(t) : BufList(t)[i] = t[i].buf
      BY Zenon, <2>1, BufListLen
    <2> QED
      BY Zenon, <1>1, <2>1, <2>2 DEF Pushed
  <1>3. ASSUME Popped(s, t, e) PROVE Popped(BufList(s), BufList(t), e.buf)
    <2>1. /\ Len(s) \in Nat \ {0} /\ Len(t) = Len(s) - 1 /\ Len(t) \in Nat /\ s[1] = e
          /\ 1 \in 1..Len(s)
      BY <1>3 DEF Popped
    <2>2. \A i \in 1..Len(t) : i + 1 \in 1..Len(s) /\ t[i] = s[i + 1]
      BY <1>3, <2>1 DEF Popped
    <2>3. Len(BufList(t)) = Len(t) /\ \A i \in 1..Len(t) : BufList(t)[i] = t[i].buf
      BY Zenon, <2>1, BufListLen
    <2> QED
      BY Zenon, <1>1, <2>1, <2>2, <2>3 DEF Popped
  <1> QED
    BY Zenon, <1>2, <1>3

(* Each effect moves at most one buffer, from one place to another. *)
LEMMA PlacesStep ==
    ASSUME TypeOK, QueueShape, Places, [Next]_vars
    PROVE  Places'
  <1>0. Len(cq) \in Nat /\ Len(pending) \in Nat /\ Len(avail) \in Nat
    BY Zenon, Elements DEF TypeOK
  <1>1. /\ Distinct(avail) /\ Distinct(BufList(cq)) /\ Distinct(BufList(pending))
        /\ \A g, h \in held : g.buf = h.buf => g = h
    BY Zenon DEF Places
  <1>2. /\ InRing \cap InCq = {} /\ InRing \cap InQueue = {} /\ InRing \cap InUser = {}
        /\ InCq \cap InQueue = {} /\ InCq \cap InUser = {} /\ InQueue \cap InUser = {}
        /\ InRing \cup InCq \cup InQueue \cup InUser = Buffers
    BY Zenon DEF Places, Partition
  <1>3. 0 \notin Buffers /\ 0 \notin InRing /\ 0 \notin InCq /\ 0 \notin InQueue
    BY RecvAssumption DEF Buffers, InRing, InCq, InQueue, Listed
  <1>4. ASSUME NEW e \in Cqes, Pushed(cq, cq', e), e.buf = 0
        PROVE  Distinct(BufList(cq))' /\ InCq' = InCq
    <2>1. Pushed(BufList(cq), BufList(cq'), e.buf)
      BY Zenon, <1>0, <1>4, BufListSteps
    <2>2. e.buf \notin Listed(BufList(cq))
      BY Zenon, <1>4 DEF Listed
    <2>3. /\ Distinct(BufList(cq'))
          /\ Listed(BufList(cq')) = Listed(BufList(cq)) \cup ({e.buf} \ {0})
      BY Zenon, <1>1, <2>1, <2>2, PushListed
    <2> QED
      BY Zenon, <1>4, <2>3 DEF InCq
  <1>5. ASSUME NEW e \in Cqes, Pushed(cq, cq', e), Popped(avail, avail', e.buf),
               UNCHANGED <<pending, held>>
        PROVE  Places'
    <2>1. Distinct(avail)' /\ InRing' = InRing \ {e.buf} /\ (e.buf # 0 => e.buf \in InRing)
      BY Zenon, <1>1, <1>5, PopListed DEF InRing
    <2>2. Pushed(BufList(cq), BufList(cq'), e.buf)
      BY Zenon, <1>0, <1>5, BufListSteps
    <2>3. e.buf \notin Listed(BufList(cq))
      BY Zenon, <1>2, <1>3, <2>1 DEF InCq
    <2>4. Distinct(BufList(cq))' /\ InCq' = InCq \cup ({e.buf} \ {0})
      BY Zenon, <1>1, <2>2, <2>3, PushListed DEF InCq
    <2>5. UNCHANGED <<InQueue, InUser, pending, held>>
      BY Zenon, <1>5 DEF InQueue, InUser
    <2> QED
      <3>1. Partition(InRing, InCq, InQueue, InUser)'
        BY Zenon, <1>2, <1>3, <2>1, <2>4, <2>5 DEF Partition
      <3> QED
        BY Zenon, <1>1, <2>1, <2>4, <2>5, <3>1 DEF Places
  <1>6. ASSUME NEW e \in Cqes, Ends(e), e.buf = 0, UNCHANGED avail PROVE Places'
    <2>1. UNCHANGED <<avail, pending, held>> /\ Pushed(cq, cq', e)
      BY Zenon, <1>6 DEF Ends
    <2>2. Distinct(BufList(cq))' /\ InCq' = InCq
      BY Zenon, <1>4, <1>6, <2>1
    <2>3. UNCHANGED <<InRing, InQueue, InUser>>
      BY Zenon, <2>1 DEF InRing, InQueue, InUser
    <2> QED
      BY Zenon, <1>1, <1>2, <2>1, <2>2, <2>3 DEF Places, Partition
  <1>7. ASSUME NEW e \in Cqes, Fills(e) \/ Ends(e) PROVE Places'
    BY Zenon, <1>5, <1>6, <1>7 DEF Fills, Ends
  <1>8. ASSUME NEW e \in Cqes, Popped(cq, cq', e)
        PROVE  /\ Distinct(BufList(cq))' /\ InCq' = InCq \ {e.buf}
               /\ e.buf # 0 => e.buf \in InCq
    <2>1. Popped(BufList(cq), BufList(cq'), e.buf)
      BY Zenon, <1>0, <1>8, BufListSteps
    <2> QED
      BY Zenon, <1>1, <2>1, PopListed DEF InCq
  <1>9. ASSUME NEW e \in Cqes, NEW x, Queues(e, x) PROVE Places'
    <2>1. /\ Popped(cq, cq', e) /\ e.res = "data" /\ UNCHANGED <<avail, held>>
          /\ Pushed(pending, pending', x) /\ x.buf = e.buf
      BY Zenon, <1>9 DEF Queues
    <2>2. e.buf # 0
      BY <2>1 DEF QueueShape, Popped
    <2>3. Distinct(BufList(cq))' /\ InCq' = InCq \ {e.buf} /\ e.buf \in InCq
      BY Zenon, <1>8, <2>1, <2>2
    <2>4. Pushed(BufList(pending), BufList(pending'), e.buf)
      BY Zenon, <1>0, <2>1, BufListSteps
    <2>5. e.buf \notin Listed(BufList(pending))
      BY Zenon, <1>2, <2>3 DEF InQueue
    <2>6. Distinct(BufList(pending))' /\ InQueue' = InQueue \cup ({e.buf} \ {0})
      BY Zenon, <1>1, <2>4, <2>5, PushListed DEF InQueue
    <2>7. UNCHANGED <<InRing, InUser, avail, held>>
      BY Zenon, <2>1 DEF InRing, InUser
    <2> QED
      <3>1. Partition(InRing, InCq, InQueue, InUser)'
        BY Zenon, <1>2, <2>2, <2>3, <2>6, <2>7 DEF Partition
      <3> QED
        BY Zenon, <1>1, <2>3, <2>6, <2>7, <3>1 DEF Places
  <1>10. ASSUME NEW b, b \notin InRing, Pushed(avail, avail', b)
         PROVE  Distinct(avail)' /\ InRing' = InRing \cup ({b} \ {0})
    BY Zenon, <1>1, <1>10, PushListed DEF InRing
  <1>11. ASSUME NEW e \in Cqes, Drops(e) PROVE Places'
    <2>1. Popped(cq, cq', e) /\ UNCHANGED <<pending, held>>
      BY Zenon, <1>11 DEF Drops
    <2>2. /\ Distinct(BufList(cq))' /\ InCq' = InCq \ {e.buf}
          /\ e.buf # 0 => e.buf \in InCq
      BY Zenon, <1>8, <2>1
    <2>3. Distinct(avail)' /\ InRing' = InRing \cup ({e.buf} \ {0})
      <3>1. CASE e.buf = 0 /\ UNCHANGED avail
        BY Zenon, <1>1, <3>1 DEF InRing
      <3>2. CASE e.buf # 0 /\ Pushed(avail, avail', e.buf)
        BY Zenon, <1>2, <1>10, <2>2, <3>2
      <3> QED
        BY Zenon, <1>11, <3>1, <3>2 DEF Drops
    <2>4. UNCHANGED <<InQueue, InUser, pending, held>>
      BY Zenon, <2>1 DEF InQueue, InUser
    <2> QED
      <3>1. Partition(InRing, InCq, InQueue, InUser)'
        BY <1>2, <1>3, <2>2, <2>3, <2>4 DEF Partition
      <3> QED
        BY Zenon, <1>1, <2>2, <2>3, <2>4, <3>1 DEF Places
  <1>12. ASSUME NEW x \in Items, Popped(pending, pending', x)
         PROVE  /\ Distinct(BufList(pending))' /\ InQueue' = InQueue \ {x.buf}
                /\ x.buf \in InQueue /\ x.buf # 0
    <2>1. Popped(BufList(pending), BufList(pending'), x.buf)
      BY Zenon, <1>0, <1>12, BufListSteps
    <2>2. x.buf # 0
      BY Zenon, <1>3 DEF Items
    <2> QED
      BY Zenon, <1>1, <2>1, <2>2, PopListed DEF InQueue
  <1>13. ASSUME NEW x \in Items, Gives(x) PROVE Places'
    <2>1. Popped(pending, pending', x) /\ UNCHANGED <<avail, cq>> /\ held' = held \cup {x}
      BY Zenon, <1>13 DEF Gives
    <2>2. /\ Distinct(BufList(pending))' /\ InQueue' = InQueue \ {x.buf}
          /\ x.buf \in InQueue /\ x.buf # 0
      BY Zenon, <1>12, <2>1
    <2>3. InUser' = InUser \cup {x.buf} /\ x.buf \notin InUser
      BY Zenon, <1>2, <2>1, <2>2 DEF InUser
    <2>4. \A g, h \in held' : g.buf = h.buf => g = h
      BY <1>1, <2>1, <2>3 DEF InUser
    <2>5. UNCHANGED <<InRing, InCq, avail, cq>>
      BY Zenon, <2>1 DEF InRing, InCq
    <2> QED
      <3>1. Partition(InRing, InCq, InQueue, InUser)'
        BY Zenon, <1>2, <2>2, <2>3, <2>5 DEF Partition
      <3> QED
        BY Zenon, <1>1, <2>2, <2>4, <2>5, <3>1 DEF Places
  <1>14. ASSUME NEW x \in Items, Loops(x) PROVE Places'
    <2>1. Popped(pending, pending', x) /\ UNCHANGED <<held, cq>> /\ Pushed(avail, avail', x.buf)
      BY Zenon, <1>14 DEF Loops
    <2>2. /\ Distinct(BufList(pending))' /\ InQueue' = InQueue \ {x.buf}
          /\ x.buf \in InQueue /\ x.buf # 0
      BY Zenon, <1>12, <2>1
    <2>3. Distinct(avail)' /\ InRing' = InRing \cup {x.buf}
      BY Zenon, <1>2, <1>10, <2>1, <2>2
    <2>4. UNCHANGED <<InUser, InCq, held, cq>>
      BY Zenon, <2>1 DEF InUser, InCq
    <2> QED
      <3>1. Partition(InRing, InCq, InQueue, InUser)'
        BY Zenon, <1>2, <2>2, <2>3, <2>4 DEF Partition
      <3> QED
        BY Zenon, <1>1, <2>2, <2>3, <2>4, <3>1 DEF Places
  <1>15. ASSUME NEW h \in Items, Releases(h) PROVE Places'
    <2>1. /\ h \in held /\ held' = held \ {h} /\ Pushed(avail, avail', h.buf)
          /\ UNCHANGED <<cq, pending>>
      BY Zenon, <1>15 DEF Releases
    <2>2. h.buf \in InUser /\ InUser' = InUser \ {h.buf} /\ h.buf # 0
      BY Zenon, <1>1, <1>3, <2>1 DEF InUser, Items
    <2>3. Distinct(avail)' /\ InRing' = InRing \cup {h.buf}
      BY Zenon, <1>2, <1>10, <2>1, <2>2
    <2>4. UNCHANGED <<InQueue, InCq, pending, cq>>
      BY Zenon, <2>1 DEF InQueue, InCq
    <2> QED
      <3>1. Partition(InRing, InCq, InQueue, InUser)'
        BY Zenon, <1>2, <2>2, <2>3, <2>4 DEF Partition
      <3> QED
        BY Zenon, <1>1, <2>1, <2>3, <2>4, <3>1 DEF Places
  <1>16. ASSUME Empties PROVE Places'
    <2>1. /\ Len(avail') = Len(avail) + Len(pending) /\ UNCHANGED held
          /\ \A i \in 1..Len(avail) : avail'[i] = avail[i]
          /\ \A i \in 1..Len(pending) : avail'[Len(avail) + i] = pending[i].buf
      BY Zenon, <1>16 DEF Empties
    <2>2. Distinct(BufList(cq))' /\ InCq' = InCq
      <3>1. CASE UNCHANGED cq
        BY Zenon, <1>1, <3>1 DEF InCq
      <3> QED
        BY Zenon, <1>4, <1>16, <3>1 DEF Empties
    <2>3. Distinct(BufList(pending))' /\ InQueue' = {}
      <3>1. Len(pending') = 0
        BY Zenon, <1>16 DEF Empties
      <3>2. Len(BufList(pending')) = 0
        BY <3>1, BufListLen
      <3> QED
        BY <3>2 DEF Distinct, InQueue, Listed
    <2>4. ASSUME NEW i \in 1..Len(avail')
          PROVE  \/ i \in 1..Len(avail) /\ avail'[i] = avail[i]
                 \/ /\ i - Len(avail) \in 1..Len(pending) /\ i \in Int
                    /\ avail'[i] = BufList(pending)[i - Len(avail)]
      <3>1. CASE i <= Len(avail)
        BY <1>0, <2>1, <3>1
      <3>2. CASE ~(i <= Len(avail))
        <4>1. i - Len(avail) \in 1..Len(pending) /\ Len(avail) + (i - Len(avail)) = i /\ i \in Int
          BY <1>0, <2>1, <3>2
        <4>2. avail'[i] = pending[i - Len(avail)].buf
          BY Zenon, <2>1, <4>1
        <4> QED
          BY Zenon, <4>1, <4>2 DEF BufList
      <3> QED
        BY Zenon, <3>1, <3>2
    <2>5. Len(BufList(pending)) = Len(pending)
      BY Zenon, <1>0, BufListLen
    <2>6. InRing' \subseteq InRing \cup InQueue
      BY Zenon, <2>4, <2>5 DEF InRing, InQueue, Listed
    <2>7. InRing \cup InQueue \subseteq InRing'
      <3>1. InRing \subseteq InRing'
        BY <1>0, <2>1 DEF InRing, Listed
      <3>2. \A i \in 1..Len(pending) : /\ Len(avail) + i \in 1..Len(avail')
                                       /\ avail'[Len(avail) + i] = BufList(pending)[i]
        BY <1>0, <2>1 DEF BufList
      <3>3. InQueue \subseteq InRing'
        BY Zenon, <2>5, <3>2 DEF InRing, InQueue, Listed
      <3> QED
        BY Zenon, <3>1, <3>3
    <2>8. Distinct(avail)'
      <3> SUFFICES ASSUME NEW i \in 1..Len(avail'), NEW j \in 1..Len(avail'),
                          avail'[i] # 0, avail'[i] = avail'[j]
                   PROVE  i = j
        BY Zenon DEF Distinct
      <3>1. CASE i \in 1..Len(avail) /\ avail'[i] = avail[i]
        <4>1. avail'[i] \in InRing /\ avail'[i] \notin InQueue
          BY Zenon, <1>2, <3>1 DEF InRing, Listed
        <4>2. j \in 1..Len(avail) /\ avail'[j] = avail[j]
          BY Zenon, <2>4, <2>5, <4>1 DEF InQueue, Listed
        <4> QED
          BY Zenon, <1>1, <3>1, <4>2 DEF Distinct
      <3>2. CASE /\ i - Len(avail) \in 1..Len(pending) /\ i \in Int
                 /\ avail'[i] = BufList(pending)[i - Len(avail)]
        <4>1. avail'[i] \in InQueue /\ avail'[i] \notin InRing
          BY Zenon, <1>2, <2>5, <3>2 DEF InQueue, Listed
        <4>2. /\ j - Len(avail) \in 1..Len(pending) /\ j \in Int
              /\ avail'[j] = BufList(pending)[j - Len(avail)]
          BY Zenon, <2>4, <4>1 DEF InRing, Listed
        <4>3. i - Len(avail) = j - Len(avail)
          BY Zenon, <1>1, <2>5, <3>2, <4>2 DEF Distinct
        <4> QED
          BY <1>0, <3>2, <4>2, <4>3
      <3> QED
        BY Zenon, <2>4, <3>1, <3>2
    <2>9. InUser' = InUser
      BY Zenon, <2>1 DEF InUser
    <2> QED
      <3>1. Partition(InRing, InCq, InQueue, InUser)'
        BY Zenon, <1>2, <2>2, <2>3, <2>6, <2>7, <2>9 DEF Partition
      <3> QED
        BY Zenon, <1>1, <2>1, <2>2, <2>3, <2>8, <3>1 DEF Places
  <1>17. ASSUME Stays PROVE Places'
    BY Zenon, <1>17 DEF Stays, Places, InRing, InCq, InQueue, InUser
  <1> QED
    BY Zenon, <1>7, <1>9, <1>11, <1>13, <1>14, <1>15, <1>16, <1>17, Effects

-----------------------------------------------------------------------------
(* The state after the constructor: all buffers are in the ring, in order. *)
LEMMA InitInvariant == Init => IInv
  <1> SUFFICES ASSUME Init PROVE IInv
    BY Zenon
  <1>1. avail \in Seq(Buffers) /\ Len(avail) = BufCount /\ \A i \in 1..BufCount : avail[i] = i
    <2>1. avail = [i \in 1..BufCount |-> i] /\ BufCount \in Nat
      BY Zenon, RecvAssumption DEF Init, Buffers
    <2>2. \A i \in 1..BufCount : avail[i] = i
      BY Zenon, <2>1
    <2>3. avail \in [1..BufCount -> Buffers]
      BY Zenon, <2>1 DEF Buffers
    <2>4. avail \in Seq(Buffers)
      BY <2>1, <2>3
    <2>5. Len(avail) = BufCount
      BY <2>1, <2>3, <2>4
    <2> QED
      BY Zenon, <2>2, <2>4, <2>5
  <1>2. TypeOK
    <2>1. pending \in Seq(Items) /\ cq \in Seq(Cqes)
      BY DEF Init
    <2>2. /\ got \in 0..MaxMessages /\ sent \in 0..MaxMessages
          /\ ring_full \in 0..MaxRingFull /\ held \subseteq Items
      BY RecvAssumption DEF Init
    <2> QED
      BY Zenon, <1>1, <2>1, <2>2 DEF TypeOK, Init
  <1> USE RecvAssumption DEF Init
  <1>3. Len(cq) = 0 /\ Len(pending) = 0
    BY Zenon
  <1>4. Course /\ Numbered
    BY <1>3 DEF Course, QueueShape, ErrorIsFinal, FreesAfterError, LiveIsServed, Numbered,
         EndsWithError
  <1>5. Distinct(avail) /\ InRing = Buffers
    BY <1>1 DEF Distinct, InRing, Listed, Buffers
  <1>6. Len(BufList(cq)) = 0 /\ Len(BufList(pending)) = 0
    BY Zenon, <1>3, BufListLen
  <1>7. Distinct(BufList(cq)) /\ InCq = {} /\ Distinct(BufList(pending)) /\ InQueue = {}
    BY <1>6 DEF Distinct, InCq, InQueue, Listed
  <1>8. InUser = {}
    BY Zenon DEF InUser
  <1>9. Places
    BY Zenon, <1>5, <1>7, <1>8 DEF Places, Partition
  <1> QED
    BY Zenon, <1>2, <1>4, <1>9 DEF IInv, Course

(* The inductive invariant holds in every reachable state. *)
LEMMA Invariance == Spec => []IInv
  <1>1. IInv /\ [Next]_vars => IInv'
    <2> SUFFICES ASSUME IInv, [Next]_vars PROVE IInv'
      BY Zenon
    <2>1. TypeOK'
      BY Zenon, TypeStep DEF IInv
    <2>2. Course'
      BY Zenon, CourseStep DEF IInv, Course
    <2>3. Numbered'
      BY Zenon, NumberedStep DEF IInv
    <2>4. Places'
      BY Zenon, PlacesStep DEF IInv
    <2> QED
      BY Zenon, <2>1, <2>2, <2>3, <2>4 DEF IInv, Course
  <1> QED
    BY <1>1, InitInvariant, PTL DEF Spec

(* The state of the object, its user and the kernel keep their types: what *)
(* complete() queues always names a buffer and a message.                  *)
THEOREM TypeCorrect == Spec => []TypeOK
  <1>1. IInv => TypeOK
    BY Zenon DEF IInv
  <1> QED
    BY <1>1, Invariance, PTL

(* A buffer in one place only has exactly one use. *)
LEMMA OneUse ==
    ASSUME TypeOK, Places, NEW b \in Buffers
    PROVE  \E u \in Uses(b) : Uses(b) = {u}
  <1>0. /\ DOMAIN avail = 1..Len(avail) /\ DOMAIN cq = 1..Len(cq)
        /\ DOMAIN pending = 1..Len(pending)
    BY Zenon, Elements DEF TypeOK
  <1>1. Len(cq) \in Nat /\ Len(pending) \in Nat
    BY Zenon, Elements DEF TypeOK
  <1>2. /\ Len(BufList(cq)) = Len(cq) /\ \A i \in 1..Len(cq) : BufList(cq)[i] = cq[i].buf
        /\ Len(BufList(pending)) = Len(pending)
        /\ \A i \in 1..Len(pending) : BufList(pending)[i] = pending[i].buf
    BY Zenon, <1>1, BufListLen
  <1>3. b # 0
    BY RecvAssumption DEF Buffers
  <1> DEFINE ring == {j \in 1..Len(avail) : avail[j] = b}
             inCq == {j \in 1..Len(cq) : cq[j].buf = b}
             queue == {j \in 1..Len(pending) : pending[j].buf = b}
             user == {x \in held : x.buf = b}
  <1>4. Uses(b) = {<<"ring", i>> : i \in ring} \cup {<<"cq", i>> : i \in inCq}
                  \cup {<<"queue", i>> : i \in queue} \cup {<<"user", h.msg>> : h \in user}
    BY Zenon, <1>0 DEF Uses
  <1>5. /\ b \in InRing <=> ring # {}
        /\ b \in InCq <=> inCq # {}
        /\ b \in InQueue <=> queue # {}
        /\ b \in InUser <=> user # {}
    <2>1. b \in InRing <=> ring # {}
      BY Zenon, <1>3 DEF InRing, Listed
    <2>2. b \in InCq <=> inCq # {}
      BY <1>2, <1>3 DEF InCq, Listed
    <2>3. b \in InQueue <=> queue # {}
      BY Zenon, <1>2, <1>3 DEF InQueue, Listed
    <2>4. b \in InUser <=> user # {}
      BY Zenon DEF InUser
    <2> QED
      BY Zenon, <2>1, <2>2, <2>3, <2>4
  <1>6. /\ \A i, j \in ring : i = j
        /\ \A i, j \in inCq : i = j
        /\ \A i, j \in queue : i = j
        /\ \A g, h \in user : g = h
    <2>1. \A i, j \in ring : i = j
      BY Zenon, <1>3 DEF Places, Distinct
    <2>2. \A i, j \in inCq : i = j
      BY <1>2, <1>3 DEF Places, Distinct
    <2>3. \A i, j \in queue : i = j
      BY <1>2, <1>3 DEF Places, Distinct
    <2>4. \A g, h \in user : g = h
      BY Zenon DEF Places
    <2> QED
      BY Zenon, <2>1, <2>2, <2>3, <2>4
  <1> HIDE DEF ring, inCq, queue, user
  <1>7. /\ b \in InRing \/ b \in InCq \/ b \in InQueue \/ b \in InUser
        /\ b \in InRing => b \notin InCq /\ b \notin InQueue /\ b \notin InUser
        /\ b \in InCq => b \notin InQueue /\ b \notin InUser
        /\ b \in InQueue => b \notin InUser
    BY Zenon DEF Places, Partition
  <1>8. CASE b \in InRing
    <2>1. PICK i \in ring : TRUE
      BY Zenon, <1>5, <1>8
    <2>2. Uses(b) = {<<"ring", i>>}
      BY Zenon, <1>4, <1>5, <1>6, <1>7, <1>8, <2>1
    <2> QED
      BY Zenon, <2>2
  <1>9. CASE b \in InCq
    <2>1. PICK i \in inCq : TRUE
      BY Zenon, <1>5, <1>9
    <2>2. Uses(b) = {<<"cq", i>>}
      BY Zenon, <1>4, <1>5, <1>6, <1>7, <1>9, <2>1
    <2> QED
      BY Zenon, <2>2
  <1>10. CASE b \in InQueue
    <2>1. PICK i \in queue : TRUE
      BY Zenon, <1>5, <1>10
    <2>2. Uses(b) = {<<"queue", i>>}
      BY Zenon, <1>4, <1>5, <1>6, <1>7, <1>10, <2>1
    <2> QED
      BY Zenon, <2>2
  <1>11. CASE b \in InUser
    <2>1. PICK h \in user : TRUE
      BY Zenon, <1>5, <1>11
    <2>2. Uses(b) = {<<"user", h.msg>>}
      BY Zenon, <1>4, <1>5, <1>6, <1>7, <1>11, <2>1
    <2> QED
      BY Zenon, <2>2
  <1> QED
    BY Zenon, <1>7, <1>8, <1>9, <1>10, <1>11

(* For every number of buffers: complete(), next(), the received_buffers   *)
(* and the destructor keep each buffer in exactly one place.               *)
THEOREM BuffersInOnePlace == Spec => []BufferOnce
  <1>1. IInv => BufferOnce
    BY Zenon, OneUse DEF IInv, BufferOnce
  <1> QED
    BY <1>1, Invariance, PTL

(* Numbered counts through the two queues, which holds the data in front   *)
(* of an end; an error_ that is not a stop leaves both of them empty.      *)
LEMMA OrderInv == IInv => MessagesInOrder
  <1>1. IInv => MessagesInOrder
    <2> DEFINE data == {i \in DOMAIN cq : cq[i].res = "data"}
    <2> SUFFICES ASSUME IInv, Streaming
                 PROVE  /\ \A i \in DOMAIN pending : pending[i].msg = got + i
                        /\ \A i \in data : cq[i].msg = got + Len(pending) + i
                        /\ got <= sent
                        /\ (got + 1)..sent = {pending[i].msg : i \in DOMAIN pending}
                                             \cup {cq[i].msg : i \in data}
                        /\ pending = <<>> /\ error # "live" /\ ~stop => got = sent
      BY Zenon DEF MessagesInOrder, Streaming
    <2>1. /\ Len(cq) \in Nat /\ Len(pending) \in Nat /\ got \in Nat /\ sent \in Nat
          /\ DOMAIN cq = 1..Len(cq) /\ DOMAIN pending = 1..Len(pending)
      BY Elements DEF IInv, TypeOK
    <2>2. /\ \A i \in 1..Len(pending) : pending[i].msg = got + i
          /\ \A i \in 1..Len(cq) : cq[i].res = "data" => cq[i].msg = got + Len(pending) + i
          /\ sent = got + Len(pending) + Len(cq) - (IF EndsWithError THEN 1 ELSE 0)
      BY Zenon DEF IInv, Numbered, Streaming
    <2>3. \A i \in 1..Len(cq) : cq[i].res # "data" <=> i = Len(cq) /\ EndsWithError
      BY Zenon DEF IInv, QueueShape, EndsWithError
    <2>4. PICK n \in Nat : data = 1..n /\ sent = got + Len(pending) + n
      <3>1. CASE EndsWithError
        <4>1. Len(cq) - 1 \in Nat
          BY <2>1, <3>1 DEF EndsWithError
        <4>2. sent = got + Len(pending) + (Len(cq) - 1)
          BY Zenon, <2>1, <2>2, <3>1
        <4>3. \A i : i \in data <=> i \in 1..Len(cq) /\ i # Len(cq)
          BY Zenon, <2>1, <2>3, <3>1
        <4> HIDE DEF data
        <4>4. \A i : i \in data <=> i \in 1..(Len(cq) - 1)
          BY <2>1, <4>3
        <4>5. data = 1..(Len(cq) - 1)
          BY Zenon, <4>4
        <4> QED
          BY Zenon, <4>1, <4>2, <4>5
      <3>2. CASE ~EndsWithError
        <4>1. sent = got + Len(pending) + Len(cq)
          BY <2>1, <2>2, <3>2
        <4>2. data = 1..Len(cq)
          BY Zenon, <2>1, <2>3, <3>2
        <4> QED
          BY Zenon, <2>1, <4>1, <4>2
      <3> QED
        BY Zenon, <3>1, <3>2
    <2> HIDE DEF data
    <2>5. \A i \in 1..n : cq[i].msg = got + Len(pending) + i
      BY Zenon, <2>1, <2>2, <2>4 DEF data
    <2>6. ASSUME NEW m \in (got + 1)..sent
          PROVE  m \in {pending[i].msg : i \in 1..Len(pending)} \cup {cq[i].msg : i \in 1..n}
      <3>1. CASE m - got <= Len(pending)
        <4>1. m - got \in 1..Len(pending) /\ got + (m - got) = m
          BY <2>1, <3>1
        <4> QED
          BY Zenon, <2>2, <4>1
      <3>2. CASE ~(m - got <= Len(pending))
        <4> DEFINE i == m - got - Len(pending)
        <4>1. i \in 1..n /\ got + Len(pending) + i = m
          BY <2>1, <2>4, <3>2
        <4> HIDE DEF i
        <4> QED
          BY Zenon, <2>5, <4>1
      <3> QED
        BY Zenon, <3>1, <3>2
    <2>7. \A i \in 1..Len(pending) : pending[i].msg \in (got + 1)..sent
      BY <2>1, <2>2, <2>4
    <2>8. \A i \in 1..n : cq[i].msg \in (got + 1)..sent
      BY <2>1, <2>4, <2>5
    <2>9. got <= sent
      BY <2>1, <2>4
    <2>10. ASSUME pending = <<>>, error # "live", ~stop PROVE got = sent
      <3>1. Len(pending) = 0 /\ Len(cq) = 0
        BY <2>10 DEF IInv, ErrorIsFinal
      <3>2. ~EndsWithError
        BY <3>1 DEF EndsWithError
      <3> QED
        BY <2>1, <2>2, <3>1, <3>2
    <2> QED
      BY ZenonT(30), <2>1, <2>2, <2>4, <2>5, <2>6, <2>7, <2>8, <2>9, <2>10
  <1> QED
    BY <1>1

(* For any number of messages: next() returns them in the order of arrival *)
(* and skips none, across every end and re-arm of the receive, and reports *)
(* an end only after the last one, unless a stop was requested.            *)
THEOREM InOrder == Spec => []MessagesInOrder
  BY OrderInv, Invariance, PTL

(***************************************************************************)
(* multishot_recv is a stream of results: a receive by the kernel is an    *)
(* arrival, a message returned by next() is the one that follows the last  *)
(* one returned, the start of the destructor closes the stream, and no     *)
(* other step is visible.                                                  *)
(***************************************************************************)
THEOREM StreamRefinement == Spec => ImplementsStream
  <1>1. Init => Stream!Init
    BY DEF Init, Stream!Init, StreamPhase
  <1>2. IInv /\ [Next]_vars => [Stream!Next]_<<sent, got, StreamPhase>>
    <2> SUFFICES ASSUME IInv, [Next]_vars
                 PROVE  Stream!Next \/ UNCHANGED <<sent, got, StreamPhase>>
      OBVIOUS
    <2>1. ASSUME NEW more \in BOOLEAN, KernelData(more) PROVE Stream!Arrive
      BY Zenon, <2>1 DEF KernelData, Stream!Arrive, StreamPhase, userVars
    <2>2. ASSUME NextItem PROVE Stream!HandOver
      <3>1. /\ pc \in {"body", "resume"} /\ pc' = "body" /\ pending # <<>> /\ pending \in Seq(Items)
            /\ got' = Head(pending).msg /\ sent' = sent /\ got \in Nat /\ sent \in Nat
        <4>1. got \in Nat /\ sent \in Nat
          BY RecvAssumption DEF IInv, TypeOK
        <4> QED
          BY Zenon, <2>2, <4>1 DEF NextItem, kernVars, IInv, TypeOK
      <3>2. pending[1] = Head(pending) /\ 1 \in DOMAIN pending
        BY <3>1
      <3>3. /\ \A i \in DOMAIN pending : pending[i].msg = got + i
            /\ \A i \in DOMAIN pending : pending[i].msg \in (got + 1)..sent
        BY Zenon, <3>1, OrderInv DEF MessagesInOrder
      <3>4. got' = got + 1 /\ got + 1 \in (got + 1)..sent
        BY Zenon, <3>1, <3>2, <3>3
      <3>5. got < sent
        BY <3>1, <3>4
      <3>6. StreamPhase = "open" /\ StreamPhase' = "open"
        BY <3>1 DEF StreamPhase
      <3> QED
        BY Zenon, <3>1, <3>4, <3>5, <3>6 DEF Stream!HandOver
    <2>3. ASSUME DestructorStarts PROVE Stream!Close
      <3>1. pc = "body" /\ pc' \in {"loop", "free"} /\ UNCHANGED <<sent, got>>
        BY Zenon, <2>3 DEF DestructorStarts, userVars
      <3>2. StreamPhase = "open" /\ StreamPhase' = "closed"
        BY <3>1 DEF StreamPhase
      <3> QED
        BY Zenon, <3>1, <3>2 DEF Stream!Close
    <2>4. ASSUME \/ KernelNoBufs \/ (\E res \in {"eof", "failed"} : KernelEnds(res))
                 \/ RequestStop \/ Complete \/ LoopItem \/ NextEnds \/ NextStopped \/ NextWaits
                 \/ (\E h \in held : ReleaseBuffer(h)) \/ DestructorFrees \/ UNCHANGED vars
          PROVE  UNCHANGED <<sent, got, StreamPhase>>
      <3>1. UNCHANGED <<sent, got>>
        BY Zenon, <2>4 DEF KernelNoBufs, KernelEnds, RequestStop, Complete, LoopItem, NextEnds,
           NextStopped, NextWaits, ReleaseBuffer, DestructorFrees, userVars, kernVars, vars
      <3>2. \/ pc' = pc
            \/ pc \in {"body", "wait", "resume"} /\ pc' \in {"body", "wait", "resume"}
            \/ /\ pc \in {"loop", "loop_wait", "loop_resume", "free"}
               /\ pc' \in {"loop", "loop_wait", "loop_resume", "free", "gone"}
        <4>1. CASE Complete
          BY <4>1 DEF Complete, Woken
        <4>2. CASE LoopItem \/ NextEnds \/ NextStopped \/ NextWaits \/ DestructorFrees
          BY <4>2 DEF LoopItem, NextEnds, NextStopped, NextWaits, DestructorFrees
        <4> QED
          BY Zenon, <2>4, <4>1, <4>2 DEF KernelNoBufs, KernelEnds, RequestStop, ReleaseBuffer, vars
      <3>3. StreamPhase' = StreamPhase
        BY <3>2 DEF StreamPhase
      <3> QED
        BY Zenon, <3>1, <3>3
    <2> QED
      BY Zenon, <2>1, <2>2, <2>3, <2>4 DEF Next, Kernel, Fiber, Stream!Next
  <1> QED
    BY <1>1, <1>2, Invariance, PTL DEF Spec, ImplementsStream, Stream!Spec

(* Unless the fiber was asked to stop, the destructor frees the object     *)
(* only after the kernel let go of the receive and every completion was    *)
(* drained, also when SQEs are missing.                                    *)
THEOREM ObjectOutlives == Spec => []OutlivesUnlessStopped
  <1>1. IInv => OutlivesUnlessStopped
    BY Zenon DEF IInv, OutlivesUnlessStopped, ObjectOutlivesReceive, ErrorIsFinal, FreesAfterError
  <1> QED
    BY <1>1, Invariance, PTL

(* A fiber suspended in next() has a receive armed or a completion on its  *)
(* way, unless arm() found no SQE.                                         *)
THEOREM WaitersServed == Spec => []WaiterIsServed
  <1>1. IInv => WaiterIsServed
    BY Zenon DEF IInv, WaiterIsServed, LiveIsServed
  <1> QED
    BY <1>1, Invariance, PTL
=============================================================================
