--------------------------- MODULE FiberPoolProofs ---------------------------
(***************************************************************************)
(* Proofs about FiberPool for any number of threads and tasks: that every  *)
(* step keeps each task in its one place; then the life of tasks, the      *)
(* count of the fibers in flight and what holds when a worker leaves; then *)
(* the inductive invariant, the properties, and that FiberPool implements  *)
(* TaskPool.                                                               *)
(***************************************************************************)
EXTENDS FiberPool, FiniteSetTheorems, TLAPS

(* Two facts about a queue: what push() and pop() do to its elements. *)
LEMMA PushBack ==
    ASSUME NEW S, NEW s \in Seq(S), NEW e \in S
    PROVE  /\ Append(s, e) \in Seq(S)
           /\ Len(Append(s, e)) = Len(s) + 1
           /\ Len(s) \in Nat
           /\ \A i \in 1..Len(Append(s, e)) :
                 Append(s, e)[i] = IF i = Len(s) + 1 THEN e ELSE s[i]
  BY SMTT(60)

(* A pop takes the first element and leaves the rest in order. *)
LEMMA PopFront ==
    ASSUME NEW S, NEW s \in Seq(S), s # <<>>
    PROVE  /\ Head(s) \in S
           /\ Head(s) = s[1]
           /\ Tail(s) \in Seq(S)
           /\ Len(s) \in Nat /\ Len(s) > 0
           /\ Len(Tail(s)) = Len(s) - 1
           /\ \A i \in 1..Len(Tail(s)) : Tail(s)[i] = s[i + 1]
  BY SMTT(60)

-----------------------------------------------------------------------------
(* Every step preserves the types, if in_flight_ cannot wrap. *)
LEMMA TypeStep ==
    ASSUME TypeOK, OnePlace, [Next]_vars,
           \A t \in Threads : At(t, "dec") => in_flight > 0
    PROVE  TypeOK'
  <1> USE PoolAssumption, NamesAreDistinct
      DEF TypeOK, At, Goto, poolVars, stopVars, lockVars, kernVars, fiberVars,
          TaskStates, LiveStates, ThreadPCs, StopPCs
  <1>1. ASSUME NEW k \in Tasks, ClientPush(k) \/ ClientWrite(k) \/ KernelIoDone(k)
        PROVE  TypeOK'
    <2>1. CASE ClientPush(k)
      <3>1. Append(work_queue, k) \in Seq(Tasks)
        BY Zenon, PushBack
      <3> QED
        BY Zenon, <2>1, <3>1 DEF ClientPush, PushWork
    <2>2. CASE ClientWrite(k)
      BY SMTT(60), <2>2 DEF ClientWrite, WriteEventfd
    <2>3. CASE KernelIoDone(k)
      BY ZenonT(60), <2>3 DEF KernelIoDone
    <2> QED
      BY ZenonT(60), <1>1, <2>1, <2>2, <2>3
  <1>2. ASSUME NEW t \in Threads,
               \/ KernelReadWork(t) \/ KernelReadError(t) \/ SuspendUntil(t)
               \/ DrainWork(t) \/ DrainEnd(t) \/ CheckRunning(t) \/ Rearm(t)
        PROVE  TypeOK'
    <2>1. CASE KernelReadWork(t)
      BY <2>1 DEF KernelReadWork
    <2>2. CASE KernelReadError(t)
      BY <2>2 DEF KernelReadError
    <2>3. CASE SuspendUntil(t)
      BY Zenon, <2>3 DEF SuspendUntil
    <2>4. CASE DrainWork(t)
      BY <2>4 DEF DrainWork
    <2>5. CASE DrainEnd(t)
      BY Zenon, <2>5 DEF DrainEnd
    <2>6. CASE CheckRunning(t)
      BY Zenon, <2>6 DEF CheckRunning
    <2>7. CASE Rearm(t)
      BY Zenon, <2>7 DEF Rearm
    <2> QED
      BY ZenonT(60), <1>2, <2>1, <2>2, <2>3, <2>4, <2>5, <2>6, <2>7
  <1>3. ASSUME NEW t \in Threads, PickNext(t) PROVE TypeOK'
    <2>1. /\ Head(ready[t]) \in Tasks \cup {Main}
          /\ Tail(ready[t]) \in Seq(Tasks \cup {Main})
      BY Zenon, <1>3, PopFront DEF PickNext
    <2>2. CASE Head(ready[t]) = Main
      BY ZenonT(60), <1>3, <2>1, <2>2 DEF PickNext
    <2>3. CASE Head(ready[t]) # Main
      <3>1. /\ pc' = [pc EXCEPT ![t] = "fiber"]
            /\ cur' = [cur EXCEPT ![t] = Head(ready[t])]
            /\ st' = [st EXCEPT ![Head(ready[t])] = "running"]
            /\ ready' = [ready EXCEPT ![t] = Tail(@)]
        BY Zenon, <1>3, <2>3 DEF PickNext
      <3>2. /\ pc' \in [Threads -> ThreadPCs]
            /\ cur' \in [Threads -> Tasks \cup {None}]
            /\ st' \in [Tasks -> TaskStates]
            /\ ready' \in [Threads -> Seq(Tasks \cup {Main})]
        BY Zenon, <2>1, <2>3, <3>1
      <3> QED
        BY Zenon, <1>3, <3>2 DEF PickNext
    <2> QED
      BY ZenonT(60), <2>2, <2>3
  <1>4. ASSUME NEW t \in Threads, NEW k \in Tasks, DrainIo(t, k) PROVE TypeOK'
    BY Zenon, <1>4, PushBack DEF DrainIo
  <1>5. ASSUME NEW t \in Threads, PopWork(t) PROVE TypeOK'
    <2>1. CASE work_queue # <<>>
      <3>1. Head(work_queue) \in Tasks /\ Tail(work_queue) \in Seq(Tasks)
        BY Zenon, <2>1, PopFront
      <3>2. /\ pc' = [pc EXCEPT ![t] = "launch"]
            /\ cur' = [cur EXCEPT ![t] = Head(work_queue)]
            /\ st' = [st EXCEPT ![Head(work_queue)] = "popped"]
            /\ work_queue' = Tail(work_queue)
        BY Zenon, <1>5, <2>1 DEF PopWork
      <3>3. /\ pc' \in [Threads -> ThreadPCs]
            /\ cur' \in [Threads -> Tasks \cup {None}]
            /\ st' \in [Tasks -> TaskStates]
            /\ work_queue' \in Seq(Tasks)
        BY ZenonT(60), <3>1, <3>2
      <3> QED
        BY Zenon, <1>5, <3>3 DEF PopWork
    <2>2. CASE work_queue = <<>>
      BY ZenonT(60), <1>5, <2>2 DEF PopWork
    <2> QED
      BY ZenonT(60), <2>1, <2>2
  <1>6. ASSUME NEW t \in Threads, LaunchFiber(t) PROVE TypeOK'
    <2>1. cur[t] \in Tasks
      BY Zenon, <1>6 DEF LaunchFiber, OnePlace, RunningOnce
    <2>2. Append(ready[t], cur[t]) \in Seq(Tasks \cup {Main})
      BY Zenon, <2>1, PushBack
    <2> QED
      BY <1>6, <2>1, <2>2 DEF LaunchFiber
  <1>7. ASSUME NEW t \in Threads, FiberIo(t) PROVE TypeOK'
    <2>1. cur[t] \in Tasks
      BY Zenon, <1>7 DEF FiberIo, OnePlace, RunningOnce, RunsOn
    <2>2. io_left[cur[t]] - 1 \in Nat
      BY <1>7, <2>1 DEF FiberIo
    <2> QED
      BY Zenon, <1>7, <2>1, <2>2 DEF FiberIo
  <1>8. ASSUME NEW t \in Threads, NEW c \in Tasks, FiberPost(t, c) \/ FiberSyncWait(t, c)
        PROVE  TypeOK'
    <2>1. Append(work_queue, c) \in Seq(Tasks)
      BY Zenon, PushBack
    <2>2. CASE FiberPost(t, c)
      BY ZenonT(60), <2>1, <2>2 DEF FiberPost, FiberPush, PushWork
    <2>3. CASE FiberSyncWait(t, c)
      BY Zenon, <2>1, <2>3 DEF FiberSyncWait, FiberPush, PushWork
    <2> QED
      BY ZenonT(60), <1>8, <2>2, <2>3
  <1>9. ASSUME NEW t \in Threads, FiberWrite(t) PROVE TypeOK'
    BY <1>9 DEF FiberWrite, WriteEventfd
  <1>10. ASSUME NEW t \in Threads, FiberAwait(t) PROVE TypeOK'
    <2>1. CASE st[posting[t]] \in {"returned", "done"}
      BY ZenonT(60), <1>10, <2>1 DEF FiberAwait
    <2>2. CASE st[posting[t]] \notin {"returned", "done"}
      <3>1. pc' = [pc EXCEPT ![t] = "sched"] /\ st' = [st EXCEPT ![cur[t]] = "waiting"]
        BY Zenon, <1>10, <2>2 DEF FiberAwait
      <3>2. pc' \in [Threads -> ThreadPCs] /\ st' \in [Tasks -> TaskStates]
        BY ZenonT(60), <3>1
      <3> QED
        BY Zenon, <1>10, <3>2 DEF FiberAwait
    <2> QED
      BY ZenonT(60), <2>1, <2>2
  <1>11. ASSUME NEW t \in Threads, FiberReturn(t) PROVE TypeOK'
    <2> DEFINE p == joiner[cur[t]]
    <2>1. cur[t] \in Tasks
      BY ZenonT(60), <1>11 DEF FiberReturn, OnePlace, RunningOnce, RunsOn
    <2>2. CASE p # None /\ st[p] = "waiting"
      <3>1. p \in Tasks /\ on[p] \in Threads
        BY Zenon, <2>1, <2>2 DEF OnePlace, Hosted
      <3>2. Append(ready[on[p]], p) \in Seq(Tasks \cup {Main})
        BY SMTT(60), <3>1, PushBack
      <3>3. /\ pc' = [pc EXCEPT ![t] = "dec"]
            /\ st' = [st EXCEPT ![cur[t]] = "returned", ![p] = "ready"]
            /\ ready' = [ready EXCEPT ![on[p]] = Append(@, p)]
        BY Zenon, <1>11, <2>2 DEF FiberReturn
      <3>4. /\ pc' \in [Threads -> ThreadPCs]
            /\ st' \in [Tasks -> TaskStates]
            /\ ready' \in [Threads -> Seq(Tasks \cup {Main})]
        BY ZenonT(60), <2>1, <3>1, <3>2, <3>3
      <3> QED
        BY ZenonT(60), <1>11, <3>4 DEF FiberReturn
    <2>3. CASE ~(p # None /\ st[p] = "waiting")
      BY ZenonT(60), <1>11, <2>1, <2>3 DEF FiberReturn
    <2> QED
      BY ZenonT(60), <2>2, <2>3
  <1>12. ASSUME NEW t \in Threads, FiberDec(t) PROVE TypeOK'
    <2>1. cur[t] \in Tasks /\ in_flight - 1 \in Nat
      BY SMTT(60), <1>12 DEF FiberDec, OnePlace, RunningOnce, RunsOn
    <2> QED
      BY Zenon, <1>12, <2>1 DEF FiberDec
  <1>13. ASSUME NotifyAll PROVE ready' \in [Threads -> Seq(Tasks \cup {Main})]
    BY SMTT(60), <1>13, PushBack DEF NotifyAll
  <1>14. ASSUME UnlockMtx
         PROVE  /\ ready' \in [Threads -> Seq(Tasks \cup {Main})]
                /\ mtx_waiters' \in Seq(Threads)
    <2>1. CASE mtx_waiters = <<>>
      BY Zenon, <1>14, <2>1 DEF UnlockMtx
    <2>2. CASE mtx_waiters # <<>>
      <3>1. Head(mtx_waiters) \in Threads /\ Tail(mtx_waiters) \in Seq(Threads)
        BY <2>2, PopFront
      <3>2. Append(ready[Head(mtx_waiters)], Main) \in Seq(Tasks \cup {Main})
        BY Zenon, <3>1, PushBack
      <3> QED
        BY SMTT(60), <1>14, <2>2, <3>1, <3>2 DEF UnlockMtx
    <2> QED
      BY Zenon, <2>1, <2>2
  <1>15. ASSUME NEW t \in Threads, FiberNotify(t) PROVE TypeOK'
    BY SMTT(60), <1>13, <1>15 DEF FiberNotify, NotifyAll
  <1>16. ASSUME NEW t \in Threads, MainFiber(t) PROVE TypeOK'
    <2>1. CASE MainLock(t)
      <3>1. Append(mtx_waiters, t) \in Seq(Threads)
        BY PushBack
      <3> QED
        BY ZenonT(60), <2>1, <3>1 DEF MainLock
    <2>2. CASE MainExit(t)
      BY Zenon, <1>14, <2>2 DEF MainExit, UnlockMtx
    <2>3. CASE MainMustWait(t)
      BY SMTT(60), <2>3 DEF MainMustWait
    <2>4. CASE MainEnqueue(t)
      BY Zenon, <1>14, <2>4 DEF MainEnqueue, UnlockMtx
    <2> QED
      BY ZenonT(60), <1>16, <2>1, <2>2, <2>3, <2>4 DEF MainFiber
  <1>17. CASE StopRequest \/ StopAction \/ Destroyed \/ UNCHANGED vars
    <2>1. CASE StopNotify
      BY Zenon, <1>13, <2>1 DEF StopNotify, NotifyAll
    <2>2. CASE StopUnlock
      BY Zenon, <1>14, <2>2 DEF StopUnlock, UnlockMtx
    <2> QED
      BY ZenonT(60), <1>17, <2>1, <2>2 DEF StopRequest, StopAction, StopLock, StopStore, StopJoin,
                               Destroyed, vars
  <1> QED
    BY ZenonT(60), <1>1, <1>2, <1>3, <1>4, <1>5, <1>6, <1>7, <1>8, <1>9, <1>10, <1>11, <1>12,
       <1>15, <1>16, <1>17 DEF Next, ThreadStep, Drain, Fiber

-----------------------------------------------------------------------------
(***************************************************************************)
(* The pool's own steps (post, pick, pop, launch, drain) keep each task in  *)
(* its one place.                                                          *)
(***************************************************************************)

(***************************************************************************)
(* Most steps move no task.  A quiet step leaves tasks where they are,     *)
(* takes a thread at most to a label at which it carries none, and may     *)
(* make main fibers ready.                                                 *)
(***************************************************************************)
IdlePCs == {"sched", "drain", "check", "pop", "rearm", "notify", "lock", "eval",
            "enqueue", "exited"}
Quiet ==
    /\ UNCHANGED <<work_queue, st, on, io_cq, cur, posting, unsignalled>>
    /\ \A t \in Threads : pc'[t] = pc[t] \/ pc'[t] \in IdlePCs
    /\ \A t \in Threads : ready'[t] = ready[t] \/ ready'[t] = Append(ready[t], Main)

(* A quiet step keeps every task in its one place. *)
LEMMA QuietKeepsOnePlace ==
    ASSUME TypeOK, OnePlace, Quiet
    PROVE  OnePlace'
  <1> USE DEF OnePlace, Quiet
  <1>1. QueuedOnce'
    BY Zenon DEF QueuedOnce
  <1>2. ReadyOnce'
    <2> SUFFICES ASSUME NEW t \in Threads, NEW i \in 1..Len(ready'[t]),
                        ready'[t][i] # Main
                 PROVE  /\ st[ready'[t][i]] = "ready" /\ on[ready'[t][i]] = t
                        /\ \A j \in 1..Len(ready'[t]) :
                              ready'[t][i] = ready'[t][j] => i = j
      BY Zenon DEF ReadyOnce
    <2>1. CASE ready'[t] = ready[t]
      BY <2>1 DEF ReadyOnce
    <2>2. CASE ready'[t] = Append(ready[t], Main)
      <3>1. ready[t] \in Seq(Tasks \cup {Main})
        BY Zenon DEF TypeOK
      <3>2. /\ Len(ready'[t]) = Len(ready[t]) + 1 /\ Len(ready[t]) \in Nat
            /\ \A j \in 1..Len(ready'[t]) :
                  ready'[t][j] = IF j = Len(ready[t]) + 1 THEN Main ELSE ready[t][j]
        BY <2>2, <3>1, PushBack
      <3>3. i \in 1..Len(ready[t]) /\ ready'[t][i] = ready[t][i]
        BY <3>2
      <3> QED
        BY <3>2, <3>3 DEF ReadyOnce
    <2> QED
      BY Zenon, <2>1, <2>2
  <1>3. InOwnRing'
    BY Zenon DEF InOwnRing
  <1>4. RunningOnce'
    BY DEF RunningOnce, RunsOn, IdlePCs
  <1>5. Hosted'
    BY Zenon DEF Hosted
  <1>6. PostedOnce'
    BY DEF PostedOnce, IdlePCs
  <1> QED
    BY Zenon, <1>1, <1>2, <1>3, <1>4, <1>5, <1>6

(* The steps that are quiet. *)
QuietSteps ==
    \/ \E t \in Threads :
          \/ KernelReadWork(t) \/ KernelReadError(t) \/ SuspendUntil(t)
          \/ DrainWork(t) \/ DrainEnd(t) \/ CheckRunning(t) \/ Rearm(t)
          \/ FiberNotify(t) \/ MainFiber(t)
    \/ StopRequest \/ StopAction \/ Destroyed \/ UNCHANGED vars

(* They are: by what each of them leaves alone. *)
LEMMA QuietStepsAreQuiet ==
    ASSUME TypeOK, QuietSteps
    PROVE  Quiet
  <1> USE DEF TypeOK, Quiet, IdlePCs, poolVars, stopVars, lockVars, kernVars, fiberVars
  <1>1. ASSUME NEW t \in Threads,
               \/ KernelReadWork(t) \/ KernelReadError(t) \/ SuspendUntil(t)
               \/ DrainWork(t) \/ DrainEnd(t) \/ CheckRunning(t) \/ Rearm(t)
               \/ MainLock(t) \/ MainMustWait(t)
        PROVE  Quiet
    BY ZenonT(60), <1>1 DEF KernelReadWork, KernelReadError, SuspendUntil, DrainWork, DrainEnd,
                CheckRunning, Rearm, MainLock, MainMustWait, Goto
  <1>2. ASSUME UnlockMtx
        PROVE  \A t \in Threads :
                  ready'[t] = ready[t] \/ ready'[t] = Append(ready[t], Main)
    BY Zenon, <1>2 DEF UnlockMtx
  <1>3. ASSUME NotifyAll
        PROVE  \A t \in Threads :
                  ready'[t] = ready[t] \/ ready'[t] = Append(ready[t], Main)
    BY Zenon, <1>3 DEF NotifyAll
  <1>4. ASSUME NEW t \in Threads, FiberNotify(t) \/ MainExit(t) \/ MainEnqueue(t)
        PROVE  Quiet
    BY <1>2, <1>3, <1>4 DEF FiberNotify, MainExit, MainEnqueue, Goto
  <1>5. CASE StopRequest \/ StopAction \/ Destroyed \/ UNCHANGED vars
    BY ZenonT(60), <1>2, <1>3, <1>5 DEF StopRequest, StopAction, StopLock, StopStore, StopNotify,
                            StopUnlock, StopJoin, Destroyed, vars
  <1> QED
    <2> HIDE DEF TypeOK, Quiet, IdlePCs, poolVars, stopVars, lockVars, kernVars, fiberVars
    <2>1. ASSUME NEW t \in Threads, MainFiber(t) PROVE Quiet
      BY Zenon, <2>1, <1>1, <1>4 DEF MainFiber
    <2> QED
      BY <2>1, <1>1, <1>4, <1>5, Zenon DEF QuietSteps

-----------------------------------------------------------------------------
(* The steps that move a task, one lemma each. *)

(* post() under mtx_ queues a task that is nowhere else. *)
LEMMA PushKeepsOnePlace ==
    ASSUME TypeOK, OnePlace, NEW k \in Tasks, PushWork(k),
           st' = [st EXCEPT ![k] = "queued"],
           UNCHANGED <<on, ready, io_cq, cur>>,
           \/ UNCHANGED <<pc, posting>>
           \/ \E t \in Threads :
                 /\ pc[t] = "fiber" /\ pc' = [pc EXCEPT ![t] = "post"]
                 /\ k \notin Roots /\ posting' = [posting EXCEPT ![t] = k]
    PROVE  OnePlace'
  <1> USE DEF OnePlace
  <1>1. /\ Len(work_queue') = Len(work_queue) + 1 /\ Len(work_queue) \in Nat
        /\ \A i \in 1..Len(work_queue') :
              work_queue'[i] = IF i = Len(work_queue) + 1 THEN k ELSE work_queue[i]
    BY PushBack DEF PushWork, TypeOK
  <1>2. st[k] = "none" /\ \A j \in Tasks : j # k => st'[j] = st[j]
    BY DEF PushWork, TypeOK
  <1>3. st'[k] = "queued"
    BY Zenon DEF TypeOK
  <1>4. on[k] = None
    BY Zenon, <1>2 DEF Hosted, LiveStates
  <1>5. QueuedOnce'
    <2>1. \A i \in 1..Len(work_queue) : work_queue[i] \in Tasks /\ work_queue[i] # k
      BY SMTT(60), <1>2 DEF QueuedOnce, TypeOK
    <2> QED
      BY SMTT(60), <1>1, <1>2, <1>3, <2>1 DEF QueuedOnce
  <1>6. ReadyOnce'
    <2>1. \A t \in Threads : \A i \in 1..Len(ready[t]) :
             ready[t][i] # Main => ready[t][i] \in Tasks /\ ready[t][i] # k
      BY SMTT(60), <1>2 DEF ReadyOnce, TypeOK
    <2> QED
      BY <1>2, <2>1 DEF ReadyOnce
  <1>7. InOwnRing'
    BY <1>2 DEF InOwnRing, TypeOK
  <1>8. RunningOnce'
    BY <1>2 DEF RunningOnce, RunsOn, TypeOK
  <1>9. Hosted'
    BY Zenon, <1>2, <1>3, <1>4 DEF Hosted, LiveStates, TypeOK
  <1>10. PostedOnce'
    <2>1. k \notin unsignalled /\ unsignalled' = unsignalled \cup {k}
      BY ZenonT(60), <1>2 DEF PostedOnce, PushWork
    <2>2. \A j \in unsignalled' : st'[j] # "none"
      BY ZenonT(60), <1>2, <1>3, <2>1 DEF PostedOnce, TypeOK
    <2>3. CASE UNCHANGED <<pc, posting>>
      BY <2>1, <2>2, <2>3 DEF PostedOnce
    <2>4. ASSUME NEW t \in Threads, pc[t] = "fiber", pc' = [pc EXCEPT ![t] = "post"],
                 k \notin Roots, posting' = [posting EXCEPT ![t] = k]
          PROVE  PostedOnce'
      BY SMTT(60), <2>1, <2>2, <2>4 DEF PostedOnce, TypeOK
    <2> QED
      BY Zenon, <2>3, <2>4
  <1> QED
    BY Zenon, <1>5, <1>6, <1>7, <1>8, <1>9, <1>10

(* The eventfd write of post() ends that post and moves no task. *)
LEMMA WriteKeepsOnePlace ==
    ASSUME TypeOK, OnePlace,
           \/ \E k \in Tasks : ClientWrite(k)
           \/ \E t \in Threads : FiberWrite(t)
    PROVE  OnePlace'
  <1> USE DEF OnePlace
  <1>1. UNCHANGED <<work_queue, st, on, ready, io_cq, cur, posting>>
    BY Zenon DEF ClientWrite, FiberWrite, fiberVars
  <1>2. QueuedOnce' /\ ReadyOnce' /\ InOwnRing' /\ Hosted'
    BY SMTT(60), <1>1 DEF QueuedOnce, ReadyOnce, InOwnRing, Hosted
  <1>3. ASSUME NEW k \in Tasks, ClientWrite(k)
        PROVE  RunningOnce' /\ PostedOnce'
    BY SMTT(60), <1>1, <1>3 DEF ClientWrite, WriteEventfd, RunningOnce, RunsOn, PostedOnce
  <1>4. ASSUME NEW t \in Threads, FiberWrite(t)
        PROVE  RunningOnce' /\ PostedOnce'
    <2>1. /\ pc[t] = "post" /\ unsignalled' = unsignalled \ {posting[t]}
          /\ pc' = [pc EXCEPT ![t] = IF joiner[posting[t]] = cur[t] THEN "await" ELSE "fiber"]
      BY ZenonT(60), <1>4 DEF FiberWrite, WriteEventfd, At, Goto
    <2>2. RunningOnce'
      BY <1>1, <2>1 DEF RunningOnce, RunsOn, TypeOK
    <2>3. PostedOnce'
      BY Zenon, <1>1, <2>1 DEF PostedOnce, TypeOK
    <2> QED
      BY Zenon, <2>2, <2>3
  <1> QED
    BY Zenon, <1>2, <1>3, <1>4

(* pick_next takes a fiber off its thread's ready queue and runs it there. *)
LEMMA PickNextKeepsOnePlace ==
    ASSUME TypeOK, OnePlace, NEW t \in Threads, PickNext(t)
    PROVE  OnePlace'
  <1> DEFINE h == Head(ready[t])
  <1> USE DEF OnePlace
  <1>1. /\ h \in Tasks \cup {Main} /\ h = ready[t][1]
        /\ Len(ready[t]) \in Nat /\ Len(ready[t]) > 0
        /\ Len(Tail(ready[t])) = Len(ready[t]) - 1
        /\ \A i \in 1..Len(Tail(ready[t])) : Tail(ready[t])[i] = ready[t][i + 1]
    BY PopFront DEF PickNext, TypeOK
  <1>2. /\ pc[t] = "sched" /\ ready' = [ready EXCEPT ![t] = Tail(@)]
        /\ UNCHANGED <<work_queue, unsignalled, posting, io_cq, on>>
    BY Zenon DEF PickNext, At, poolVars
  <1>3. CASE h = Main
    <2>1. pc' = [pc EXCEPT ![t] = "lock"] /\ UNCHANGED <<cur, st>>
      BY ZenonT(60), <1>3 DEF PickNext, Goto
    <2>2. QueuedOnce' /\ InOwnRing' /\ Hosted'
      BY <1>2, <2>1 DEF QueuedOnce, InOwnRing, Hosted
    <2>3. RunningOnce' /\ PostedOnce'
      BY SMTT(60), <1>2, <2>1 DEF RunningOnce, RunsOn, PostedOnce, TypeOK
    <2>4. ReadyOnce'
      BY SMTT(60), <1>1, <1>2, <2>1 DEF ReadyOnce, TypeOK
    <2> QED
      BY Zenon, <2>2, <2>3, <2>4
  <1>4. CASE h # Main
    <2>1. /\ pc' = [pc EXCEPT ![t] = "fiber"] /\ cur' = [cur EXCEPT ![t] = h]
          /\ st' = [st EXCEPT ![h] = "running"]
      BY Zenon, <1>4 DEF PickNext, Goto
    <2>2. /\ h \in Tasks /\ st[h] = "ready" /\ on[h] = t
          /\ \A j \in 1..Len(ready[t]) : ready[t][j] = h => j = 1
      BY SMTT(60), <1>1, <1>4 DEF ReadyOnce
    <2>3. st'[h] = "running" /\ \A j \in Tasks : j # h => st'[j] = st[j]
      BY SMTT(60), <2>1, <2>2 DEF TypeOK
    <2>4. QueuedOnce'
      BY SMTT(60), <1>2, <2>2, <2>3 DEF QueuedOnce, TypeOK
    <2>5. InOwnRing'
      BY <1>2, <2>2, <2>3 DEF InOwnRing, TypeOK
    <2>6. Hosted'
      BY Zenon, <1>2, <2>2, <2>3 DEF Hosted, LiveStates
    <2>7. PostedOnce'
      BY SMTT(60), <1>2, <2>1, <2>2, <2>3 DEF PostedOnce, TypeOK
    <2>8. RunningOnce'
      BY SMTT(60), <1>2, <2>1, <2>2, <2>3 DEF RunningOnce, RunsOn, TypeOK
    <2>9. ReadyOnce'
      <3> SUFFICES ASSUME NEW u \in Threads, NEW i \in 1..Len(ready'[u]),
                          ready'[u][i] # Main
                   PROVE  /\ st'[ready'[u][i]] = "ready" /\ on'[ready'[u][i]] = u
                          /\ \A j \in 1..Len(ready'[u]) :
                                ready'[u][i] = ready'[u][j] => i = j
        BY Zenon DEF ReadyOnce
      <3>1. CASE u = t
        <4>1. ready'[t] = Tail(ready[t])
          BY ZenonT(60), <1>2 DEF TypeOK
        <4>2. i + 1 \in 1..Len(ready[t]) /\ ready'[u][i] = ready[t][i + 1]
          BY SMTT(60), <1>1, <3>1, <4>1
        <4>3. ready[t][i + 1] \in Tasks /\ ready[t][i + 1] # h
          BY SMTT(60), <2>2, <4>2 DEF TypeOK
        <4>4. st'[ready[t][i + 1]] = "ready" /\ on'[ready[t][i + 1]] = t
          BY ZenonT(60), <1>2, <2>3, <3>1, <4>2, <4>3 DEF ReadyOnce
        <4>5. ASSUME NEW j \in 1..Len(ready'[u]), ready'[u][i] = ready'[u][j] PROVE i = j
          <5>1. /\ i \in Nat /\ j \in Nat /\ j + 1 \in 1..Len(ready[t])
                /\ ready'[u][j] = ready[t][j + 1]
            BY <1>1, <3>1, <4>1
          <5>2. ready[t][i + 1] # Main /\ ready[t][i + 1] = ready[t][j + 1]
            BY Zenon, <4>2, <4>5, <5>1
          <5>3. i + 1 = j + 1
            BY <4>2, <5>1, <5>2 DEF ReadyOnce
          <5> QED
            BY <5>1, <5>3
        <4> QED
          BY Zenon, <3>1, <4>2, <4>4, <4>5
      <3>2. CASE u # t
        <4>1. ready'[u] = ready[u]
          BY Zenon, <1>2, <3>2 DEF TypeOK
        <4>2. ready[u][i] \in Tasks /\ ready[u][i] # h
          BY <2>2, <3>2, <4>1 DEF TypeOK, ReadyOnce
        <4>3. on' = on
          BY Zenon, <1>2
        <4> QED
          BY <2>3, <4>1, <4>2, <4>3 DEF ReadyOnce
      <3> QED
        BY <3>1, <3>2
    <2> QED
      BY ZenonT(60), <2>4, <2>5, <2>6, <2>7, <2>8, <2>9
  <1> QED
    BY Zenon, <1>3, <1>4

(* drain_cqes pops a task from the queue, and only this thread has it. *)
LEMMA PopKeepsOnePlace ==
    ASSUME TypeOK, OnePlace, NEW t \in Threads, PopWork(t)
    PROVE  OnePlace'
  <1> DEFINE h == Head(work_queue)
  <1> USE DEF OnePlace
  <1>1. pc[t] = "pop" /\ UNCHANGED <<unsignalled, posting, ready, io_cq, on>>
    BY Zenon DEF PopWork, At
  <1>2. CASE work_queue = <<>>
    <2>1. pc' = [pc EXCEPT ![t] = "rearm"] /\ UNCHANGED <<work_queue, cur, st>>
      BY Zenon, <1>2 DEF PopWork, Goto
    <2>2. Quiet
      BY Zenon, <1>1, <2>1 DEF Quiet, IdlePCs, TypeOK
    <2> QED
      BY Zenon, <2>2, QuietKeepsOnePlace
  <1>3. CASE work_queue # <<>>
    <2>1. /\ h \in Tasks /\ h = work_queue[1]
          /\ Len(work_queue) \in Nat /\ Len(work_queue) > 0
          /\ Len(Tail(work_queue)) = Len(work_queue) - 1
          /\ \A i \in 1..Len(Tail(work_queue)) : Tail(work_queue)[i] = work_queue[i + 1]
      BY ZenonT(60), <1>3, PopFront DEF TypeOK
    <2>2. /\ pc' = [pc EXCEPT ![t] = "launch"] /\ cur' = [cur EXCEPT ![t] = h]
          /\ st' = [st EXCEPT ![h] = "popped"] /\ work_queue' = Tail(work_queue)
      BY Zenon, <1>3 DEF PopWork, Goto
    <2>3. st[h] = "queued" /\ \A j \in 1..Len(work_queue) : work_queue[j] = h => j = 1
      BY SMTT(60), <2>1 DEF QueuedOnce
    <2>4. st'[h] = "popped" /\ \A j \in Tasks : j # h => st'[j] = st[j]
      BY SMTT(60), <2>1, <2>2 DEF TypeOK
    <2>5. QueuedOnce'
      <3>1. \A i \in 1..Len(work_queue') :
               /\ i + 1 \in 1..Len(work_queue) /\ work_queue'[i] = work_queue[i + 1]
               /\ work_queue[i + 1] \in Tasks /\ work_queue[i + 1] # h
        BY SMTT(60), <2>1, <2>2, <2>3 DEF TypeOK
      <3> QED
        BY SMTT(60), <2>1, <2>2, <2>4, <3>1 DEF QueuedOnce
    <2>6. ReadyOnce'
      <3>1. \A u \in Threads : \A i \in 1..Len(ready[u]) :
               ready[u][i] # Main => ready[u][i] \in Tasks /\ ready[u][i] # h
        BY SMTT(60), <2>3 DEF ReadyOnce, TypeOK
      <3> QED
        BY SMTT(60), <1>1, <2>4, <3>1 DEF ReadyOnce
    <2>7. InOwnRing'
      BY <1>1, <2>3, <2>4 DEF InOwnRing, TypeOK
    <2>8. Hosted'
      BY Zenon, <1>1, <2>1, <2>3, <2>4 DEF Hosted, LiveStates
    <2>9. PostedOnce'
      BY SMTT(60), <1>1, <2>2, <2>4 DEF PostedOnce, TypeOK
    <2>10. RunningOnce'
      BY SMTT(60), <1>1, <2>1, <2>2, <2>3, <2>4 DEF RunningOnce, RunsOn, TypeOK
    <2> QED
      BY Zenon, <2>5, <2>6, <2>7, <2>8, <2>9, <2>10
  <1> QED
    BY Zenon, <1>2, <1>3

(* A fiber becomes ready on its own thread.  It was nowhere else: not in    *)
(* the queue, and in no ready queue.                                        *)
LEMMA EnqueueKeepsReadyOnce ==
    ASSUME TypeOK, ReadyOnce, NEW t \in Threads, NEW k \in Tasks,
           st[k] # "ready", st'[k] = "ready", on'[k] = t,
           \A j \in Tasks : j # k => on'[j] = on[j] /\ (st[j] = "ready" => st'[j] = "ready"),
           ready' = [ready EXCEPT ![t] = Append(@, k)]
    PROVE  ReadyOnce'
  <1> SUFFICES ASSUME NEW u \in Threads, NEW i \in 1..Len(ready'[u]),
                      ready'[u][i] # Main
               PROVE  /\ st'[ready'[u][i]] = "ready" /\ on'[ready'[u][i]] = u
                      /\ \A j \in 1..Len(ready'[u]) :
                            ready'[u][i] = ready'[u][j] => i = j
    BY ZenonT(60) DEF ReadyOnce
  <1>1. \A j \in 1..Len(ready[u]) :
           ready[u][j] # Main => /\ ready[u][j] \in Tasks /\ ready[u][j] # k
                                 /\ st'[ready[u][j]] = "ready" /\ on'[ready[u][j]] = u
    BY SMTT(60) DEF TypeOK, ReadyOnce
  <1>2. CASE u = t
    <2>1. ready[t] \in Seq(Tasks \cup {Main}) /\ ready'[t] = Append(ready[t], k)
      BY Zenon DEF TypeOK
    <2>2. /\ Len(ready'[t]) = Len(ready[t]) + 1 /\ Len(ready[t]) \in Nat
          /\ \A j \in 1..Len(ready'[t]) :
                ready'[t][j] = IF j = Len(ready[t]) + 1 THEN k ELSE ready[t][j]
      BY <2>1, PushBack
    <2>3. k # Main
      BY ZenonT(60), NamesAreDistinct
    <2>4. CASE i = Len(ready[t]) + 1
      BY SMTT(60), <1>1, <1>2, <2>2, <2>3, <2>4
    <2>5. CASE i # Len(ready[t]) + 1
      BY SMTT(60), <1>1, <1>2, <2>2, <2>3, <2>5 DEF ReadyOnce
    <2> QED
      BY SMTT(60), <2>4, <2>5
  <1>3. CASE u # t
    <2>1. ready'[u] = ready[u]
      BY ZenonT(60), <1>3 DEF TypeOK
    <2> QED
      BY SMTT(60), <1>1, <2>1 DEF ReadyOnce
  <1> QED
    BY SMTT(60), <1>2, <1>3

(* One task k changes state, on its own thread, from a state in which it is *)
(* in no queue: the queues of the others are not disturbed.                 *)
LEMMA KeepsQueues ==
    ASSUME TypeOK, NEW k \in Tasks, st[k] \notin {"queued", "ready"},
           \A j \in Tasks : j # k => st'[j] = st[j]
    PROVE  /\ QueuedOnce /\ work_queue' = work_queue => QueuedOnce'
           /\ ReadyOnce /\ ready' = ready /\ on' = on => ReadyOnce'
  <1>1. ASSUME QueuedOnce, work_queue' = work_queue PROVE QueuedOnce'
    <2>1. \A i \in 1..Len(work_queue) : work_queue[i] \in Tasks /\ work_queue[i] # k
      BY SMTT(60), <1>1 DEF QueuedOnce, TypeOK
    <2> QED
      BY SMTT(60), <1>1, <2>1 DEF QueuedOnce
  <1>2. ASSUME ReadyOnce, ready' = ready, on' = on PROVE ReadyOnce'
    <2>0. ReadyOnce
      BY <1>2
    <2>1. ASSUME NEW u \in Threads, NEW i \in 1..Len(ready[u]), ready[u][i] # Main
          PROVE  ready[u][i] \in Tasks /\ ready[u][i] # k
      <3>1. ready[u] \in Seq(Tasks \cup {Main})
        BY DEF TypeOK
      <3>2. ready[u][i] \in Tasks \cup {Main}
        BY <3>1
      <3> QED
        BY SMTT(60), <2>0, <2>1, <3>2 DEF ReadyOnce
    <2> QED
      BY SMTT(60), <1>2, <2>1 DEF ReadyOnce
  <1> QED
    BY <1>1, <1>2

(* A completion of an operation stays in the ring of the fiber's thread. *)
LEMMA IoDoneKeepsOnePlace ==
    ASSUME TypeOK, OnePlace, NEW k \in Tasks, KernelIoDone(k)
    PROVE  OnePlace'
  <1> USE DEF OnePlace
  <1>1. /\ UNCHANGED <<work_queue, unsignalled, posting, cur, pc, st, on, ready>>
        /\ io_cq' = [io_cq EXCEPT ![on[k]] = @ \cup {k}] /\ st[k] = "io"
    BY SMTT(60) DEF KernelIoDone, poolVars, fiberVars
  <1>2. QueuedOnce' /\ ReadyOnce' /\ PostedOnce'
    BY SMTT(60), <1>1 DEF QueuedOnce, ReadyOnce, PostedOnce
  <1>3. InOwnRing'
    BY SMTT(60), <1>1 DEF InOwnRing, TypeOK
  <1>4. RunningOnce' /\ Hosted'
    BY <1>1 DEF RunningOnce, RunsOn, Hosted
  <1> QED
    BY ZenonT(60), <1>2, <1>3, <1>4

(* complete() moves a fiber from its thread's ring to its ready queue. *)
LEMMA DrainIoKeepsOnePlace ==
    ASSUME TypeOK, OnePlace, NEW t \in Threads, NEW k \in Tasks, DrainIo(t, k)
    PROVE  OnePlace'
  <1> USE DEF OnePlace
  <1>1. /\ UNCHANGED <<work_queue, unsignalled, posting, cur, pc, on>>
        /\ io_cq' = [io_cq EXCEPT ![t] = @ \ {k}]
        /\ st' = [st EXCEPT ![k] = "ready"]
        /\ ready' = [ready EXCEPT ![t] = Append(@, k)]
    BY Zenon DEF DrainIo, poolVars
  <1>2. st[k] = "io" /\ on[k] = t
    BY Zenon DEF DrainIo, InOwnRing
  <1>3. st'[k] = "ready" /\ \A j \in Tasks : j # k => st'[j] = st[j]
    BY Zenon, <1>1 DEF TypeOK
  <1>4. QueuedOnce'
    BY <1>1, <1>2, <1>3, KeepsQueues
  <1>5. ReadyOnce'
    BY ZenonT(60), <1>1, <1>2, <1>3, EnqueueKeepsReadyOnce
  <1>6. InOwnRing'
    BY SMTT(60), <1>1, <1>2, <1>3 DEF InOwnRing, TypeOK
  <1>7. RunningOnce'
    BY SMTT(60), <1>1, <1>2, <1>3 DEF RunningOnce, RunsOn
  <1>8. Hosted'
    BY SMTT(60), <1>1, <1>2, <1>3 DEF Hosted, LiveStates
  <1>9. PostedOnce'
    BY SMTT(60), <1>1, <1>3 DEF PostedOnce, TypeOK
  <1> QED
    BY Zenon, <1>4, <1>5, <1>6, <1>7, <1>8, <1>9

(* launch_fiber puts the popped task on this thread's ready queue. *)
LEMMA LaunchKeepsOnePlace ==
    ASSUME TypeOK, OnePlace, NEW t \in Threads, LaunchFiber(t)
    PROVE  OnePlace'
  <1> DEFINE k == cur[t]
  <1> USE DEF OnePlace
  <1>1. /\ UNCHANGED <<work_queue, unsignalled, posting, cur, io_cq>>
        /\ pc[t] = "launch" /\ pc' = [pc EXCEPT ![t] = "rearm"]
        /\ st' = [st EXCEPT ![k] = "ready"] /\ on' = [on EXCEPT ![k] = t]
        /\ ready' = [ready EXCEPT ![t] = Append(@, k)]
    BY Zenon DEF LaunchFiber, At, Goto, poolVars
  <1>2. k \in Tasks /\ st[k] = "popped"
        /\ \A u \in Threads : pc[u] = "launch" /\ cur[u] = k => u = t
    BY SMTT(60), <1>1 DEF RunningOnce
  <1>3. /\ st'[k] = "ready" /\ \A j \in Tasks : j # k => st'[j] = st[j]
        /\ on'[k] = t /\ \A j \in Tasks : j # k => on'[j] = on[j]
        /\ \A u \in Threads : pc'[u] = IF u = t THEN "rearm" ELSE pc[u]
    BY Zenon, <1>1, <1>2 DEF TypeOK
  <1>4. QueuedOnce'
    BY Zenon, <1>1, <1>2, <1>3, KeepsQueues
  <1>5. ReadyOnce'
    <2>1. \A j \in Tasks : j # k => on'[j] = on[j] /\ (st[j] = "ready" => st'[j] = "ready")
      BY ZenonT(60), <1>3
    <2> QED
      BY ZenonT(60), <1>1, <1>2, <1>3, <2>1, EnqueueKeepsReadyOnce
  <1>6. InOwnRing'
    <2>1. \A j \in Tasks : st[j] = "io" => st'[j] = "io" /\ on'[j] = on[j]
      BY <1>2, <1>3
    <2>2. io_cq' = io_cq
      BY ZenonT(60), <1>1
    <2> QED
      BY SMTT(60), <2>1, <2>2 DEF InOwnRing, TypeOK
  <1>7. RunningOnce'
    BY SMTT(60), <1>1, <1>2, <1>3 DEF RunningOnce, RunsOn
  <1>8. Hosted'
    BY ZenonT(60), <1>2, <1>3 DEF Hosted, LiveStates
  <1>9. PostedOnce'
    BY SMTT(60), <1>1, <1>3 DEF PostedOnce, TypeOK
  <1> QED
    BY ZenonT(60), <1>4, <1>5, <1>6, <1>7, <1>8, <1>9

-----------------------------------------------------------------------------
(***************************************************************************)
(* The steps of a fiber keep each task in its one place, and so every step *)
(* of FiberPool does.                                                      *)
(***************************************************************************)

(* No post() begins or ends. *)
LEMMA PostsKept ==
    ASSUME TypeOK, PostedOnce, UNCHANGED <<unsignalled, posting>>,
           \A j \in Tasks : st[j] # "none" => st'[j] # "none",
           \A u \in Threads : pc'[u] = "post" => pc[u] = "post"
    PROVE  PostedOnce'
  BY Zenon DEF PostedOnce, TypeOK

(* A fiber that submits an operation leaves the thread for its ring. *)
LEMMA FiberIoKeepsOnePlace ==
    ASSUME TypeOK, OnePlace, NEW t \in Threads, NEW s \in {"io", "waiting"},
           pc[t] \in {"fiber", "await"}, pc' = [pc EXCEPT ![t] = "sched"],
           st' = [st EXCEPT ![cur[t]] = s],
           UNCHANGED <<work_queue, unsignalled, posting, cur, io_cq, on, ready>>
    PROVE  OnePlace'
  <1> DEFINE k == cur[t]
  <1> USE DEF OnePlace
  <1>1. k \in Tasks /\ st[k] = "running" /\ on[k] = t
    BY ZenonT(60) DEF RunningOnce, RunsOn
  <1>2. /\ st'[k] = s /\ \A j \in Tasks : j # k => st'[j] = st[j]
        /\ \A u \in Threads : pc'[u] = IF u = t THEN "sched" ELSE pc[u]
    BY <1>1 DEF TypeOK
  <1>3. QueuedOnce' /\ ReadyOnce'
    BY SMTT(60), <1>1, <1>2, KeepsQueues
  <1>4. InOwnRing'
    BY SMTT(60), <1>1, <1>2 DEF InOwnRing, TypeOK
  <1>5. RunningOnce'
    BY SMTT(60), <1>1, <1>2 DEF RunningOnce, RunsOn
  <1>6. Hosted'
    BY ZenonT(60), <1>1, <1>2 DEF Hosted, LiveStates
  <1>7. PostedOnce'
    BY <1>1, <1>2 DEF PostedOnce, TypeOK
  <1> QED
    BY Zenon, <1>3, <1>4, <1>5, <1>6, <1>7

(* A fiber in sync_wait gives the thread up until its task is done. *)
LEMMA AwaitKeepsOnePlace ==
    ASSUME TypeOK, OnePlace, NEW t \in Threads, FiberAwait(t)
    PROVE  OnePlace'
  <1>1. /\ UNCHANGED <<work_queue, unsignalled, posting, cur, io_cq, on, ready>>
        /\ pc[t] = "await"
    BY Zenon DEF FiberAwait, At, poolVars
  <1>2. CASE st[posting[t]] \in {"returned", "done"}
    <2>1. pc' = [pc EXCEPT ![t] = "fiber"] /\ st' = st
      BY SMTT(60), <1>2 DEF FiberAwait, Goto
    <2> USE DEF OnePlace
    <2>2. QueuedOnce' /\ ReadyOnce' /\ InOwnRing' /\ Hosted'
      BY SMTT(60), <1>1, <2>1 DEF QueuedOnce, ReadyOnce, InOwnRing, Hosted
    <2>3. RunningOnce' /\ PostedOnce'
      BY SMTT(60), <1>1, <2>1 DEF RunningOnce, RunsOn, PostedOnce, TypeOK
    <2> QED
      BY SMTT(60), <2>2, <2>3
  <1>3. CASE st[posting[t]] \notin {"returned", "done"}
    <2>1. pc' = [pc EXCEPT ![t] = "sched"] /\ st' = [st EXCEPT ![cur[t]] = "waiting"]
      BY Zenon, <1>3 DEF FiberAwait, Goto
    <2> QED
      BY ZenonT(60), <1>1, <2>1, FiberIoKeepsOnePlace
  <1> QED
    BY Zenon, <1>2, <1>3

(* A task that returns is still on its thread, and may wake its waiter. *)
LEMMA ReturnKeepsOnePlace ==
    ASSUME TypeOK, OnePlace, NEW t \in Threads, FiberReturn(t)
    PROVE  OnePlace'
  <1> DEFINE k == cur[t]  p == joiner[k]
  <1> USE DEF OnePlace
  <1>1. /\ UNCHANGED <<work_queue, unsignalled, posting, cur, io_cq, on>>
        /\ pc[t] = "fiber" /\ pc' = [pc EXCEPT ![t] = "dec"]
    BY ZenonT(60) DEF FiberReturn, At, Goto, poolVars
  <1>2. k \in Tasks /\ st[k] = "running" /\ on[k] = t
    BY Zenon, <1>1 DEF RunningOnce, RunsOn
  <1>3. \A u \in Threads : pc'[u] = IF u = t THEN "dec" ELSE pc[u]
    BY SMTT(60), <1>1 DEF TypeOK
  <1>4. PICK changed \in SUBSET Tasks :
           /\ k \in changed /\ st'[k] = "returned"
           /\ \A j \in changed : j # k => st[j] = "waiting" /\ st'[j] = "ready"
           /\ \A j \in Tasks : j \notin changed => st'[j] = st[j]
           /\ ReadyOnce'
    <2>1. CASE p # None /\ st[p] = "waiting"
      <3>1. /\ st' = [st EXCEPT ![k] = "returned", ![p] = "ready"]
            /\ ready' = [ready EXCEPT ![on[p]] = Append(@, p)]
        BY ZenonT(60), <2>1 DEF FiberReturn
      <3>2. p \in Tasks /\ p # k /\ on[p] \in Threads
        BY SMTT(60), <1>2, <2>1 DEF TypeOK, Hosted, LiveStates
      <3>3. /\ st'[k] = "returned" /\ st'[p] = "ready"
            /\ \A j \in Tasks : j # k /\ j # p => st'[j] = st[j]
        BY SMTT(60), <1>2, <3>1, <3>2 DEF TypeOK
      <3>4. \A j \in Tasks : j # p => on'[j] = on[j] /\ (st[j] = "ready" => st'[j] = "ready")
        BY Zenon, <1>1, <1>2, <3>3
      <3>5. ReadyOnce'
        BY ZenonT(60), <1>1, <2>1, <3>1, <3>2, <3>3, <3>4, EnqueueKeepsReadyOnce
      <3> {k, p} \in SUBSET Tasks
        BY ZenonT(60), <1>2, <3>2
      <3> WITNESS {k, p} \in SUBSET Tasks
      <3> QED
        BY ZenonT(60), <2>1, <3>2, <3>3, <3>5
    <2>2. CASE ~(p # None /\ st[p] = "waiting")
      <3>1. st' = [st EXCEPT ![k] = "returned"] /\ ready' = ready
        BY ZenonT(60), <2>2 DEF FiberReturn
      <3>2. st'[k] = "returned" /\ \A j \in Tasks : j # k => st'[j] = st[j]
        BY Zenon, <1>2, <3>1 DEF TypeOK
      <3>3. ReadyOnce'
        BY Zenon, <1>1, <1>2, <3>1, <3>2, KeepsQueues
      <3> {k} \in SUBSET Tasks
        BY Zenon, <1>2
      <3> WITNESS {k} \in SUBSET Tasks
      <3> QED
        BY ZenonT(60), <3>2, <3>3
    <2> QED
      BY Zenon, <2>1, <2>2
  <1>5. QueuedOnce'
    <2>1. \A i \in 1..Len(work_queue) : work_queue[i] \in Tasks
      BY SMTT(60) DEF TypeOK
    <2> QED
      BY SMTT(60), <1>1, <1>2, <1>4, <2>1 DEF QueuedOnce
  <1>6. InOwnRing'
    <2>1. \A j \in Tasks : st[j] = "io" => st'[j] = "io"
      BY SMTT(60), <1>2, <1>4
    <2> QED
      BY Zenon, <1>1, <2>1 DEF InOwnRing, TypeOK
  <1>7. RunningOnce'
    <2>1. cur' = cur /\ on' = on
      BY ZenonT(60), <1>1
    <2>2. ASSUME NEW j \in Tasks, st[j] \in {"running", "returned", "popped"}, j # k
          PROVE  st'[j] = st[j]
      BY ZenonT(60), <1>4, <2>2
    <2>3. ASSUME NEW u \in Threads, u # t, pc[u] \in {"fiber", "post", "await", "dec", "launch"}
          PROVE  cur[u] # k
      BY SMTT(60), <1>2, <2>3 DEF RunningOnce, RunsOn
    <2>4. ASSUME NEW u \in Threads, u # t
          PROVE  /\ pc[u] \in {"fiber", "post", "await"} => RunsOn(u, "running")'
                 /\ pc[u] = "dec" => RunsOn(u, "returned")'
                 /\ pc[u] = "launch" => cur[u] \in Tasks /\ st'[cur[u]] = "popped"
      BY SMTT(60), <2>1, <2>2, <2>3, <2>4 DEF RunningOnce, RunsOn
    <2>5. RunsOn(t, "returned")'
      BY Zenon, <1>2, <1>4, <2>1 DEF RunsOn
    <2> QED
      BY SMTT(60), <1>3, <2>1, <2>4, <2>5 DEF RunningOnce
  <1>8. Hosted'
    BY ZenonT(60), <1>1, <1>2, <1>4 DEF Hosted, LiveStates
  <1>9. PostedOnce'
    <2>1. \A j \in Tasks : st[j] # "none" => st'[j] # "none"
      BY Zenon, <1>2, <1>4
    <2>2. \A u \in Threads : pc'[u] = "post" => pc[u] = "post"
      BY Zenon, <1>3
    <2> QED
      BY ZenonT(60), <1>1, <2>1, <2>2, PostsKept
  <1> QED
    BY ZenonT(60), <1>4, <1>5, <1>6, <1>7, <1>8, <1>9

(* The fetch_sub in the epilogue ends the fiber on its thread. *)
LEMMA DecKeepsOnePlace ==
    ASSUME TypeOK, OnePlace, NEW t \in Threads, FiberDec(t)
    PROVE  OnePlace'
  <1> DEFINE k == cur[t]
  <1> USE DEF OnePlace
  <1>1. /\ UNCHANGED <<work_queue, unsignalled, posting, cur, io_cq, on, ready>>
        /\ pc[t] = "dec" /\ st' = [st EXCEPT ![k] = "done"]
    BY ZenonT(60) DEF FiberDec, At, poolVars
  <1>2. \A u \in Threads : IF u = t THEN pc'[u] \in {"notify", "sched"} ELSE pc'[u] = pc[u]
    BY ZenonT(60) DEF FiberDec, Goto, TypeOK
  <1>3. k \in Tasks /\ st[k] = "returned" /\ on[k] = t
    BY SMTT(60), <1>1 DEF RunningOnce, RunsOn
  <1>4. st'[k] = "done" /\ \A j \in Tasks : j # k => st'[j] = st[j]
    BY <1>1, <1>3 DEF TypeOK
  <1>5. QueuedOnce' /\ ReadyOnce'
    BY Zenon, <1>1, <1>3, <1>4, KeepsQueues
  <1>6. InOwnRing'
    BY SMTT(60), <1>1, <1>3, <1>4 DEF InOwnRing, TypeOK
  <1>7. RunningOnce'
    BY SMTT(60), <1>1, <1>2, <1>3, <1>4 DEF RunningOnce, RunsOn
  <1>8. Hosted'
    BY Zenon, <1>1, <1>3, <1>4 DEF Hosted, LiveStates
  <1>9. PostedOnce'
    <2>1. \A j \in Tasks : st[j] # "none" => st'[j] # "none"
      BY SMTT(60), <1>4
    <2>2. \A u \in Threads : pc'[u] = "post" => pc[u] = "post"
      BY <1>2
    <2> QED
      BY SMTT(60), <1>1, <2>1, <2>2, PostsKept
  <1> QED
    BY ZenonT(60), <1>5, <1>6, <1>7, <1>8, <1>9

(* Every step keeps each task in its one place. *)
LEMMA OnePlaceStep ==
    ASSUME TypeOK, OnePlace, [Next]_vars
    PROVE  OnePlace'
  <1>1. CASE QuietSteps
    BY <1>1, QuietStepsAreQuiet, QuietKeepsOnePlace
  <1>2. ASSUME NEW k \in Tasks, ClientPush(k) PROVE OnePlace'
    BY ZenonT(60), <1>2, PushKeepsOnePlace DEF ClientPush
  <1>3. ASSUME NEW k \in Tasks, ClientWrite(k) PROVE OnePlace'
    BY Zenon, <1>3, WriteKeepsOnePlace
  <1>4. ASSUME NEW t \in Threads, FiberWrite(t) PROVE OnePlace'
    BY <1>4, WriteKeepsOnePlace
  <1>5. ASSUME NEW t \in Threads, NEW c \in Tasks, FiberPost(t, c) \/ FiberSyncWait(t, c)
        PROVE  OnePlace'
    <2>1. FiberPush(t, c)
      BY Zenon, <1>5 DEF FiberPost, FiberSyncWait
    <2> QED
      BY ZenonT(60), <2>1, PushKeepsOnePlace DEF FiberPush, Goto, At
  <1>6. ASSUME NEW t \in Threads, FiberIo(t) PROVE OnePlace'
    <2>1. /\ pc[t] = "fiber" /\ pc' = [pc EXCEPT ![t] = "sched"]
          /\ st' = [st EXCEPT ![cur[t]] = "io"]
          /\ UNCHANGED <<work_queue, unsignalled, posting, cur, io_cq, on, ready>>
      BY Zenon, <1>6 DEF FiberIo, Goto, At, poolVars
    <2> QED
      BY ZenonT(60), <2>1, FiberIoKeepsOnePlace
  <1> QED
    BY SMTT(60), <1>1, <1>2, <1>3, <1>4, <1>5, <1>6, IoDoneKeepsOnePlace, PickNextKeepsOnePlace,
       DrainIoKeepsOnePlace, PopKeepsOnePlace, LaunchKeepsOnePlace, AwaitKeepsOnePlace,
       ReturnKeepsOnePlace, DecKeepsOnePlace
       DEF Next, ThreadStep, Drain, Fiber, QuietSteps

-----------------------------------------------------------------------------
(* LiveFibers is finite, so that it can be counted. *)
LEMMA LiveFibersFinite == IsFiniteSet(LiveFibers) /\ Cardinality(LiveFibers) \in Nat
  BY Zenon, PoolAssumption, FS_Subset, FS_CardinalityType DEF LiveFibers

(* A fiber that reaches its fetch_sub is counted, so in_flight_ cannot wrap. *)
LEMMA CountedAtDec ==
    ASSUME TypeOK, OnePlace, InFlightCounts, NEW t \in Threads, At(t, "dec")
    PROVE  in_flight > 0
  <1>1. cur[t] \in LiveFibers
    BY Zenon DEF OnePlace, RunningOnce, RunsOn, At, LiveFibers, LiveStates
  <1> QED
    BY SMTT(60), <1>1, LiveFibersFinite, FS_EmptySet DEF InFlightCounts, TypeOK

(***************************************************************************)
(* What a step does to the life of the tasks: it starts one post, launches *)
(* one fiber, ends one, or leaves every task in its stage of life.         *)
(***************************************************************************)
SameStage(k) ==
    /\ st'[k] = "none" <=> st[k] = "none"
    /\ st'[k] \in {"queued", "popped"} <=> st[k] \in {"queued", "popped"}
    /\ st'[k] \in LiveStates <=> st[k] \in LiveStates
    /\ st'[k] = "done" <=> st[k] = "done"
Push(k) ==
    /\ st[k] = "none" /\ st' = [st EXCEPT ![k] = "queued"]
    /\ stop_pc = "idle" \/ \E t \in Threads : pc[t] = "fiber"
    /\ UNCHANGED stop_pc

(* Only a launch, an epilogue and a push change the stage a task is in. *)
LEMMA LifeOfTasks ==
    ASSUME TypeOK, OnePlace, [Next]_vars
    PROVE  \/ \E t \in Threads : LaunchFiber(t) \/ FiberDec(t)
           \/ /\ UNCHANGED <<in_flight, on>>
              /\ \/ \E k \in Tasks : Push(k)
                 \/ \A k \in Tasks : SameStage(k)
  <1> USE DEF OnePlace, LiveStates, SameStage
  <1>1. CASE QuietSteps
    <2>1. st' = st /\ on' = on
      BY ZenonT(60), <1>1, QuietStepsAreQuiet DEF Quiet
    <2>2. in_flight' = in_flight
      BY ZenonT(60), <1>1 DEF QuietSteps, KernelReadWork, KernelReadError, SuspendUntil, DrainWork,
         DrainEnd, CheckRunning, Rearm, FiberNotify, MainFiber, MainLock, MainMustWait,
         MainExit, MainEnqueue, StopRequest, StopAction, StopLock, StopStore, StopNotify,
         StopUnlock, StopJoin, Destroyed, vars
    <2> QED
      BY SMTT(60), <2>1, <2>2
  <1>2. ASSUME NEW k \in Tasks, ClientPush(k)
        PROVE  UNCHANGED <<in_flight, on>> /\ Push(k)
    BY Zenon, <1>2 DEF ClientPush, PushWork, Push, stopVars
  <1>3. ASSUME NEW k \in Tasks, ClientWrite(k) \/ KernelIoDone(k)
        PROVE  UNCHANGED <<in_flight, on, st>>
    BY ZenonT(60), <1>3 DEF ClientWrite, KernelIoDone, fiberVars
  <1>4. ASSUME NEW t \in Threads, FiberWrite(t)
        PROVE  UNCHANGED <<in_flight, on, st>>
    BY ZenonT(60), <1>4 DEF FiberWrite, fiberVars
  <1>5. ASSUME NEW t \in Threads, NEW c \in Tasks, FiberPost(t, c) \/ FiberSyncWait(t, c)
        PROVE  UNCHANGED <<in_flight, on>> /\ Push(c)
    BY ZenonT(60), <1>5 DEF FiberPost, FiberSyncWait, FiberPush, PushWork, Push, stopVars, At
  <1>6. ASSUME NEW t \in Threads, PickNext(t)
        PROVE  UNCHANGED <<in_flight, on>> /\ \A k \in Tasks : SameStage(k)
    <2>1. UNCHANGED <<in_flight, on>>
      BY ZenonT(60), <1>6 DEF PickNext
    <2>2. CASE Head(ready[t]) = Main
      BY <1>6, <2>1, <2>2 DEF PickNext
    <2>3. CASE Head(ready[t]) # Main
      <3>1. st' = [st EXCEPT ![Head(ready[t])] = "running"] /\ ready[t] # <<>>
        BY SMTT(60), <1>6, <2>3 DEF PickNext
      <3>2. Head(ready[t]) = ready[t][1] /\ 1 \in 1..Len(ready[t])
        BY <3>1, PopFront DEF TypeOK
      <3>3. st[Head(ready[t])] = "ready"
        BY SMTT(60), <2>3, <3>2 DEF ReadyOnce
      <3> QED
        BY Zenon, <2>1, <3>1, <3>3 DEF TypeOK
    <2> QED
      BY ZenonT(60), <2>2, <2>3
  <1>7. ASSUME NEW t \in Threads, NEW k \in Tasks, DrainIo(t, k)
        PROVE  UNCHANGED <<in_flight, on>> /\ \A j \in Tasks : SameStage(j)
    <2>1. UNCHANGED <<in_flight, on>> /\ st' = [st EXCEPT ![k] = "ready"] /\ st[k] = "io"
      BY Zenon, <1>7 DEF DrainIo, InOwnRing
    <2> QED
      BY Zenon, <2>1 DEF TypeOK
  <1>8. ASSUME NEW t \in Threads, PopWork(t)
        PROVE  UNCHANGED <<in_flight, on>> /\ \A k \in Tasks : SameStage(k)
    <2>1. UNCHANGED <<in_flight, on>>
      BY ZenonT(60), <1>8 DEF PopWork
    <2>2. CASE work_queue = <<>>
      BY Zenon, <1>8, <2>1, <2>2 DEF PopWork
    <2>3. CASE work_queue # <<>>
      <3>1. st' = [st EXCEPT ![Head(work_queue)] = "popped"]
        BY <1>8, <2>3 DEF PopWork
      <3>2. Head(work_queue) = work_queue[1] /\ 1 \in 1..Len(work_queue)
        BY SMTT(60), <2>3, PopFront DEF TypeOK
      <3>3. st[Head(work_queue)] = "queued"
        BY <3>2 DEF QueuedOnce
      <3> QED
        BY SMTT(60), <2>1, <3>1, <3>3 DEF TypeOK
    <2> QED
      BY ZenonT(60), <2>2, <2>3
  <1>9. ASSUME NEW t \in Threads, FiberIo(t)
        PROVE  UNCHANGED <<in_flight, on>> /\ \A k \in Tasks : SameStage(k)
    <2>1. /\ UNCHANGED <<in_flight, on>> /\ st' = [st EXCEPT ![cur[t]] = "io"]
          /\ st[cur[t]] = "running"
      BY ZenonT(60), <1>9 DEF FiberIo, RunningOnce, RunsOn, At
    <2> QED
      BY ZenonT(60), <2>1 DEF TypeOK
  <1>10. ASSUME NEW t \in Threads, FiberAwait(t)
         PROVE  UNCHANGED <<in_flight, on>> /\ \A k \in Tasks : SameStage(k)
    <2>1. /\ UNCHANGED <<in_flight, on>> /\ st[cur[t]] = "running"
          /\ st' = st \/ st' = [st EXCEPT ![cur[t]] = "waiting"]
      BY Zenon, <1>10 DEF FiberAwait, RunningOnce, RunsOn, At
    <2> QED
      BY SMTT(60), <2>1 DEF TypeOK
  <1>11. ASSUME NEW t \in Threads, FiberReturn(t)
         PROVE  UNCHANGED <<in_flight, on>> /\ \A k \in Tasks : SameStage(k)
    <2> DEFINE p == joiner[cur[t]]
    <2>1. /\ UNCHANGED <<in_flight, on>> /\ cur[t] \in Tasks /\ st[cur[t]] = "running"
          /\ \/ st' = [st EXCEPT ![cur[t]] = "returned"]
             \/ st[p] = "waiting" /\ st' = [st EXCEPT ![cur[t]] = "returned", ![p] = "ready"]
      BY ZenonT(60), <1>11 DEF FiberReturn, RunningOnce, RunsOn, At
    <2>2. CASE st' = [st EXCEPT ![cur[t]] = "returned"]
      BY ZenonT(60), <2>1, <2>2 DEF TypeOK
    <2>3. CASE st[p] = "waiting" /\ st' = [st EXCEPT ![cur[t]] = "returned", ![p] = "ready"]
      <3>1. \A k \in Tasks : st'[k] = IF k = p THEN "ready"
                                      ELSE IF k = cur[t] THEN "returned" ELSE st[k]
        BY SMTT(60), <2>1, <2>3 DEF TypeOK
      <3>2. \A k \in Tasks : \/ st'[k] = st[k]
                             \/ /\ st'[k] \in {"ready", "returned"}
                                /\ st[k] \in {"running", "waiting"}
        BY ZenonT(60), <2>1, <2>3, <3>1
      <3> QED
        BY SMTT(60), <2>1, <3>2
    <2> QED
      BY ZenonT(60), <2>1, <2>2, <2>3
  <1>12. \/ QuietSteps
         \/ \E k \in Tasks : ClientPush(k) \/ ClientWrite(k) \/ KernelIoDone(k)
         \/ \E t \in Threads :
               \/ PickNext(t) \/ PopWork(t) \/ LaunchFiber(t) \/ FiberIo(t) \/ FiberWrite(t)
               \/ FiberAwait(t) \/ FiberReturn(t) \/ FiberDec(t)
               \/ \E k \in Tasks : DrainIo(t, k) \/ FiberPost(t, k) \/ FiberSyncWait(t, k)
    BY Zenon DEF Next, ThreadStep, Drain, Fiber, QuietSteps
  <1> QED
    BY ZenonT(60), <1>1, <1>2, <1>3, <1>4, <1>5, <1>6, <1>7, <1>8, <1>9, <1>10, <1>11, <1>12

(* in_flight_ goes up with the launch of a fiber that was not live and down *)
(* with the epilogue of one that was.                                       *)
LEMMA InFlightStep ==
    ASSUME TypeOK, OnePlace, InFlightCounts, [Next]_vars
    PROVE  InFlightCounts'
  <1>1. ASSUME NEW t \in Threads, LaunchFiber(t) PROVE InFlightCounts'
    <2>1. cur[t] \in Tasks /\ cur[t] \notin LiveFibers
      BY ZenonT(60), <1>1 DEF LaunchFiber, OnePlace, RunningOnce, At, LiveFibers, LiveStates
    <2>2. LiveFibers' = LiveFibers \cup {cur[t]}
      BY SMTT(60), <1>1, <2>1 DEF LaunchFiber, LiveFibers, LiveStates, TypeOK
    <2>3. in_flight' = in_flight + 1
      BY ZenonT(60), <1>1 DEF LaunchFiber
    <2> QED
      BY ZenonT(60), <2>1, <2>2, <2>3, LiveFibersFinite, FS_AddElement DEF InFlightCounts
  <1>2. ASSUME NEW t \in Threads, FiberDec(t) PROVE InFlightCounts'
    <2>1. cur[t] \in LiveFibers
      BY SMTT(60), <1>2 DEF FiberDec, OnePlace, RunningOnce, RunsOn, At, LiveFibers, LiveStates
    <2>2. LiveFibers' = LiveFibers \ {cur[t]}
      BY Zenon, <1>2, <2>1 DEF FiberDec, LiveFibers, LiveStates, TypeOK
    <2>3. in_flight' = in_flight - 1
      BY Zenon, <1>2 DEF FiberDec
    <2> QED
      BY ZenonT(60), <2>1, <2>2, <2>3, LiveFibersFinite, FS_RemoveElement DEF InFlightCounts
  <1>3. ASSUME NEW k \in Tasks, Push(k), UNCHANGED in_flight PROVE InFlightCounts'
    <2>1. LiveFibers' = LiveFibers
      BY <1>3 DEF Push, LiveFibers, LiveStates, TypeOK
    <2> QED
      BY SMTT(60), <1>3, <2>1 DEF InFlightCounts
  <1>4. ASSUME \A k \in Tasks : SameStage(k), UNCHANGED in_flight PROVE InFlightCounts'
    <2>1. LiveFibers' = LiveFibers
      BY SMTT(60), <1>4 DEF SameStage, LiveFibers
    <2> QED
      BY Zenon, <1>4, <2>1 DEF InFlightCounts
  <1> QED
    BY <1>1, <1>2, <1>3, <1>4, LifeOfTasks

-----------------------------------------------------------------------------
(* What a step does to the running_ flag, to the threads that have left     *)
(* worker(), and to the destructor.                                         *)
LEMMA ExitsAreFinal ==
    ASSUME TypeOK, [Next]_vars
    PROVE  /\ ~running => ~running'
           /\ \A t \in Threads : pc[t] = "exited" => pc'[t] = "exited"
           /\ \A t \in Threads : pc[t] # "exited" /\ pc'[t] = "exited" => MainExit(t)
           /\ stop_pc = "joined" => stop_pc' = "joined"
           /\ stop_pc # "joined" /\ stop_pc' = "joined" => StopJoin
  <1> USE DEF TypeOK, At, Goto, stopVars
  <1>1. ASSUME NEW k \in Tasks, ClientPush(k) \/ ClientWrite(k) \/ KernelIoDone(k)
        PROVE  UNCHANGED <<running, pc, stop_pc>>
    BY SMTT(60), <1>1 DEF ClientPush, ClientWrite, KernelIoDone
  <1>2. ASSUME NEW t \in Threads, KernelReadWork(t) \/ KernelReadError(t)
        PROVE  UNCHANGED <<running, pc, stop_pc>>
    BY SMTT(60), <1>2 DEF KernelReadWork, KernelReadError
  <1>3. CASE StopRequest \/ StopAction \/ Destroyed \/ UNCHANGED vars
    <2>1. CASE StopRequest
      BY SMTT(60), <2>1 DEF StopRequest
    <2>2. CASE StopLock
      BY Zenon, <2>2 DEF StopLock
    <2>3. CASE StopStore
      BY Zenon, <2>3 DEF StopStore
    <2>4. CASE StopNotify
      BY SMTT(60), <2>4 DEF StopNotify
    <2>5. CASE StopUnlock
      BY Zenon, <2>5 DEF StopUnlock
    <2>6. CASE StopJoin
      BY Zenon, <2>6 DEF StopJoin
    <2>7. CASE Destroyed
      BY SMTT(60), <2>7 DEF Destroyed, vars
    <2>8. CASE UNCHANGED vars
      BY Zenon, <2>8 DEF vars
    <2> QED
      BY ZenonT(60), <1>3, <2>1, <2>2, <2>3, <2>4, <2>5, <2>6, <2>7, <2>8 DEF StopAction
  <1>4. ASSUME NEW t \in Threads, ThreadStep(t)
        PROVE  /\ UNCHANGED <<running, stop_pc>>
               /\ pc[t] # "exited" /\ (pc'[t] = "exited" => MainExit(t))
               /\ \A u \in Threads : u # t => pc'[u] = pc[u]
    <2>1. CASE Drain(t)
      BY ZenonT(60), <2>1 DEF Drain, SuspendUntil, DrainWork, DrainEnd, CheckRunning, PopWork,
                  LaunchFiber, Rearm, DrainIo
    <2>2. CASE Fiber(t)
      BY ZenonT(60), <2>2 DEF Fiber, FiberIo, FiberWrite, FiberAwait, FiberReturn, FiberDec,
                  FiberNotify, FiberPost, FiberSyncWait, FiberPush
    <2>3. CASE MainFiber(t) \/ PickNext(t)
      BY ZenonT(60), <2>3 DEF MainFiber, MainLock, MainExit, MainMustWait, MainEnqueue, PickNext
    <2> QED
      BY Zenon, <1>4, <2>1, <2>2, <2>3 DEF ThreadStep
  <1> QED
    BY SMTT(60), <1>1, <1>2, <1>3, <1>4 DEF Next

(* A worker that leaves sees in_flight_ = 0, hence no live fiber anywhere;  *)
(* later steps launch fibers only on threads that are still there.          *)
LEMMA SafeExitStep ==
    ASSUME TypeOK, OnePlace, InFlightCounts, SafeExit, [Next]_vars
    PROVE  SafeExit'
  <1> SUFFICES ASSUME NEW t \in Threads, pc'[t] = "exited"
               PROVE  ~running' /\ \A k \in Tasks : on'[k] = t => st'[k] = "done"
    BY ZenonT(60) DEF SafeExit
  <1>1. CASE pc[t] = "exited"
    <2>1. ~running' /\ \A k \in Tasks : on[k] = t => st[k] = "done"
      BY ZenonT(60), <1>1, ExitsAreFinal DEF SafeExit
    <2>2. ASSUME NEW u \in Threads, LaunchFiber(u)
          PROVE  \A k \in Tasks : on'[k] = t => st'[k] = "done"
      <3>1. /\ pc[u] = "launch" /\ on' = [on EXCEPT ![cur[u]] = u]
            /\ st' = [st EXCEPT ![cur[u]] = "ready"]
        BY SMTT(60), <2>2 DEF LaunchFiber, At
      <3>2. u # t
        BY SMTT(60), <1>1, <3>1
      <3> QED
        BY SMTT(60), <2>1, <3>1, <3>2 DEF TypeOK
    <2>3. ASSUME NEW u \in Threads, FiberDec(u)
          PROVE  \A k \in Tasks : on'[k] = t => st'[k] = "done"
      BY SMTT(60), <2>1, <2>3 DEF FiberDec, TypeOK
    <2>4. ASSUME NEW k \in Tasks, Push(k), UNCHANGED on
          PROVE  \A j \in Tasks : on'[j] = t => st'[j] = "done"
      BY Zenon, <2>1, <2>4 DEF Push, TypeOK
    <2>5. ASSUME \A k \in Tasks : SameStage(k), UNCHANGED on
          PROVE  \A j \in Tasks : on'[j] = t => st'[j] = "done"
      BY Zenon, <2>1, <2>5 DEF SameStage
    <2> QED
      BY ZenonT(60), <2>1, <2>2, <2>3, <2>4, <2>5, LifeOfTasks
  <1>2. CASE pc[t] # "exited"
    <2>1. MainExit(t)
      BY Zenon, <1>2, ExitsAreFinal
    <2>2. ~running /\ in_flight = 0 /\ UNCHANGED <<running, st, on>>
      BY Zenon, <2>1 DEF MainExit, DrainedPredicate, stopVars, fiberVars
    <2>3. LiveFibers = {}
      BY ZenonT(60), <2>2, LiveFibersFinite, FS_EmptySet DEF InFlightCounts
    <2>4. \A k \in Tasks : on[k] = t => st[k] = "done"
      BY Zenon, <2>3, NamesAreDistinct DEF OnePlace, Hosted, LiveFibers
    <2> QED
      BY <2>2, <2>4
  <1> QED
    BY Zenon, <1>1, <1>2

(* Once the destructor has joined them, every thread has left. *)
JoinedThreads == stop_pc = "joined" => \A t \in Threads : pc[t] = "exited"

(* The destructor has joined only threads that have exited. *)
LEMMA JoinedStep ==
    ASSUME TypeOK, JoinedThreads, [Next]_vars
    PROVE  JoinedThreads'
  <1>1. StopJoin => UNCHANGED pc /\ \A t \in Threads : pc[t] = "exited"
    BY SMTT(60) DEF StopJoin, At
  <1> QED
    BY ZenonT(60), <1>1, ExitsAreFinal DEF JoinedThreads

-----------------------------------------------------------------------------
(***************************************************************************)
(* The wakeups of FiberPool match its queued tasks.                        *)
(***************************************************************************)

(* A thread spends its wakeup before it arms the next read: while it is     *)
(* between the drain of a work completion and the rearm, no read is pending.*)
OneReadPerThread ==
    \A t \in Threads : pc[t] \in {"check", "pop", "launch", "rearm"} => work_read[t] = "off"

(* The steps that touch neither the eventfd nor the threads' reads of it.   *)
TokenNeutral ==
    /\ UNCHANGED <<work_queue, eventfd, unsignalled, work_read>>
    /\ running' => running
    /\ \A t \in Threads : pc'[t] = pc[t] \/ (pc[t] \notin {"check", "pop"}
                                             /\ pc'[t] \notin {"check", "pop", "launch"}
                                             /\ (pc'[t] = "rearm" => pc[t] = "launch")
                                             /\ (pc[t] = "launch" => pc'[t] = "rearm")
                                             /\ pc[t] # "rearm")

(* All steps but the ones listed leave the wakeups and the queue alone. *)
LEMMA NeutralSteps ==
    ASSUME TypeOK, [Next]_vars
    PROVE  \/ TokenNeutral
           \/ \E k \in Tasks : ClientPush(k) \/ ClientWrite(k)
           \/ \E t \in Threads :
                 \/ KernelReadWork(t) \/ KernelReadError(t) \/ DrainWork(t)
                 \/ CheckRunning(t) \/ PopWork(t) \/ Rearm(t) \/ FiberWrite(t)
                 \/ \E c \in Tasks : FiberPush(t, c)
  <1> USE DEF TypeOK, At, Goto, poolVars, stopVars, kernVars, TokenNeutral
  <1>1. ASSUME NEW k \in Tasks, KernelIoDone(k) PROVE TokenNeutral
    BY SMTT(60), <1>1 DEF KernelIoDone
  <1>2. ASSUME NEW t \in Threads, SuspendUntil(t) \/ DrainEnd(t) \/ LaunchFiber(t)
                                  \/ \E k \in Tasks : DrainIo(t, k)
        PROVE  TokenNeutral
    <2>1. CASE SuspendUntil(t)
      BY SMTT(60), <2>1 DEF SuspendUntil
    <2>2. CASE DrainEnd(t)
      BY ZenonT(60), <2>2 DEF DrainEnd
    <2>3. CASE LaunchFiber(t)
      BY SMTT(60), <2>3 DEF LaunchFiber
    <2>4. CASE \E k \in Tasks : DrainIo(t, k)
      BY SMTT(60), <2>4 DEF DrainIo
    <2> QED
      BY ZenonT(60), <1>2, <2>1, <2>2, <2>3, <2>4
  <1>3. ASSUME NEW t \in Threads, FiberIo(t) \/ FiberAwait(t) \/ FiberReturn(t)
                                  \/ FiberDec(t) \/ FiberNotify(t)
        PROVE  TokenNeutral
    <2>1. CASE FiberIo(t)
      BY SMTT(60), <2>1 DEF FiberIo
    <2>2. CASE FiberAwait(t)
      BY SMTT(60), <2>2 DEF FiberAwait
    <2>3. CASE FiberReturn(t)
      BY SMTT(60), <2>3 DEF FiberReturn
    <2>4. CASE FiberDec(t)
      BY Zenon, <2>4 DEF FiberDec
    <2>5. CASE FiberNotify(t)
      BY Zenon, <2>5 DEF FiberNotify
    <2> QED
      BY ZenonT(60), <1>3, <2>1, <2>2, <2>3, <2>4, <2>5
  <1>4. ASSUME NEW t \in Threads, PickNext(t) \/ MainFiber(t) PROVE TokenNeutral
    <2>1. CASE PickNext(t)
      BY SMTT(60), <2>1 DEF PickNext
    <2>2. CASE MainLock(t)
      BY ZenonT(60), <2>2 DEF MainLock
    <2>3. CASE MainExit(t)
      BY SMTT(60), <2>3 DEF MainExit
    <2>4. CASE MainMustWait(t)
      BY ZenonT(60), <2>4 DEF MainMustWait
    <2>5. CASE MainEnqueue(t)
      BY SMTT(60), <2>5 DEF MainEnqueue
    <2> QED
      BY ZenonT(60), <1>4, <2>1, <2>2, <2>3, <2>4, <2>5 DEF MainFiber
  <1>5. CASE StopRequest \/ StopAction \/ Destroyed \/ UNCHANGED vars
    BY ZenonT(60), <1>5 DEF StopRequest, StopAction, StopLock, StopStore, StopNotify, StopUnlock,
                StopJoin, Destroyed, vars
  <1> QED
    BY ZenonT(60), <1>1, <1>2, <1>3, <1>4, <1>5
       DEF Next, ThreadStep, Drain, Fiber, FiberPost, FiberSyncWait

(* No step arms or completes a read of a thread that holds a wakeup. *)
LEMMA OneReadStep ==
    ASSUME TypeOK, OneReadPerThread, [Next]_vars
    PROVE  OneReadPerThread'
  <1> USE DEF TypeOK, At, Goto, OneReadPerThread, kernVars
  <1>1. CASE TokenNeutral
    BY SMTT(60), <1>1 DEF TokenNeutral
  <1>2. ASSUME NEW k \in Tasks, ClientPush(k) \/ ClientWrite(k) PROVE OneReadPerThread'
    BY Zenon, <1>2 DEF ClientPush, ClientWrite
  <1>3. ASSUME NEW t \in Threads, KernelReadWork(t) \/ KernelReadError(t)
        PROVE  OneReadPerThread'
    BY Zenon, <1>3 DEF KernelReadWork, KernelReadError
  <1>4. ASSUME NEW t \in Threads, DrainWork(t) \/ CheckRunning(t) \/ Rearm(t)
        PROVE  OneReadPerThread'
    BY SMTT(60), <1>4 DEF DrainWork, CheckRunning, Rearm
  <1>5. ASSUME NEW t \in Threads, PopWork(t) \/ FiberWrite(t) PROVE OneReadPerThread'
    BY ZenonT(60), <1>5 DEF PopWork, FiberWrite
  <1>6. ASSUME NEW t \in Threads, NEW c \in Tasks, FiberPush(t, c) PROVE OneReadPerThread'
    BY SMTT(60), <1>6 DEF FiberPush
  <1> QED
    BY ZenonT(60), <1>1, <1>2, <1>3, <1>4, <1>5, <1>6, NeutralSteps

(* While the pool runs, a step that spends a thread's read leads to its rearm. *)
LEMMA ReadsStep ==
    ASSUME TypeOK, ReadsArmed, [Next]_vars
    PROVE  ReadsArmed'
  <1> DEFINE Busy == {"check", "pop", "launch", "rearm"}
  <1> SUFFICES ASSUME running', NEW u \in Threads, work_read'[u] = "off" PROVE pc'[u] \in Busy
    BY Zenon DEF ReadsArmed
  <1>0. /\ running /\ work_read[u] = "off" => pc[u] \in Busy
        /\ pc \in [Threads -> ThreadPCs]
        /\ work_read \in [Threads -> {"armed", "done", "failed", "off"}]
    BY Zenon DEF ReadsArmed, TypeOK
  <1>1. CASE TokenNeutral
    BY SMTT(60), <1>0, <1>1 DEF TokenNeutral
  <1>2. ASSUME UNCHANGED <<work_read, running>>, pc' = pc PROVE pc'[u] \in Busy
    BY Zenon, <1>0, <1>2
  <1>3. ASSUME NEW t \in Threads, UNCHANGED <<work_read, running>>, NEW l,
               pc' = [pc EXCEPT ![t] = l], pc[t] \in Busy => l \in Busy
        PROVE  pc'[u] \in Busy
    BY Zenon, <1>0, <1>3
  <1>4. ASSUME NEW k \in Tasks, ClientPush(k) \/ ClientWrite(k) PROVE pc'[u] \in Busy
    BY Zenon, <1>2, <1>4 DEF ClientPush, ClientWrite, kernVars, stopVars
  <1>5. ASSUME NEW t \in Threads, KernelReadWork(t) \/ KernelReadError(t)
        PROVE  pc'[u] \in Busy
    <2>1. /\ UNCHANGED <<pc, running>>
          /\ \E v \in {"done", "failed"} : work_read' = [work_read EXCEPT ![t] = v]
      BY Zenon, <1>5 DEF KernelReadWork, KernelReadError, stopVars
    <2>2. work_read[u] = "off"
      BY <1>0, <2>1
    <2> QED
      BY Zenon, <1>0, <2>1, <2>2
  <1>6. ASSUME NEW t \in Threads, DrainWork(t) PROVE pc'[u] \in Busy
    <2>1. /\ running' = running /\ work_read' = [work_read EXCEPT ![t] = "off"]
          /\ pc' = [pc EXCEPT ![t] = "check"] \/ pc' = [pc EXCEPT ![t] = "rearm"]
      BY Zenon, <1>6 DEF DrainWork, Goto, stopVars
    <2> QED
      BY Zenon, <1>0, <2>1
  <1>7. ASSUME NEW t \in Threads, Rearm(t) PROVE pc'[u] \in Busy
    <2>1. /\ running' = running
          /\ work_read' = [work_read EXCEPT ![t] = IF running THEN "armed" ELSE "off"]
          /\ pc' = [pc EXCEPT ![t] = "drain"]
      BY Zenon, <1>7 DEF Rearm, Goto, stopVars
    <2> QED
      BY Zenon, <1>0, <2>1
  <1>8. ASSUME NEW t \in Threads, CheckRunning(t) \/ PopWork(t) PROVE pc'[u] \in Busy
    <2>1. /\ UNCHANGED <<work_read, running>>
          /\ \E l \in Busy : pc' = [pc EXCEPT ![t] = l]
      BY Zenon, <1>8 DEF CheckRunning, PopWork, Goto, kernVars, stopVars
    <2> QED
      BY Zenon, <1>3, <2>1
  <1>9. ASSUME NEW t \in Threads, FiberWrite(t) \/ \E c \in Tasks : FiberPush(t, c)
        PROVE  pc'[u] \in Busy
    <2>1. /\ UNCHANGED <<work_read, running>> /\ pc[t] \notin Busy
          /\ \E l \in ThreadPCs : pc' = [pc EXCEPT ![t] = l]
      BY Zenon, <1>9 DEF FiberWrite, FiberPush, At, Goto, kernVars, stopVars, ThreadPCs
    <2> QED
      BY Zenon, <1>3, <2>1
  <1> QED
    BY ZenonT(60), <1>1, <1>4, <1>5, <1>6, <1>7, <1>8, <1>9, NeutralSteps

(* The sets that TokenAccounting counts are finite. *)
LEMMA TokensFinite ==
    ASSUME TypeOK
    PROVE  /\ IsFiniteSet(TokenHolders) /\ Cardinality(TokenHolders) \in Nat
           /\ IsFiniteSet(unsignalled) /\ Cardinality(unsignalled) \in Nat
           /\ eventfd \in Nat /\ Len(work_queue) \in Nat
  <1>1. IsFiniteSet(TokenHolders) /\ IsFiniteSet(unsignalled)
    <2>1. TokenHolders \subseteq Threads /\ unsignalled \subseteq Tasks
      BY DEF TokenHolders, TypeOK
    <2> QED
      BY ZenonT(60), <2>1, PoolAssumption, FS_Subset
  <1> QED
    BY <1>1, FS_CardinalityType DEF TypeOK

(* A push adds a task and an unsignalled post, a write turns that post into *)
(* a unit, the kernel hands the unit to a thread, and the thread spends it  *)
(* on one pop: each step keeps the balance, or, once the pool is stopped,   *)
(* drops a wakeup.                                                          *)
LEMMA TokenStep ==
    ASSUME TypeOK, OnePlace, OneReadPerThread, Balanced, [Next]_vars
    PROVE  Balanced'
  <1>0. /\ Cardinality(TokenHolders) \in Nat /\ Cardinality(unsignalled) \in Nat
        /\ eventfd \in Nat /\ Len(work_queue) \in Nat
        /\ IsFiniteSet(TokenHolders) /\ IsFiniteSet(unsignalled)
    BY Zenon, TokensFinite
  <1>1. CASE TokenNeutral
    <2>1. TokenHolders' = TokenHolders
      BY ZenonT(60), <1>1 DEF TokenNeutral, TokenHolders
    <2> QED
      BY ZenonT(60), <1>1, <2>1 DEF TokenNeutral, Balanced, Wakeups
  <1>2. ASSUME NEW k \in Tasks, PushWork(k), UNCHANGED <<eventfd, running, TokenHolders>>
        PROVE  Balanced'
    <2>1. k \notin unsignalled /\ unsignalled' = unsignalled \cup {k}
      BY Zenon, <1>2 DEF PushWork, OnePlace, PostedOnce
    <2>2. Cardinality(unsignalled') = Cardinality(unsignalled) + 1
      BY ZenonT(60), <1>0, <2>1, FS_AddElement
    <2>3. Len(work_queue') = Len(work_queue) + 1
      BY ZenonT(60), <1>2, PushBack DEF PushWork, TypeOK
    <2> QED
      BY SMTT(60), <1>0, <1>2, <2>2, <2>3 DEF Balanced, Wakeups
  <1>3. ASSUME NEW k \in unsignalled, WriteEventfd(k),
               UNCHANGED <<work_queue, running, TokenHolders>>
        PROVE  Balanced'
    <2>1. unsignalled' = unsignalled \ {k} /\ eventfd' = eventfd + 1
      BY Zenon, <1>3 DEF WriteEventfd
    <2>2. Cardinality(unsignalled') = Cardinality(unsignalled) - 1
      BY ZenonT(60), <1>0, <2>1, FS_RemoveElement
    <2> QED
      BY <1>0, <1>3, <2>1, <2>2 DEF Balanced, Wakeups
  <1>4. ASSUME NEW k \in Tasks, ClientPush(k) \/ ClientWrite(k) PROVE Balanced'
    <2>1. UNCHANGED <<running, TokenHolders>>
      BY ZenonT(60), <1>4 DEF ClientPush, ClientWrite, stopVars, kernVars, TokenHolders
    <2> QED
      BY <1>2, <1>3, <1>4, <2>1 DEF ClientPush, ClientWrite
  <1>5. ASSUME NEW t \in Threads, NEW c \in Tasks, FiberPush(t, c) PROVE Balanced'
    <2>1. UNCHANGED <<running, TokenHolders>>
      BY SMTT(60), <1>5 DEF FiberPush, At, Goto, stopVars, kernVars, TokenHolders, TypeOK
    <2> QED
      BY ZenonT(60), <1>2, <1>5, <2>1 DEF FiberPush
  <1>6. ASSUME NEW t \in Threads, FiberWrite(t) PROVE Balanced'
    <2>1. UNCHANGED <<running, TokenHolders>>
      BY SMTT(60), <1>6 DEF FiberWrite, At, Goto, stopVars, kernVars, TokenHolders, TypeOK
    <2>2. posting[t] \in unsignalled
      BY ZenonT(60), <1>6 DEF FiberWrite, At, OnePlace, PostedOnce
    <2> QED
      BY ZenonT(60), <1>3, <1>6, <2>1, <2>2 DEF FiberWrite
  <1>7. ASSUME NEW t \in Threads, KernelReadWork(t) PROVE Balanced'
    <2>1. /\ eventfd > 0 /\ eventfd' = eventfd - 1 /\ work_read[t] = "armed"
          /\ work_read' = [work_read EXCEPT ![t] = "done"]
          /\ UNCHANGED <<work_queue, unsignalled, running, pc>>
      BY SMTT(60), <1>7 DEF KernelReadWork, stopVars
    <2>2. t \notin TokenHolders /\ TokenHolders' = TokenHolders \cup {t}
      BY SMTT(60), <2>1 DEF TokenHolders, OneReadPerThread, TypeOK
    <2>3. Cardinality(TokenHolders') = Cardinality(TokenHolders) + 1
      BY ZenonT(60), <1>0, <2>2, FS_AddElement
    <2> QED
      BY SMTT(60), <1>0, <2>1, <2>3 DEF Balanced, Wakeups
  <1>8. ASSUME NEW t \in Threads, KernelReadError(t) PROVE Balanced'
    <2>1. TokenHolders' = TokenHolders
      BY SMTT(60), <1>8 DEF KernelReadError, TokenHolders, TypeOK
    <2> QED
      BY ZenonT(60), <1>8, <2>1 DEF KernelReadError, Balanced, Wakeups, poolVars, stopVars
  <1>9. ASSUME NEW t \in Threads, DrainWork(t) PROVE Balanced'
    <2>1. TokenHolders' = TokenHolders
      BY SMTT(60), <1>9 DEF DrainWork, TokenHolders, TypeOK, At, Goto
    <2> QED
      BY SMTT(60), <1>9, <2>1 DEF DrainWork, Balanced, Wakeups, poolVars, stopVars
  <1>10. ASSUME NEW t \in Threads, Rearm(t) PROVE Balanced'
    <2>1. TokenHolders' = TokenHolders
      BY SMTT(60), <1>10 DEF Rearm, TokenHolders, OneReadPerThread, TypeOK, At, Goto
    <2> QED
      BY SMTT(60), <1>10, <2>1 DEF Rearm, Balanced, Wakeups, poolVars, stopVars
  <1>11. ASSUME NEW t \in Threads, CheckRunning(t) PROVE Balanced'
    <2>1. UNCHANGED <<work_queue, eventfd, unsignalled, running>>
      BY Zenon, <1>11 DEF CheckRunning, poolVars, stopVars
    <2>2. CASE running
      <3>1. TokenHolders' = TokenHolders
        BY <1>11, <2>2 DEF CheckRunning, TokenHolders, TypeOK, At, Goto, kernVars
      <3> QED
        BY SMTT(60), <2>1, <3>1 DEF Balanced, Wakeups
    <2>3. CASE ~running
      <3>1. t \in TokenHolders /\ TokenHolders' = TokenHolders \ {t}
        BY Zenon, <1>11, <2>3 DEF CheckRunning, TokenHolders, OneReadPerThread, TypeOK, At, Goto,
                           kernVars
      <3>2. Cardinality(TokenHolders') = Cardinality(TokenHolders) - 1
        BY ZenonT(60), <1>0, <3>1, FS_RemoveElement
      <3> QED
        BY SMTT(60), <1>0, <2>1, <2>3, <3>2 DEF Balanced, Wakeups
    <2> QED
      BY Zenon, <2>2, <2>3
  <1>12. ASSUME NEW t \in Threads, PopWork(t) PROVE Balanced'
    <2>1. t \in TokenHolders
      BY Zenon, <1>12 DEF PopWork, At, TokenHolders
    <2>2. work_queue # <<>>
      <3>1. Cardinality(TokenHolders) > 0
        BY SMTT(60), <1>0, <2>1, FS_EmptySet
      <3>2. Len(work_queue) > 0
        BY <1>0, <3>1 DEF Balanced, Wakeups
      <3> QED
        BY SMTT(60), <3>2
    <2>3. /\ UNCHANGED <<eventfd, unsignalled, running, work_read>>
          /\ pc' = [pc EXCEPT ![t] = "launch"] /\ work_queue' = Tail(work_queue)
      BY SMTT(60), <1>12, <2>2 DEF PopWork, Goto, stopVars, kernVars
    <2>4. TokenHolders' = TokenHolders \ {t}
      BY Zenon, <1>12, <2>3 DEF PopWork, At, TokenHolders, OneReadPerThread, TypeOK
    <2>5. Cardinality(TokenHolders') = Cardinality(TokenHolders) - 1
      BY ZenonT(60), <1>0, <2>1, <2>4, FS_RemoveElement
    <2>6. Len(work_queue') = Len(work_queue) - 1
      BY SMTT(60), <2>2, <2>3, PopFront DEF TypeOK
    <2>7. Wakeups' = Wakeups - 1 /\ Wakeups \in Int /\ Len(work_queue) \in Int
      BY SMTT(60), <1>0, <2>3, <2>5 DEF Wakeups
    <2>8. running' = running
      BY Zenon, <2>3
    <2> QED
      BY <2>6, <2>7, <2>8 DEF Balanced
  <1> QED
    BY SMTT(60), <1>1, <1>4, <1>5, <1>6, <1>7, <1>8, <1>9, <1>10, <1>11, <1>12, NeutralSteps

-----------------------------------------------------------------------------
(* The inductive invariant: the properties of the runs, with the two facts  *)
(* that make them inductive.                                                *)
IInv == /\ TypeOK /\ OnePlace /\ InFlightCounts /\ SafeExit /\ Balanced /\ ReadsArmed
        /\ OneReadPerThread /\ JoinedThreads

(* The pool starts empty, with every read armed and nothing counted. *)
LEMMA InitIInv == Init => IInv
  <1> SUFFICES ASSUME Init PROVE IInv
    BY SMTT(60)
  <1> USE PoolAssumption, NamesAreDistinct DEF Init
  <1>1. TypeOK
    <2>1. work_queue \in Seq(Tasks) /\ mtx_waiters \in Seq(Threads)
          /\ ready \in [Threads -> Seq(Tasks \cup {Main})]
      BY SMTT(60)
    <2> QED
      BY ZenonT(60), <2>1 DEF TypeOK, ThreadPCs, TaskStates, StopPCs
  <1>2. Len(work_queue) = 0 /\ \A t \in Threads : Len(ready[t]) = 0
    BY SMTT(60)
  <1>3. OnePlace
    BY SMTT(60), <1>2 DEF OnePlace, QueuedOnce, ReadyOnce, InOwnRing, RunningOnce, Hosted, PostedOnce,
                LiveStates
  <1>4. InFlightCounts
    <2>1. LiveFibers = {}
      BY ZenonT(60) DEF LiveFibers, LiveStates
    <2> QED
      BY <2>1, FS_EmptySet DEF InFlightCounts
  <1>5. Balanced
    <2>1. TokenHolders = {}
      BY ZenonT(60) DEF TokenHolders
    <2> QED
      BY <1>2, <2>1, FS_EmptySet DEF Balanced, Wakeups
  <1>6. SafeExit /\ OneReadPerThread /\ ReadsArmed /\ JoinedThreads
    BY Zenon DEF SafeExit, ReadsArmed, OneReadPerThread, JoinedThreads
  <1> QED
    BY Zenon, <1>1, <1>3, <1>4, <1>5, <1>6 DEF IInv

(* IInv is an invariant of the pool, for any number of threads and tasks. *)
LEMMA Invariance == Spec => []IInv
  <1>1. IInv /\ [Next]_vars => IInv'
    BY SMTT(60), CountedAtDec, TypeStep, OnePlaceStep, InFlightStep, SafeExitStep, TokenStep, ReadsStep,
       OneReadStep, JoinedStep DEF IInv
  <1> QED
    BY <1>1, InitIInv, PTL DEF Spec

(* The types are kept; in particular in_flight_ never wraps below zero. *)
THEOREM TypeCorrect == Spec => []TypeOK
  <1>1. IInv => TypeOK
    BY Zenon DEF IInv
  <1> QED
    BY <1>1, Invariance, PTL

(* Every unit of the work eventfd, wherever it is, stands for its own queued *)
(* task; while the pool runs, every queued task has its unit, and no thread  *)
(* goes on without a read armed.                                             *)
THEOREM WakeupsMatchWork == Spec => []TokenAccounting
  <1>1. IInv => TokenAccounting
    BY Zenon DEF IInv, TokenAccounting
  <1> QED
    BY <1>1, Invariance, PTL

(* in_flight_ is the number of fibers launched and not yet finished. *)
THEOREM InFlightIsExact == Spec => []InFlightCounts
  <1>1. IInv => InFlightCounts
    BY DEF IInv
  <1> QED
    BY <1>1, Invariance, PTL

(* No task is lost from, or doubled between, the work queue, the threads'   *)
(* ready queues, their rings and their running fibers.                      *)
THEOREM TasksInOnePlace == Spec => []OnePlace
  <1>1. IInv => OnePlace
    BY Zenon DEF IInv
  <1> QED
    BY <1>1, Invariance, PTL

(* No worker returns from worker() while a fiber it hosts is unfinished. *)
THEOREM WorkersExitSafely == Spec => []SafeExit
  <1>1. IInv => SafeExit
    BY Zenon DEF IInv
  <1> QED
    BY <1>1, Invariance, PTL

-----------------------------------------------------------------------------
(* What the stages of the concrete task mean to the abstract pool. *)
LEMMA StatusValues ==
    ASSUME TypeOK, NEW k \in Tasks
    PROVE  /\ st[k] = "none" => AbstractStatus(k) = "new"
           /\ st[k] \in {"queued", "popped"} => AbstractStatus(k) = "posted"
           /\ st[k] \in LiveStates => AbstractStatus(k) = "started"
           /\ st[k] = "done" => AbstractStatus(k) = "finished"
  BY SMTT(60) DEF AbstractStatus, LiveStates

(* A step that changes no stage is no step of the abstract tasks. *)
LEMMA StatusSame ==
    ASSUME TypeOK, TypeOK', \A k \in Tasks : SameStage(k)
    PROVE  Status' = Status
  <1>1. ASSUME NEW k \in Tasks PROVE AbstractStatus(k)' = AbstractStatus(k)
    <2>1. st[k] \in TaskStates /\ st'[k] \in TaskStates /\ SameStage(k)
      BY Zenon DEF TypeOK
    <2>2. CASE st[k] = "none"
      BY Zenon, <2>1, <2>2 DEF SameStage, AbstractStatus
    <2>3. CASE st[k] \in {"queued", "popped"}
      BY SMTT(60), <2>1, <2>3 DEF SameStage, AbstractStatus, LiveStates
    <2>4. CASE st[k] \in LiveStates
      BY SMTT(60), <2>1, <2>4 DEF SameStage, AbstractStatus, LiveStates
    <2>5. CASE st[k] = "done"
      BY Zenon, <2>1, <2>5 DEF SameStage, AbstractStatus, LiveStates
    <2> QED
      BY SMTT(60), <2>1, <2>2, <2>3, <2>4, <2>5 DEF TaskStates
  <1> QED
    BY ZenonT(60), <1>1 DEF Status

(* What a step of the destructor means to the abstract pool.  The threads   *)
(* the destructor joined run no fiber.                                      *)
LEMMA PhaseStep ==
    ASSUME TypeOK, JoinedThreads, [Next]_vars
    PROVE  /\ stop_pc' = stop_pc \/ UNCHANGED st
           /\ stop_pc = "joined" => stop_pc' = "joined"
           /\ stop_pc = "idle" \/ stop_pc' # "idle"
           /\ stop_pc = "idle" => stop_pc' # "joined"
           /\ stop_pc # "joined" /\ stop_pc' = "joined" => StopJoin
  <1> USE DEF At, Goto, stopVars, fiberVars
  <1>1. ASSUME NEW k \in Tasks, ClientPush(k) \/ ClientWrite(k) \/ KernelIoDone(k)
        PROVE  stop_pc' = stop_pc
    BY ZenonT(60), <1>1 DEF ClientPush, ClientWrite, KernelIoDone
  <1>2. ASSUME NEW t \in Threads, KernelReadWork(t) \/ KernelReadError(t) \/ PickNext(t)
                                  \/ Drain(t) \/ MainFiber(t)
        PROVE  stop_pc' = stop_pc
    BY ZenonT(60), <1>2 DEF KernelReadWork, KernelReadError, PickNext, Drain, SuspendUntil, DrainWork,
       DrainEnd, CheckRunning, PopWork, LaunchFiber, Rearm, DrainIo, MainFiber, MainLock,
       MainExit, MainMustWait, MainEnqueue
  <1>3. ASSUME NEW t \in Threads, Fiber(t) PROVE stop_pc' = stop_pc
    BY ZenonT(60), <1>3 DEF Fiber, FiberIo, FiberWrite, FiberAwait, FiberReturn, FiberDec, FiberNotify,
                FiberPost, FiberSyncWait, FiberPush
  <1>4. CASE StopRequest \/ StopAction \/ Destroyed \/ UNCHANGED vars
    BY ZenonT(60), <1>4 DEF StopRequest, StopAction, StopLock, StopStore, StopNotify, StopUnlock,
                StopJoin, Destroyed, vars
  <1> QED
    BY SMTT(60), <1>1, <1>2, <1>3, <1>4 DEF Next, ThreadStep

(* One task changes stage: an abstract Move. *)
LEMMA MoveStep ==
    ASSUME TypeOK, TypeOK', NEW k \in Tasks, stop_pc # "joined", UNCHANGED stop_pc,
           \A j \in Tasks : j # k => st'[j] = st[j],
           \/ st[k] = "none" /\ st'[k] = "queued"
           \/ st[k] = "popped" /\ st'[k] = "ready"
           \/ st[k] = "returned" /\ st'[k] = "done"
    PROVE  Abstract!Next
  <1>1. \A j \in Tasks : j # k => AbstractStatus(j)' = AbstractStatus(j)
    BY ZenonT(60) DEF AbstractStatus
  <1>2. Status' = [Status EXCEPT ![k] = AbstractStatus(k)'] /\ Status[k] = AbstractStatus(k)
    BY ZenonT(60), <1>1 DEF Status
  <1>3. Phase' = Phase /\ Phase # "destroyed"
    BY Zenon DEF Phase
  <1>4. CASE st[k] = "none" /\ st'[k] = "queued"
    <2>1. AbstractStatus(k) = "new" /\ AbstractStatus(k)' = "posted"
      BY Zenon, <1>4 DEF AbstractStatus, LiveStates
    <2> QED
      BY ZenonT(60), <1>2, <1>3, <2>1 DEF Abstract!Next, Abstract!Post, Abstract!Move
  <1>5. CASE st[k] = "popped" /\ st'[k] = "ready"
    <2>1. AbstractStatus(k) = "posted" /\ AbstractStatus(k)' = "started"
      BY ZenonT(60), <1>5 DEF AbstractStatus, LiveStates
    <2> QED
      BY ZenonT(60), <1>2, <1>3, <2>1 DEF Abstract!Next, Abstract!Start, Abstract!Move
  <1>6. CASE st[k] = "returned" /\ st'[k] = "done"
    <2>1. AbstractStatus(k) = "started" /\ AbstractStatus(k)' = "finished"
      BY Zenon, <1>6 DEF AbstractStatus, LiveStates
    <2> QED
      BY ZenonT(60), <1>2, <1>3, <2>1 DEF Abstract!Next, Abstract!Finish, Abstract!Move
  <1> QED
    BY Zenon, <1>4, <1>5, <1>6
(* Every step of the pool is a step of the abstract pool or no step of it. *)
LEMMA RefinementStep ==
    ASSUME IInv, IInv', [Next]_vars
    PROVE  [Abstract!Next]_<<Status, Phase>>
  <1> USE DEF IInv
  <1>1. ASSUME NEW t \in Threads, LaunchFiber(t) \/ FiberDec(t)
        PROVE  Abstract!Next
    <2>1. pc[t] # "exited" /\ stop_pc' = stop_pc
      BY ZenonT(60), <1>1 DEF LaunchFiber, FiberDec, At, stopVars
    <2>2. stop_pc # "joined"
      BY SMTT(60), <2>1 DEF JoinedThreads
    <2>3. CASE LaunchFiber(t)
      <3>1. cur[t] \in Tasks /\ st[cur[t]] = "popped" /\ st' = [st EXCEPT ![cur[t]] = "ready"]
        BY ZenonT(60), <2>3 DEF LaunchFiber, At, OnePlace, RunningOnce
      <3>2. st'[cur[t]] = "ready" /\ \A j \in Tasks : j # cur[t] => st'[j] = st[j]
        BY ZenonT(60), <3>1 DEF TypeOK
      <3> QED
        BY ZenonT(60), <2>1, <2>2, <3>1, <3>2, MoveStep
    <2>4. CASE FiberDec(t)
      <3>1. cur[t] \in Tasks /\ st[cur[t]] = "returned" /\ st' = [st EXCEPT ![cur[t]] = "done"]
        BY ZenonT(60), <2>4 DEF FiberDec, At, OnePlace, RunningOnce, RunsOn
      <3>2. st'[cur[t]] = "done" /\ \A j \in Tasks : j # cur[t] => st'[j] = st[j]
        BY Zenon, <3>1 DEF TypeOK
      <3> QED
        BY Zenon, <2>1, <2>2, <3>1, <3>2, MoveStep
    <2> QED
      BY ZenonT(60), <1>1, <2>3, <2>4
  <1>2. ASSUME NEW k \in Tasks, Push(k) PROVE Abstract!Next
    <2>1. stop_pc # "joined" /\ stop_pc' = stop_pc
      BY ZenonT(60), <1>2 DEF Push, JoinedThreads
    <2>2. st'[k] = "queued" /\ \A j \in Tasks : j # k => st'[j] = st[j]
      BY ZenonT(60), <1>2 DEF Push, TypeOK
    <2> QED
      BY SMTT(60), <1>2, <2>1, <2>2, MoveStep DEF Push
  <1>3. ASSUME \A k \in Tasks : SameStage(k) PROVE [Abstract!Next]_<<Status, Phase>>
    <2>1. Status' = Status
      BY <1>3, StatusSame
    <2>2. CASE Phase' = Phase
      BY <2>1, <2>2
    <2>3. CASE Phase' # Phase
      <3>1. \/ stop_pc = "idle" /\ stop_pc' # "idle" /\ stop_pc' # "joined"
            \/ stop_pc # "idle" /\ stop_pc # "joined" /\ StopJoin /\ stop_pc' = "joined"
        BY <2>3, PhaseStep DEF Phase
      <3>2. CASE stop_pc = "idle" /\ stop_pc' # "idle" /\ stop_pc' # "joined"
        BY SMTT(60), <2>1, <3>2 DEF Phase, Abstract!Next, Abstract!Close
      <3>3. CASE stop_pc # "idle" /\ stop_pc # "joined" /\ StopJoin /\ stop_pc' = "joined"
        <4>1. \A t \in Threads : pc[t] = "exited"
          BY SMTT(60), <3>3 DEF StopJoin, At
        <4>2. \A k \in Tasks : st[k] \notin LiveStates
          BY ZenonT(60), <4>1 DEF SafeExit, OnePlace, Hosted, LiveStates
        <4>3. \A k \in Tasks : Status[k] # "started"
          <5>1. ASSUME NEW k \in Tasks PROVE AbstractStatus(k) # "started"
            <6>1. st[k] \in TaskStates /\ st[k] \notin LiveStates
              BY ZenonT(60), <4>2 DEF TypeOK
            <6> QED
              BY SMTT(60), <6>1, StatusValues DEF TaskStates
          <5> QED
            BY Zenon, <5>1 DEF Status
        <4> QED
          BY Zenon, <2>1, <3>3, <4>3 DEF Phase, Abstract!Next, Abstract!Destroy
      <3> QED
        BY ZenonT(60), <3>1, <3>2, <3>3
    <2> QED
      BY ZenonT(60), <2>2, <2>3
  <1> QED
    BY SMTT(60), <1>1, <1>2, <1>3, LifeOfTasks

(* The pool implements TaskPool: a task is started at most once and only    *)
(* after its post(), and a fiber launched has finished before ~fiber_pool   *)
(* has joined the workers.                                                  *)
THEOREM Refinement == Spec => ImplementsTaskPool
  <1>1. Init => Abstract!Init
    <2> SUFFICES ASSUME Init PROVE Abstract!Init
      BY Zenon
    <2>1. ASSUME NEW k \in Tasks PROVE AbstractStatus(k) = "new"
      <3>1. st[k] = "none"
        BY Zenon DEF Init
      <3> QED
        BY Zenon, <3>1, InitIInv, StatusValues DEF IInv
    <2>2. Status = [k \in Tasks |-> "new"]
      BY Zenon, <2>1 DEF Status
    <2>3. Phase = "open"
      BY Zenon DEF Init, Phase
    <2> QED
      BY <2>2, <2>3 DEF Abstract!Init
  <1>2. IInv /\ IInv' /\ [Next]_vars => [Abstract!Next]_<<Status, Phase>>
    BY Zenon, RefinementStep
  <1> QED
    BY <1>1, <1>2, Invariance, PTL DEF Spec, ImplementsTaskPool, Abstract!Spec
=============================================================================
