-------------------------- MODULE FiberBulkProofs ----------------------------
(***************************************************************************)
(* Proofs about FiberBulk for a bulk of any number of indices.             *)
(***************************************************************************)
EXTENDS FiberBulk, FiniteSetTheorems, TLAPS

Busy == {"fun", "caught", "store", "dec"}

(* The indices whose fiber has not counted down yet. *)
Pending == {i \in Indices : i >= next \/ fpc[i] \in Busy}

Completing(i) == fpc[i] \in {"check", "lock", "locked", "notify"}

(* What r must be for sync_wait to report what fun did. *)
Faithful(r) == IF threw = {} THEN r = Value ELSE r \in threw

(* How far schedule's fiber is with posting the fibers of the indices. *)
Posting ==
    /\ next \in 1..(shape + 1)
    /\ \A i \in Fibers \ {0} : /\ fpc[i] \notin {"ready", "posting"}
                               /\ fpc[i] = "none" <=> i >= next
    /\ fpc[0] \notin Busy \cup {"check"}
    /\ fpc[0] \in {"none", "ready"} => next = 1
    /\ fpc[0] = "posting" => next <= shape
    /\ fpc[0] \in {"lock", "locked", "notify"} => shape = 0
    /\ fpc[0] = "end" => next = shape + 1
    /\ fpc[0] = "none" <=> wpc = "start"

Counting == remaining = Cardinality(Pending)

(* One fiber completes the receiver, after the countdown has reached zero. *)
Completion ==
    /\ \A i \in Fibers : Completing(i) => remaining = 0
    /\ \A i, j \in Fibers : Completing(i) /\ Completing(j) => i = j
    /\ \A i \in Fibers : fpc[i] \in {"check", "lock", "locked"} => ~done
    /\ done => remaining = 0 /\ fpc[0] \in {"notify", "end"}
    /\ wpc \in {"read", "returned"} => done

(* Whoever threw is caught, is storing its exception, or left it to another. *)
Errors ==
    /\ threw \subseteq Indices
    /\ \A i \in Fibers : fpc[i] \in {"caught", "store"} => i \in threw
    /\ ~has_error => \A i \in threw : fpc[i] = "caught"
    /\ has_error => error \in threw \/ \E i \in Fibers : fpc[i] = "store"
    /\ \A i \in Fibers : fpc[i] \in {"lock", "locked"} => Faithful(outcome)
    /\ done => Faithful(result)

IInv == TypeOK /\ Posting /\ Counting /\ Completion /\ Errors

(* The indices that have not counted down are finitely many. *)
LEMMA PendingFinite == TypeOK => IsFiniteSet(Pending)
<1> SUFFICES ASSUME TypeOK PROVE IsFiniteSet(Pending)
  OBVIOUS
<1>1. IsFiniteSet(1..shape)
  BY ShapeAssumption, FS_Interval DEF TypeOK
<1>2. Pending \in SUBSET (1..shape)
  BY DEF Pending, Indices
<1> QED
  BY <1>1, <1>2, FS_Subset, Zenon

(* Once the countdown is at zero all fibers are posted and none runs fun. *)
LEMMA Quiet ==
    ASSUME IInv, remaining = 0
    PROVE  next = shape + 1 /\ \A i \in Fibers : fpc[i] \notin Busy
<1> USE ShapeAssumption DEF IInv, TypeOK, Fibers
<1>1. Pending = {}
  <2>1. IsFiniteSet(Pending) /\ Cardinality(Pending) = 0
    BY PendingFinite DEF Counting
  <2> QED
    BY <2>1, FS_EmptySet, Zenon
<1>2. next = shape + 1
  <2>1. next \in 1..(shape + 1)
    BY DEF Posting
  <2>2. next \notin Indices
    BY <1>1, <2>1 DEF Pending
  <2> QED
    BY <2>1, <2>2 DEF Indices
<1>3. ASSUME NEW i \in Fibers PROVE fpc[i] \notin Busy
  <2>1. CASE i = 0
    BY <2>1 DEF Posting
  <2>2. CASE i \in 1..shape
    BY <1>1, <2>2 DEF Pending, Indices
  <2>3. CASE i > shape
    BY <1>2, <2>3 DEF Posting, Busy
  <2> QED
    BY <2>1, <2>2, <2>3
<1> QED
  BY <1>2, <1>3

(* Before start the inductive invariant holds: every index is to be counted down. *)
LEMMA InitInvariant == Init => IInv
<1> SUFFICES ASSUME Init PROVE IInv
  OBVIOUS
<1> USE ShapeAssumption DEF Init, Fibers
<1>1. TypeOK
  <2>1. fpc \in [Fibers -> {"none", "ready", "posting", "fun", "caught", "store", "dec",
                           "check", "lock", "locked", "notify", "end"}]
    OBVIOUS
  <2>2. /\ next \in 1..(MaxShape + 1) /\ remaining \in 0..MaxShape
        /\ error \in None..MaxShape /\ outcome \in None..Value /\ result \in None..Value
    BY DEF None, Value
  <2>3. /\ shape \in 0..MaxShape /\ has_error \in BOOLEAN /\ done \in BOOLEAN
        /\ wpc \in {"start", "lock", "waiting", "relock", "read", "returned"}
        /\ mtx \in Fibers \cup {Nobody} /\ threw \subseteq 1..MaxShape
    BY Zenon
  <2> HIDE DEF Init
  <2> QED
    BY <2>1, <2>2, <2>3 DEF TypeOK
<1>2. Posting
  BY DEF Posting, Busy
<1>3. Counting
  <2>1. Pending = 1..shape
    BY DEF Pending, Indices
  <2>2. Cardinality(1..shape) = shape
    BY FS_Interval
  <2> QED
    BY <2>1, <2>2 DEF Counting
<1>4. Completion
  BY DEF Completion, Completing
<1>5. Errors
  BY DEF Errors
<1> QED
  BY <1>1, <1>2, <1>3, <1>4, <1>5 DEF IInv

(* Every step keeps the types; in particular the countdown stays above zero. *)
LEMMA TypeStep == IInv /\ [Next]_vars => TypeOK'
<1> SUFFICES ASSUME IInv, [Next]_vars PROVE TypeOK'
  OBVIOUS
<1> USE ShapeAssumption DEF IInv, TypeOK, Fibers, Nobody, None, Value, Goto, sharedVars, stateVars
<1>1. CASE UNCHANGED vars
  BY <1>1 DEF vars
<1>2. CASE Start
  BY <1>2 DEF Start
<1>3. CASE SetValue
  BY <1>3 DEF SetValue
<1>4. CASE PostIndex
  <2>1. next \in 1..shape
    BY <1>4 DEF PostIndex, Posting
  <2> QED
    BY <1>4, <2>1 DEF PostIndex
<1>5. CASE WaitForDone
  BY <1>5 DEF WaitForDone
<1>7. CASE Return
  BY <1>7 DEF Return
<1>6. ASSUME NEW i \in Fibers, FiberStep(i) PROVE TypeOK'
  <2>1. CASE FunReturns(i)
    BY <2>1 DEF FunReturns
  <2>2. CASE FunThrows(i)
    <3>1. i \in 1..MaxShape
      BY <2>2 DEF FunThrows, Posting, Busy
    <3> QED
      BY <2>2, <3>1 DEF FunThrows
  <2>3. CASE CatchError(i)
    <3>1. CASE has_error
      BY <2>3, <3>1 DEF CatchError, ClaimError
    <3>2. CASE ~has_error
      BY <2>3, <3>2 DEF CatchError, ClaimError
    <3> QED
      BY <3>1, <3>2
  <2>4. CASE StoreError(i)
    BY <2>4 DEF StoreError
  <2>5. CASE CountDown(i)
    <3>1. remaining # 0
      BY <2>5, Quiet DEF CountDown, Busy
    <3> QED
      BY <2>5, <3>1 DEF CountDown, IsLast
  <2>6. CASE CheckError(i)
    BY <2>6 DEF CheckError
  <2>7. CASE LockState(i)
    BY <2>7 DEF LockState
  <2>8. CASE StoreResult(i)
    BY <2>8 DEF StoreResult
  <2>9. CASE NotifyAll(i)
    BY <2>9 DEF NotifyAll
  <2> QED
    BY <1>6, <2>1, <2>2, <2>3, <2>4, <2>5, <2>6, <2>7, <2>8, <2>9 DEF FiberStep
<1> QED
  BY <1>1, <1>2, <1>3, <1>4, <1>5, <1>6, <1>7 DEF Next

(* Every step keeps the order in which schedule's fiber posts the others. *)
LEMMA PostingStep == IInv /\ [Next]_vars => Posting'
<1> SUFFICES ASSUME IInv, [Next]_vars PROVE Posting'
  OBVIOUS
<1> USE ShapeAssumption DEF IInv, TypeOK, Fibers, Posting, Busy, Goto, sharedVars, stateVars
<1>1. CASE UNCHANGED vars
  BY <1>1 DEF vars
<1>2. CASE Start
  BY <1>2 DEF Start
<1>3. CASE SetValue
  BY <1>3 DEF SetValue
<1>4. CASE PostIndex
  BY <1>4 DEF PostIndex
<1>5. CASE WaitForDone \/ Return
  BY <1>5 DEF WaitForDone, Return
<1>6. ASSUME NEW i \in Fibers, FiberStep(i) PROVE Posting'
  <2>1. CASE FunReturns(i) \/ FunThrows(i)
    BY <2>1 DEF FunReturns, FunThrows
  <2>2. CASE CatchError(i)
    <3>1. \E to \in {"dec", "store"} : fpc' = [fpc EXCEPT ![i] = to]
      BY <2>2 DEF CatchError, ClaimError
    <3> QED
      BY <2>2, <3>1 DEF CatchError
  <2>7. CASE StoreError(i)
    BY <2>7 DEF StoreError
  <2>3. CASE CountDown(i)
    BY <2>3 DEF CountDown
  <2>4. CASE CheckError(i)
    BY <2>4 DEF CheckError
  <2>5. CASE LockState(i)
    BY <2>5 DEF LockState
  <2>8. CASE StoreResult(i)
    BY <2>8 DEF StoreResult
  <2>6. CASE NotifyAll(i)
    BY <2>6 DEF NotifyAll
  <2> QED
    BY <1>6, <2>1, <2>2, <2>3, <2>4, <2>5, <2>6, <2>7, <2>8 DEF FiberStep
<1> QED
  BY <1>1, <1>2, <1>3, <1>4, <1>5, <1>6 DEF Next

(* remaining always counts the indices that have not counted down. *)
LEMMA CountingStep == IInv /\ [Next]_vars => Counting'
<1> SUFFICES ASSUME IInv, [Next]_vars PROVE Counting'
  OBVIOUS
<1> USE ShapeAssumption DEF IInv, TypeOK, Fibers, Posting, Busy, Goto, sharedVars, stateVars
<1>1. CASE UNCHANGED remaining /\ Pending' = Pending
  BY <1>1 DEF Counting
<1>2. CASE UNCHANGED vars
  BY <1>1, <1>2 DEF vars, Pending, Indices
<1>3. CASE Start \/ SetValue
  BY <1>1, <1>3 DEF Start, SetValue, Pending, Indices
<1>4. CASE PostIndex
  <2>1. ASSUME NEW j \in Indices PROVE j \in Pending' <=> j \in Pending
    BY <1>4, <2>1 DEF PostIndex, Pending, Indices
  <2>2. UNCHANGED <<remaining, Indices>>
    BY <1>4 DEF PostIndex, Indices
  <2> QED
    BY <1>1, <2>1, <2>2 DEF Pending
<1>5. CASE WaitForDone \/ Return
  BY <1>1, <1>5 DEF WaitForDone, Return, Pending, Indices
<1>6. ASSUME NEW i \in Fibers, FiberStep(i) PROVE Counting'
  <2>1. CASE FunReturns(i) \/ FunThrows(i) \/ StoreError(i)
    BY <1>1, <2>1 DEF FunReturns, FunThrows, StoreError, Pending, Indices
  <2>2. CASE CatchError(i)
    <3>1. \E to \in {"dec", "store"} : fpc' = [fpc EXCEPT ![i] = to]
      BY <2>2 DEF CatchError, ClaimError
    <3> QED
      BY <1>1, <2>2, <3>1 DEF CatchError, Pending, Indices
  <2>3. CASE CountDown(i)
    <3>1. i \in Pending
      BY <2>3 DEF CountDown, Pending, Indices
    <3>2. Pending' = Pending \ {i}
      <4>1. ASSUME NEW j \in Indices PROVE j \in Pending' <=> j \in Pending \ {i}
        BY <2>3, <3>1, <4>1 DEF CountDown, Pending, Indices
      <4>2. UNCHANGED Indices
        BY <2>3 DEF CountDown, Indices
      <4> QED
        BY <4>1, <4>2 DEF Pending
    <3>3. Cardinality(Pending \ {i}) = Cardinality(Pending) - 1
      <4>1. IsFiniteSet(Pending)
        BY PendingFinite
      <4> QED
        BY <3>1, <4>1, FS_RemoveElement, Zenon
    <3> QED
      BY <2>3, <3>2, <3>3 DEF CountDown, Counting
  <2>4. CASE CheckError(i) \/ LockState(i)
    BY <1>1, <2>4 DEF CheckError, LockState, Pending, Indices
  <2>5. CASE StoreResult(i) \/ NotifyAll(i)
    BY <1>1, <2>5 DEF StoreResult, NotifyAll, Pending, Indices
  <2> QED
    BY <1>6, <2>1, <2>2, <2>3, <2>4, <2>5 DEF FiberStep
<1> QED
  BY <1>2, <1>3, <1>4, <1>5, <1>6 DEF Next

(* Every step keeps the completing fiber alone, and done true to the countdown. *)
LEMMA CompletionStep == IInv /\ [Next]_vars => Completion'
<1> SUFFICES ASSUME IInv, [Next]_vars PROVE Completion'
  OBVIOUS
<1> USE ShapeAssumption DEF IInv, TypeOK, Fibers, Completion, Completing, Goto, sharedVars, stateVars
<1>1. CASE UNCHANGED vars
  BY <1>1 DEF vars
<1>2. CASE Start
  BY <1>2 DEF Start, Posting
<1>3. CASE SetValue
  <2>1. CASE shape = 0
    <3>1. Pending = {}
      BY <2>1 DEF Pending, Indices
    <3>2. remaining = 0
      BY <3>1, FS_EmptySet DEF Counting
    <3>3. \A j \in Fibers \ {0} : fpc[j] = "none"
      BY <1>3 DEF SetValue, Posting
    <3> QED
      BY <1>3, <2>1, <3>2, <3>3 DEF SetValue
  <2>2. CASE shape # 0
    BY <1>3, <2>2 DEF SetValue
  <2> QED
    BY <2>1, <2>2
<1>4. CASE PostIndex
  <2>1. remaining # 0
    BY <1>4, Quiet DEF PostIndex, Posting
  <2> QED
    BY <1>4, <2>1 DEF PostIndex, Posting
<1>5. CASE WaitForDone \/ Return
  BY <1>5 DEF WaitForDone, Return
<1>6. ASSUME NEW i \in Fibers, FiberStep(i) PROVE Completion'
  <2>1. CASE FunReturns(i)
    BY <2>1 DEF FunReturns
  <2>7. CASE FunThrows(i)
    BY <2>7 DEF FunThrows
  <2>8. CASE StoreError(i)
    BY <2>8 DEF StoreError
  <2>2. CASE CatchError(i)
    <3>1. \E to \in {"dec", "store"} : fpc' = [fpc EXCEPT ![i] = to]
      BY <2>2 DEF CatchError, ClaimError
    <3> QED
      BY <2>2, <3>1 DEF CatchError
  <2>3. CASE CountDown(i)
    <3>1. remaining # 0
      BY <2>3, Quiet DEF CountDown, Busy
    <3>2. i # 0
      BY <2>3 DEF CountDown, Posting, Busy
    <3> QED
      BY <2>3, <3>1, <3>2 DEF CountDown, IsLast
  <2>4. CASE CheckError(i)
    BY <2>4 DEF CheckError
  <2>9. CASE LockState(i)
    BY <2>9 DEF LockState
  <2>5. CASE StoreResult(i)
    <3>1. fpc[0] \in {"locked", "notify", "end"}
      BY <2>5, Quiet DEF StoreResult, Posting, Busy
    <3> QED
      BY <2>5, <3>1 DEF StoreResult
  <2>6. CASE NotifyAll(i)
    BY <2>6 DEF NotifyAll
  <2> QED
    BY <1>6, <2>1, <2>2, <2>3, <2>4, <2>5, <2>6, <2>7, <2>8, <2>9 DEF FiberStep
<1> QED
  BY <1>1, <1>2, <1>3, <1>4, <1>5, <1>6 DEF Next

(* Every step keeps track of the first exception, up to the result of sync_wait. *)
LEMMA ErrorsStep == IInv /\ [Next]_vars => Errors'
<1> SUFFICES ASSUME IInv, [Next]_vars PROVE Errors'
  OBVIOUS
<1> USE ShapeAssumption DEF IInv, TypeOK, Fibers, Errors, Goto, sharedVars, stateVars
<1>1. CASE UNCHANGED vars
  BY <1>1 DEF vars, Faithful, Value, Indices
<1>2. CASE Start
  BY <1>2 DEF Start, Faithful, Value, Indices
<1>3. CASE SetValue
  <2>1. CASE shape = 0
    <3>1. threw = {}
      BY <2>1 DEF Indices
    <3> QED
      BY <1>3, <2>1, <3>1 DEF SetValue, Faithful, Value, Indices
  <2>2. CASE shape # 0
    BY <1>3, <2>2 DEF SetValue, Faithful, Value, Indices
  <2> QED
    BY <2>1, <2>2
<1>4. CASE PostIndex
  <2>1. next \in Fibers \ {0} /\ fpc[next] = "none" /\ fpc[0] = "posting"
    BY <1>4 DEF PostIndex, Posting
  <2> QED
    BY <1>4, <2>1 DEF PostIndex, Faithful, Value, Indices
<1>5. CASE WaitForDone
  BY <1>5 DEF WaitForDone, Faithful, Value, Indices
<1>6. CASE Return
  BY <1>6 DEF Return, Faithful, Value, Indices
<1>7. ASSUME NEW i \in Fibers, FiberStep(i) PROVE Errors'
  <2>1. CASE FunReturns(i)
    BY <2>1 DEF FunReturns, Faithful, Value, Indices
  <2>2. CASE FunThrows(i)
    <3>1. i \in Indices
      BY <2>2 DEF FunThrows, Posting, Busy, Indices
    <3>2. ~done /\ \A j \in Fibers : fpc[j] \notin {"lock", "locked"}
      BY <2>2, Quiet DEF FunThrows, Completion, Completing, Busy
    <3> QED
      BY <2>2, <3>1, <3>2 DEF FunThrows, Indices
  <2>3. CASE CatchError(i) /\ has_error
    BY <2>3 DEF CatchError, ClaimError, Faithful, Value, Indices
  <2>4. CASE CatchError(i) /\ ~has_error
    BY <2>4 DEF CatchError, ClaimError, Faithful, Value, Indices
  <2>5. CASE StoreError(i)
    BY <2>5 DEF StoreError, Faithful, Value, Indices
  <2>6. CASE CountDown(i)
    BY <2>6 DEF CountDown, Faithful, Value, Indices
  <2>7. CASE CheckError(i)
    <3>1. \A j \in Fibers : fpc[j] \notin {"caught", "store"}
      BY <2>7, Quiet DEF CheckError, Completion, Completing, Busy
    <3>2. IF has_error THEN error \in threw ELSE threw = {}
      BY <3>1 DEF Indices
    <3>3. Faithful(outcome)'
      BY <2>7, <3>2 DEF CheckError, Faithful, Value
    <3> QED
      BY <2>7, <3>3 DEF CheckError, Faithful, Value, Indices
  <2>8. CASE LockState(i)
    BY <2>8 DEF LockState, Faithful, Value, Indices
  <2>9. CASE StoreResult(i)
    BY <2>9 DEF StoreResult, Faithful, Value, Indices
  <2>10. CASE NotifyAll(i)
    BY <2>10 DEF NotifyAll, Faithful, Value, Indices
  <2> QED
    BY <1>7, <2>1, <2>2, <2>3, <2>4, <2>5, <2>6, <2>7, <2>8, <2>9, <2>10 DEF FiberStep
<1> QED
  BY <1>1, <1>2, <1>3, <1>4, <1>5, <1>6, <1>7 DEF Next

(* The invariant holds in every reachable state. *)
LEMMA Invariance == Spec => []IInv
<1>1. IInv /\ [Next]_vars => IInv'
  BY TypeStep, PostingStep, CountingStep, CompletionStep, ErrorsStep DEF IInv
<1> QED
  BY InitInvariant, <1>1, PTL DEF Spec

(* The variables of the bulk keep their types; remaining never wraps below zero. *)
THEOREM BulkTypeCorrect == Spec => []TypeOK
<1>1. IInv => TypeOK
  BY DEF IInv
<1> QED
  BY Invariance, <1>1, PTL

(* When sync_wait returns no fiber of the bulk uses the operation state any more. *)
THEOREM OpIsOutlived == Spec => []OpOutlivesFibers
<1>1. IInv => OpOutlivesFibers
  <2> SUFFICES ASSUME IInv, wpc = "returned", NEW i \in Fibers PROVE ~UsesOp(i)
    BY DEF OpOutlivesFibers
  <2>1. done /\ remaining = 0 /\ fpc[0] \in {"notify", "end"}
    BY DEF IInv, Completion
  <2>2. fpc[i] \notin Busy \cup {"check", "lock", "locked"}
    BY <2>1, Quiet DEF IInv, Completion
  <2>3. fpc[i] \notin {"ready", "posting"}
    BY <2>1 DEF IInv, Posting
  <2> QED
    BY <2>2, <2>3 DEF UsesOp, IInv, TypeOK, Busy
<1> QED
  BY Invariance, <1>1, PTL

(* The receiver is completed by one fiber, once, when fun has ended for all indices. *)
THEOREM CompletionIsUnique == Spec => []CompletesOnce
<1>1. IInv => CompletesOnce
  <2> SUFFICES ASSUME IInv PROVE CompletesOnce
    OBVIOUS
  <2> DEFINE completing == {i \in Fibers : fpc[i] \in {"check", "lock", "locked", "notify"}}
  <2>1. Cardinality(completing) <= 1
    <3>1. CASE completing = {}
      BY <3>1, FS_EmptySet
    <3>2. ASSUME NEW i \in completing PROVE Cardinality(completing) <= 1
      <4>1. completing = {i}
        BY <3>2 DEF IInv, Completion, Completing
      <4>2. Cardinality({i}) = 1
        BY FS_Singleton, Zenon
      <4> QED
        BY <4>1, <4>2
    <3> QED
      BY <3>1, <3>2
  <2>2. completing # {} => ~done \/ \A i \in completing : fpc[i] = "notify"
    BY DEF IInv, Completion
  <2>3. completing # {} \/ done =>
          \A i \in Indices : fpc[i] \notin {"none", "fun", "caught", "store", "dec"}
    <3> SUFFICES ASSUME completing # {} \/ done, NEW i \in Indices
                 PROVE  fpc[i] \notin {"none", "fun", "caught", "store", "dec"}
      OBVIOUS
    <3>1. remaining = 0
      BY DEF IInv, Completion, Completing
    <3>2. i \in Fibers \ {0} /\ i < shape + 1
      BY ShapeAssumption DEF IInv, TypeOK, Indices, Fibers
    <3>3. next = shape + 1 /\ fpc[i] \notin Busy
      BY <3>1, <3>2, Quiet
    <3> QED
      BY <3>2, <3>3, ShapeAssumption DEF IInv, TypeOK, Posting, Busy, Fibers, Indices
  <2> QED
    BY <2>1, <2>2, <2>3 DEF CompletesOnce
<1> QED
  BY Invariance, <1>1, PTL

(* sync_wait rethrows exactly when an index threw, the exception of one that did. *)
THEOREM SyncWaitIsFaithful == Spec => []ResultIsFaithful
<1>1. IInv => ResultIsFaithful
  BY DEF IInv, Completion, Errors, Faithful, ResultIsFaithful
<1> QED
  BY Invariance, <1>1, PTL

(* bulk under sync_wait implements the sender contract. *)
THEOREM BulkRefinement == Spec => ImplementsContract
<1> DEFINE phases == [o \in {"op"} |-> Phase]
           signals == [o \in {"op"} |-> Signal]
<1>1. Init => Contract!Init
  BY DEF Init, Contract!Init, Phase, Signal
<1>2. IInv /\ [Next]_vars => [Contract!Next]_<<phases, signals>>
  <2> SUFFICES ASSUME IInv, [Next]_vars
               PROVE  Contract!Next \/ UNCHANGED <<phases, signals>>
    OBVIOUS
  <2> USE DEF Goto, sharedVars, stateVars
  <2>1. CASE UNCHANGED <<wpc, done, result>>
    <3>1. Phase' = Phase /\ Signal' = Signal
      BY <2>1 DEF Phase, Signal, Value
    <3> QED
      BY <3>1
  <2>2. CASE Start
    <3>1. ~done /\ UNCHANGED <<done, result>>
      BY <2>2 DEF Start, IInv, Posting, Completion
    <3>2. Phase = "connected" /\ Phase' = "started" /\ Signal' = Signal
      BY <2>2, <3>1 DEF Start, Phase, Signal
    <3>3. Contract!Start("op")
      BY <3>2 DEF Contract!Start
    <3> QED
      BY <3>3 DEF Contract!Next
  <2>3. CASE WaitForDone
    <3>1. Phase' = Phase /\ Signal' = Signal
      BY <2>3 DEF WaitForDone, Phase, Signal, Value
    <3> QED
      BY <3>1
  <2>4. CASE Return
    <3>1. done
      BY <2>4 DEF Return, IInv, Completion
    <3>2. Phase = "completed" /\ Phase' = "destroyed" /\ Signal' = Signal
      BY <2>4, <3>1 DEF Return, Phase, Signal, Value
    <3>3. Contract!Destroy("op")
      BY <3>2 DEF Contract!Destroy
    <3> QED
      BY <3>3 DEF Contract!Next
  <2>5. ASSUME NEW i \in Fibers, StoreResult(i) PROVE Contract!Next
    <3>1. ~done /\ remaining = 0 /\ fpc[i] = "locked"
      BY <2>5 DEF StoreResult, IInv, Completion, Completing
    <3>2. wpc # "returned" /\ wpc # "start"
      <4>1. fpc[0] # "none"
        BY <3>1, Quiet, ShapeAssumption DEF IInv, TypeOK, Posting, Fibers
      <4> QED
        BY <3>1, <4>1 DEF IInv, Posting, Completion
    <3>3. Phase = "started" /\ Phase' = "completed"
      BY <2>5, <3>1, <3>2 DEF StoreResult, Phase
    <3>4. Signal' \in Contract!Signals
      BY <2>5 DEF StoreResult, Signal, Contract!Signals
    <3>5. Contract!Complete("op")
      BY <3>3, <3>4 DEF Contract!Complete
    <3> QED
      BY <3>5 DEF Contract!Next
  <2>6. ASSUME NEW i \in Fibers, NotifyAll(i) PROVE UNCHANGED <<phases, signals>>
    <3>1. Phase' = Phase /\ Signal' = Signal
      BY <2>6 DEF NotifyAll, Phase, Signal, Value
    <3> QED
      BY <3>1
  <2>7. CASE SetValue \/ PostIndex
    BY <2>1, <2>7 DEF SetValue, PostIndex
  <2>8. ASSUME NEW i \in Fibers, FiberStep(i), ~StoreResult(i), ~NotifyAll(i)
        PROVE  UNCHANGED <<wpc, done, result>>
    BY <2>8 DEF FiberStep, FunReturns, FunThrows, CatchError, StoreError, CountDown,
                CheckError, LockState
  <2> QED
    BY <2>1, <2>2, <2>3, <2>4, <2>5, <2>6, <2>7, <2>8 DEF Next, FiberStep, vars
<1> QED
  BY <1>1, <1>2, Invariance, PTL DEF Spec, ImplementsContract, Contract!Spec
=============================================================================
