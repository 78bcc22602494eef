-------------------------- MODULE RunSenderProofs ----------------------------
(***************************************************************************)
(* Proofs about RunSender for any set of operations sharing a stop source. *)
(***************************************************************************)
EXTENDS RunSender, TLAPS

(***************************************************************************)
(* The life of an operation: its fiber exists once start has posted it; it *)
(* has sent a signal exactly when its kind says so; it is destroyed only   *)
(* before start or after the signal; a started operation has a source if   *)
(* the token can be stopped.                                               *)
(***************************************************************************)
Life ==
    \A o \in Ops :
        /\ fpc[o] = "none" <=> spc[o] # "returned"
        /\ signal[o] = "none" <=> \/ fpc[o] \in {"none", "queued"}
                                  \/ kind[o] = "run" /\ fpc[o] # "done"
        /\ ~alive[o] => spc[o] = "connected" \/ signal[o] # "none"
        /\ stoppable /\ spc[o] # "connected" => state[o] # "none"

IInv == TypeOK /\ Life /\ ForwarderTargetAlive /\ StopOnItsWay

(* One step of operation o, or the stop request. *)
OpStep(o) ==
    \/ Start(o) \/ Bridge(o) \/ Post(o)
    \/ Begin(o) \/ Wait(o) \/ DeafWait(o) \/ IoCompletes(o) \/ IoCancelled(o)
    \/ Catches(o) \/ Complete(o)
    \/ TakeCallback(o) \/ Forward(o) \/ Destroy(o)

(* The state after connect satisfies the inductive invariant. *)
LEMMA InitInvariant == Init => IInv
<1>1. Init => TypeOK
  <2>1. Init => waits \in [Ops -> 0..MaxWaits]
    BY RunAssumption DEF Init
  <2>2. Init => /\ kind \in [Ops -> {"run", "schedule"}] /\ stoppable \in BOOLEAN
                /\ requested \in BOOLEAN /\ callbacks \subseteq Ops
                /\ running \in Ops \cup {Nobody}
    BY DEF Init
  <2>3. Init => /\ spc \in [Ops -> {"connected", "bridge", "post", "returned"}]
                /\ alive \in [Ops -> BOOLEAN] /\ state \in [Ops -> {"none", "clear", "set"}]
                /\ tok \in [Ops -> BOOLEAN]
                /\ fpc \in [Ops -> {"none", "queued", "fn", "waiting", "deaf", "cancelled", "done"}]
                /\ signal \in [Ops -> {"none", "value", "error", "stopped"}]
    BY DEF Init
  <2> QED
    BY <2>1, <2>2, <2>3 DEF TypeOK
<1>2. Init => Life
  BY DEF Init, Life
<1>3. Init => ForwarderTargetAlive /\ StopOnItsWay
  BY DEF Init, ForwarderTargetAlive, StopOnItsWay
<1> QED
  BY <1>1, <1>2, <1>3 DEF IInv

(* Every step keeps the types: no step of start, fiber or stopper leaves its range. *)
LEMMA TypeStep == IInv /\ [Next]_vars => TypeOK'
<1> SUFFICES ASSUME IInv, [Next]_vars PROVE TypeOK'
  OBVIOUS
<1> USE RunAssumption DEF IInv, TypeOK
<1>1. CASE UNCHANGED vars
  BY <1>1 DEF vars
<1>2. CASE RequestStop
  BY <1>2 DEF RequestStop, config, fiber
<1>3. ASSUME NEW o \in Ops, OpStep(o) PROVE TypeOK'
  <2>1. CASE Start(o)
    <3>1. CASE stoppable
      BY <2>1, <3>1 DEF Start, config, source, fiber
    <3>2. CASE ~stoppable
      BY <2>1, <3>2 DEF Start, config, source, fiber
    <3> QED
      BY <3>1, <3>2
  <2>2. CASE Bridge(o)
    <3>1. CASE requested
      BY <2>2, <3>1 DEF Bridge, Stopped, config, fiber
    <3>2. CASE ~requested
      BY <2>2, <3>2 DEF Bridge, config, fiber
    <3> QED
      BY <3>1, <3>2
  <2>3. CASE Post(o)
    <3>1. tok' \in [Ops -> BOOLEAN]
      BY <2>3 DEF Post
    <3> QED
      BY <2>3, <3>1 DEF Post, config, source
  <2>10. CASE Begin(o)
    BY <2>10 DEF Begin, config, source
  <2>7. CASE Wait(o) \/ DeafWait(o)
    BY <2>7 DEF Wait, DeafWait, StopSeen, config, source
  <2>4. CASE IoCompletes(o) \/ IoCancelled(o) \/ Catches(o)
    BY <2>4 DEF IoCompletes, IoCancelled, Catches, config, source
  <2>5. CASE Complete(o)
    BY <2>5 DEF Complete, Completion, Endings, config, source
  <2>6. CASE TakeCallback(o)
    BY <2>6 DEF TakeCallback, config, fiber
  <2>8. CASE Forward(o)
    BY <2>8 DEF Forward, Stopped, config, fiber
  <2>9. CASE Destroy(o)
    BY <2>9 DEF Destroy, config, fiber
  <2> QED
    BY <1>3, <2>1, <2>2, <2>3, <2>4, <2>5, <2>6, <2>7, <2>8, <2>9, <2>10 DEF OpStep
<1> QED
  BY <1>1, <1>2, <1>3 DEF Next, OpStep

(* Every step keeps the life of the operations in order. *)
LEMMA LifeStep == IInv /\ [Next]_vars => Life'
<1> SUFFICES ASSUME IInv, [Next]_vars PROVE Life'
  OBVIOUS
<1> USE DEF IInv, TypeOK, Life
<1>1. CASE UNCHANGED vars
  BY <1>1 DEF vars
<1>2. CASE RequestStop
  BY <1>2 DEF RequestStop, config, fiber
<1>3. ASSUME NEW o \in Ops, OpStep(o) PROVE Life'
  <2>1. CASE Start(o)
    BY <2>1 DEF Start, config, source, fiber
  <2>2. CASE Bridge(o)
    BY <2>2 DEF Bridge, Stopped, config, fiber
  <2>3. CASE Post(o)
    BY <2>3 DEF Post, config, source
  <2>4. CASE Begin(o)
    BY <2>4 DEF Begin, config, source
  <2>5. CASE Wait(o) \/ DeafWait(o) \/ IoCompletes(o) \/ IoCancelled(o) \/ Catches(o)
    BY <2>5 DEF Wait, DeafWait, StopSeen, IoCompletes, IoCancelled, Catches, config, source
  <2>6. CASE Complete(o)
    BY <2>6 DEF Complete, Completion, Endings, config, source
  <2>7. CASE TakeCallback(o) \/ Forward(o)
    BY <2>7 DEF TakeCallback, Forward, Stopped, config, fiber
  <2>8. CASE Destroy(o)
    BY <2>8 DEF Destroy, config, fiber
  <2> QED
    BY <1>3, <2>1, <2>2, <2>3, <2>4, <2>5, <2>6, <2>7, <2>8 DEF OpStep
<1> QED
  BY <1>1, <1>2, <1>3 DEF Next, OpStep

(* Every step keeps the callbacks on live states and the stop request on its way. *)
LEMMA BridgeStep == IInv /\ [Next]_vars => ForwarderTargetAlive' /\ StopOnItsWay'
<1> SUFFICES ASSUME IInv, [Next]_vars PROVE ForwarderTargetAlive' /\ StopOnItsWay'
  OBVIOUS
<1> USE RunAssumption DEF IInv, TypeOK, Life, ForwarderTargetAlive, StopOnItsWay
<1>1. CASE UNCHANGED vars
  BY <1>1 DEF vars
<1>2. CASE RequestStop
  BY <1>2 DEF RequestStop, config, fiber
<1>3. ASSUME NEW o \in Ops, OpStep(o) PROVE ForwarderTargetAlive' /\ StopOnItsWay'
  <2>1. CASE Start(o)
    BY <2>1 DEF Start, config, source, fiber
  <2>2. CASE Bridge(o)
    BY <2>2 DEF Bridge, Stopped, config, fiber
  <2>3. CASE Post(o)
    BY <2>3 DEF Post, config, source
  <2>4. CASE Begin(o)
    BY <2>4 DEF Begin, config, source
  <2>5. CASE Wait(o) \/ DeafWait(o) \/ IoCompletes(o) \/ IoCancelled(o) \/ Catches(o)
    BY <2>5 DEF Wait, DeafWait, StopSeen, IoCompletes, IoCancelled, Catches, config, source
  <2>6. CASE Complete(o)
    BY <2>6 DEF Complete, config, source
  <2>7. CASE TakeCallback(o)
    BY <2>7 DEF TakeCallback, config, fiber
  <2>8. CASE Forward(o)
    BY <2>8 DEF Forward, Stopped, config, fiber
  <2>9. CASE Destroy(o)
    BY <2>9 DEF Destroy, config, fiber
  <2> QED
    BY <1>3, <2>1, <2>2, <2>3, <2>4, <2>5, <2>6, <2>7, <2>8, <2>9 DEF OpStep
<1> QED
  BY <1>1, <1>2, <1>3 DEF Next, OpStep

(* The invariant holds in every reachable state. *)
LEMMA Invariance == Spec => []IInv
<1>1. IInv /\ [Next]_vars => IInv'
  BY TypeStep, LifeStep, BridgeStep DEF IInv
<1> QED
  BY InitInvariant, <1>1, PTL DEF Spec

(* The variables of the operation states keep their types. *)
THEOREM RunTypeCorrect == Spec => []TypeOK
<1>1. IInv => TypeOK
  BY DEF IInv
<1> QED
  BY Invariance, <1>1, PTL

(* stop_forwarder never runs on a destroyed operation, for any number of them. *)
THEOREM ForwarderIsSafe == Spec => []ForwarderTargetAlive
<1>1. IInv => ForwarderTargetAlive
  BY DEF IInv
<1> QED
  BY Invariance, <1>1, PTL

(* No stop request is lost between the receivers' source and a fiber's token. *)
THEOREM StopIsNotLost == Spec => []StopOnItsWay
<1>1. IInv => StopOnItsWay
  BY DEF IInv
<1> QED
  BY Invariance, <1>1, PTL

(* run and schedule implement the sender contract. *)
THEOREM RunRefinement == Spec => ImplementsContract
<1>1. Init => Contract!Init
  BY DEF Init, Contract!Init, Phase
<1>2. IInv /\ [Next]_vars => [Contract!Next]_<<[o \in Ops |-> Phase(o)], signal>>
  <2> SUFFICES ASSUME IInv, [Next]_vars
               PROVE  Contract!Next \/ UNCHANGED <<[o \in Ops |-> Phase(o)], signal>>
    OBVIOUS
  <2> USE DEF IInv, TypeOK, Life, Phase
  <2>1. CASE UNCHANGED vars
    BY <2>1 DEF vars
  <2>2. CASE RequestStop
    BY <2>2 DEF RequestStop, config, fiber
  <2>3. ASSUME NEW p \in Ops, OpStep(p)
        PROVE  Contract!Next \/ UNCHANGED <<[o \in Ops |-> Phase(o)], signal>>
    <3>1. CASE Start(p)
      <4>1. Contract!Start(p)
        <5>1. Phase(p) = "connected" /\ Phase(p)' = "started"
          BY <3>1 DEF Start, fiber
        <5>2. \A o \in Ops \ {p} : Phase(o)' = Phase(o)
          BY <3>1 DEF Start, fiber
        <5>3. UNCHANGED signal
          BY <3>1 DEF Start, fiber
        <5> HIDE DEF IInv, TypeOK, Life, Phase
        <5> QED
          BY <5>1, <5>2, <5>3 DEF Contract!Start
      <4> QED
        BY <4>1 DEF Contract!Next
    <3>2. CASE Bridge(p) \/ Post(p)
      BY <3>2 DEF Bridge, Post, config, source, fiber
    <3>3. CASE Begin(p) /\ kind[p] = "schedule"
      <4>1. Contract!Complete(p)
        BY <3>3 DEF Begin, Contract!Complete, Contract!Signals, config, source
      <4> QED
        BY <4>1 DEF Contract!Next
    <3>4. CASE Begin(p) /\ kind[p] = "run"
      BY <3>4 DEF Begin, config, source
    <3>5. CASE Wait(p) \/ DeafWait(p) \/ IoCompletes(p) \/ IoCancelled(p) \/ Catches(p)
      BY <3>5 DEF Wait, DeafWait, IoCompletes, IoCancelled, Catches, config, source
    <3>6. CASE Complete(p) /\ kind[p] = "run"
      <4>1. Contract!Complete(p)
        <5>1. PICK how \in Endings(p) :
                 signal' = [signal EXCEPT ![p] = Completion(how)]
          BY <3>6 DEF Complete
        <5>2. Completion(how) \in Contract!Signals
          BY DEF Completion, Contract!Signals
        <5>3. signal[p] = "none" /\ alive[p] /\ spc[p] # "connected"
          BY <3>6 DEF Complete
        <5>4. UNCHANGED <<alive, spc>>
          BY <3>6 DEF Complete
        <5> QED
          BY <5>1, <5>2, <5>3, <5>4, ZenonT(30) DEF Contract!Complete, Contract!Signals
      <4> QED
        BY <4>1 DEF Contract!Next
    <3>7. CASE Complete(p) /\ kind[p] = "schedule"
      BY <3>7 DEF Complete, config, source
    <3>8. CASE TakeCallback(p) \/ Forward(p)
      BY <3>8 DEF TakeCallback, Forward, config, fiber
    <3>9. CASE Destroy(p)
      <4>1. Contract!Destroy(p)
        BY <3>9 DEF Destroy, Contract!Destroy, config, fiber
      <4> QED
        BY <4>1 DEF Contract!Next
    <3> QED
      BY <2>3, <3>1, <3>2, <3>3, <3>4, <3>5, <3>6, <3>7, <3>8, <3>9 DEF OpStep
  <2> QED
    BY <2>1, <2>2, <2>3 DEF Next, OpStep
<1> QED
  BY <1>1, <1>2, Invariance, PTL DEF Spec, ImplementsContract, Contract!Spec
=============================================================================
