--------------------------- MODULE MutexLockProofs ---------------------------
(***************************************************************************)
(* Theorems of MutexLock, for every set of senders and every number of     *)
(* attempts: type correctness, the inductive invariant IInv, the mutual    *)
(* exclusion it gives, that no request is lost, and that the workflows     *)
(* implement the lease lock of LeaseLock.                                  *)
(***************************************************************************)
EXTENDS MutexLock, SequenceTheorems, TLAPS

\* The constants' assumptions and TypeOK are about every state variable.
LEMMA TypeInit == Init => TypeOK
  BY NoSenderIsNoSender, AttemptsAssumption
  DEF Init, TypeOK, SenderPc, MutexPc

\* What SignalWithStart does to the mutex run's variables keeps their types.
LEMMA SignalWithStartType ==
  ASSUME TypeOK, NEW s \in Senders, SignalWithStart(s), UNCHANGED <<holder, overdue>>
  PROVE  /\ mutexPc' \in MutexPc
         /\ run' \in Nat
         /\ requestCh' \in Seq(Senders)
         /\ holder' \in Senders \cup {NoSender}
         /\ (holder = NoSender <=> mutexPc \in {"closed", "receiving"})'
         /\ releaseCh' \in [Senders -> Nat]
         /\ overdue' \subseteq Senders
<1>1. requestCh' \in Seq(Senders)
  <2>1. <<s>> \in Seq(Senders) /\ Append(requestCh, s) \in Seq(Senders)
    BY DEF TypeOK
  <2> QED
    BY <2>1 DEF SignalWithStart
<1>2. run' \in Nat /\ releaseCh' \in [Senders -> Nat]
  BY DEF TypeOK, SignalWithStart
<1>3. /\ mutexPc' \in MutexPc
      /\ mutexPc' \in {"closed", "receiving"} <=> mutexPc \in {"closed", "receiving"}
  BY DEF TypeOK, SignalWithStart, MutexPc
<1> QED
  BY <1>1, <1>2, <1>3 DEF TypeOK

\* An attempt is counted within the bound of the retry policy.
LEMMA AttemptType ==
  ASSUME TypeOK, NEW s \in Senders, Attempt(s)
  PROVE  attempts' \in [Senders -> 0 .. MaximumAttempts]
<1>1. attempts[s] + 1 \in 0 .. MaximumAttempts
  BY AttemptsAssumption DEF TypeOK, Attempt
<1> QED
  BY <1>1 DEF TypeOK, Attempt

\* Every step keeps the type invariant.
LEMMA TypeStep == TypeOK /\ [Next]_vars => TypeOK'
<1> SUFFICES ASSUME TypeOK, [Next]_vars
             PROVE  TypeOK'
  OBVIOUS
<1> USE NoSenderIsNoSender, AttemptsAssumption DEF SenderPc, MutexPc
<1>1. ASSUME NEW s \in Senders, RequestLock(s) PROVE TypeOK'
  <2> RequestLock(s) => Attempt(s) /\ SignalWithStart(s) /\ UNCHANGED <<holder, overdue>>
    BY DEF RequestLock
  <2> QED
    BY <1>1, SignalWithStartType, AttemptType DEF RequestLock, TypeOK
<1>2. ASSUME NEW s \in Senders, RequestUnacknowledged(s) PROVE TypeOK'
  <2> RequestUnacknowledged(s)
        => Attempt(s) /\ SignalWithStart(s) /\ UNCHANGED <<holder, overdue>>
    BY DEF RequestUnacknowledged
  <2> QED
    BY <1>2, SignalWithStartType, AttemptType DEF RequestUnacknowledged, TypeOK
<1>3. ASSUME NEW s \in Senders, RequestFailed(s) PROVE TypeOK'
  BY <1>3, AttemptType DEF RequestFailed, TypeOK, mutexVars
<1>4. ASSUME NEW s \in Senders,
             LockFails(s) \/ LeaveCritical(s) \/ CompleteSender(s) \/ CloseSender(s)
      PROVE  TypeOK'
  BY <1>4 DEF LockFails, LeaveCritical, CompleteSender, CloseSender, TypeOK, mutexVars
<1>5. ASSUME NEW s \in Senders, EnterCritical(s) PROVE TypeOK'
  BY <1>5 DEF EnterCritical, TypeOK, mutexVars
<1>6. ASSUME NEW s \in Senders, Unlock(s) PROVE TypeOK'
  <2>1. releaseCh' \in [Senders -> Nat]
    BY <1>6 DEF Unlock, TypeOK
  <2>2. senderPc' \in [Senders -> SenderPc]
    BY <1>6 DEF Unlock, TypeOK
  <2> QED
    BY <1>6, <2>1, <2>2 DEF Unlock, TypeOK
<1>7. CASE ReceiveRequest
  <2>1. Head(requestCh) \in Senders /\ Tail(requestCh) \in Seq(Senders)
    BY <1>7, HeadTailProperties DEF ReceiveRequest, TypeOK
  <2> QED
    BY <1>7, <2>1 DEF ReceiveRequest, TypeOK, senderVars
<1>8. CASE CompleteMutex
  BY <1>8 DEF CompleteMutex, TypeOK, senderVars
<1>9. CASE SignalAcquire
  BY <1>9 DEF SignalAcquire, TypeOK
<1>10. CASE SignalAcquireFails
  BY <1>10 DEF SignalAcquireFails, TypeOK, senderVars
<1>11. CASE AwaitRelease
  BY <1>11 DEF AwaitRelease, TypeOK, senderVars
<1>12. CASE ReceiveRelease
  BY <1>12 DEF ReceiveRelease, TypeOK, senderVars
<1>13. CASE UnlockTimeout
  BY <1>13 DEF UnlockTimeout, TypeOK, senderVars
<1>14. CASE UNCHANGED vars
  BY <1>14 DEF vars, TypeOK
<1> QED
  BY <1>1, <1>2, <1>3, <1>4, <1>5, <1>6, <1>7, <1>8, <1>9, <1>10, <1>11,
     <1>12, <1>13, <1>14
  DEF Next, MutexStep, SenderStep

\* TypeOK is an invariant of the lock.
THEOREM TypeCorrect == Spec => []TypeOK
  BY TypeInit, TypeStep, PTL DEF Spec
------------------------------------------------------------------------------
\* Initially nobody is in and no signal is buffered.
LEMMA IInvInit == Init => IInv
  BY TypeInit DEF Init, IInv, Covered, NoEarlyRelease

\* The only step that gives a sender its acquire signal makes it the one being
\* served; the only steps that stop serving it need its release, which it has
\* not sent, or put it in overdue.
LEMMA CoveredStep == IInv /\ [Next]_vars => Covered'
<1> SUFFICES ASSUME IInv, [Next]_vars, NEW t \in Senders,
                    \/ senderPc'[t] = "critical"
                    \/ senderPc'[t] \in {"requesting", "waiting"} /\ acquireCh'[t] > 0
             PROVE  t \in overdue' \/ Serving(t)'
  BY DEF Covered
<1> USE DEF IInv
<1>0. TypeOK'
  BY TypeStep
<1>1. ASSUME NEW s \in Senders,
             RequestLock(s) \/ RequestUnacknowledged(s) \/ RequestFailed(s)
      PROVE  t \in overdue' \/ Serving(t)'
  <2>1. t \in overdue \/ Serving(t)
    BY <1>1 DEF RequestLock, RequestUnacknowledged, RequestFailed, Attempt, Covered, TypeOK
  <2> QED
    BY <1>1, <2>1
    DEF RequestLock, RequestUnacknowledged, RequestFailed, SignalWithStart, Serving, mutexVars
<1>2. ASSUME NEW s \in Senders,
             \/ LockFails(s) \/ EnterCritical(s) \/ LeaveCritical(s)
             \/ CompleteSender(s) \/ CloseSender(s)
      PROVE  t \in overdue' \/ Serving(t)'
  <2>1. t \in overdue \/ Serving(t)
    BY <1>2
    DEF LockFails, EnterCritical, LeaveCritical, CompleteSender, CloseSender, Covered, TypeOK
  <2> QED
    BY <1>2, <2>1
    DEF LockFails, EnterCritical, LeaveCritical, CompleteSender, CloseSender, Serving, mutexVars
<1>3. ASSUME NEW s \in Senders, Unlock(s) PROVE t \in overdue' \/ Serving(t)'
  BY <1>3 DEF Unlock, Covered, Serving, TypeOK
<1>4. CASE ReceiveRequest \/ CompleteMutex \/ SignalAcquireFails \/ AwaitRelease
  BY <1>4
  DEF ReceiveRequest, CompleteMutex, SignalAcquireFails, AwaitRelease, Covered, Serving,
      senderVars
<1>5. CASE SignalAcquire
  <2>1. CASE t = holder
    BY <1>5, <2>1 DEF SignalAcquire, Serving
  <2>2. CASE t # holder
    BY <1>5, <2>2 DEF SignalAcquire, Covered, Serving, TypeOK
  <2> QED
    BY <2>1, <2>2
<1>6. CASE ReceiveRelease
  <2>1. t # holder
    BY <1>6 DEF ReceiveRelease, NoEarlyRelease, senderVars, TypeOK
  <2> QED
    BY <1>6, <2>1 DEF ReceiveRelease, Covered, Serving, senderVars
<1>7. CASE UnlockTimeout
  BY <1>7 DEF UnlockTimeout, Covered, Serving, senderVars
<1>8. CASE UNCHANGED vars
  BY <1>8 DEF vars, Covered, Serving
<1> QED
  BY <1>1, <1>2, <1>3, <1>4, <1>5, <1>6, <1>7, <1>8 DEF Next, MutexStep, SenderStep

\* A release is buffered only by Unlock, which moves its sender on for good.
LEMMA NoEarlyReleaseStep == IInv /\ [Next]_vars => NoEarlyRelease'
<1> SUFFICES ASSUME IInv, [Next]_vars, NEW t \in Senders,
                    senderPc'[t] \in {"requesting", "waiting", "critical", "unlocking"}
             PROVE  releaseCh'[t] = 0
  BY DEF NoEarlyRelease
<1> USE DEF IInv, TypeOK, SenderPc
<1>1. ASSUME NEW s \in Senders,
             RequestLock(s) \/ RequestUnacknowledged(s) \/ RequestFailed(s)
      PROVE  releaseCh'[t] = 0
  <2>1. releaseCh[t] = 0
    BY <1>1
    DEF RequestLock, RequestUnacknowledged, RequestFailed, Attempt, NoEarlyRelease
  <2> QED
    BY <1>1, <2>1
    DEF RequestLock, RequestUnacknowledged, RequestFailed, SignalWithStart, mutexVars
<1>2. ASSUME NEW s \in Senders,
             \/ LockFails(s) \/ EnterCritical(s) \/ LeaveCritical(s)
             \/ CompleteSender(s) \/ CloseSender(s)
      PROVE  releaseCh'[t] = 0
  BY <1>2
  DEF LockFails, EnterCritical, LeaveCritical, CompleteSender, CloseSender, NoEarlyRelease,
      mutexVars
<1>3. ASSUME NEW s \in Senders, Unlock(s) PROVE releaseCh'[t] = 0
  <2>1. t # s /\ releaseCh[t] = 0
    BY <1>3 DEF Unlock, NoEarlyRelease
  <2> QED
    BY <1>3, <2>1 DEF Unlock
<1>4. CASE MutexStep
  <2>1. senderPc' = senderPc /\ releaseCh[t] = 0
    BY <1>4
    DEF MutexStep, ReceiveRequest, CompleteMutex, SignalAcquire, SignalAcquireFails,
        AwaitRelease, ReceiveRelease, UnlockTimeout, senderVars, NoEarlyRelease
  <2>2. CASE ReceiveRelease
    <3>1. t # holder
      BY <2>1, <2>2 DEF ReceiveRelease
    <3> QED
      BY <2>1, <2>2, <3>1 DEF ReceiveRelease
  <2>3. CASE ~ReceiveRelease
    <3>1. releaseCh' = releaseCh
      BY <1>4, <2>3
      DEF MutexStep, ReceiveRequest, CompleteMutex, SignalAcquire, SignalAcquireFails,
          AwaitRelease, UnlockTimeout
    <3> QED
      BY <2>1, <3>1
  <2> QED
    BY <2>2, <2>3
<1>5. CASE UNCHANGED vars
  BY <1>5 DEF vars, NoEarlyRelease
<1> QED
  BY <1>1, <1>2, <1>3, <1>4, <1>5 DEF Next, SenderStep

\* The inductive invariant holds in every reachable state.
THEOREM InductiveInvariant == Spec => []IInv
<1>1. IInv /\ [Next]_vars => IInv'
  BY TypeStep, CoveredStep, NoEarlyReleaseStep DEF IInv
<1> QED
  BY IInvInit, <1>1, PTL DEF Spec

\* Two senders are in their critical operation together only after a timeout:
\* at most one of them is the one being served.
THEOREM MutualExclusionHolds == Spec => []MutualExclusion
<1>1. IInv => MutualExclusion
  BY DEF IInv, Covered, Serving, MutualExclusion
<1> QED
  BY <1>1, InductiveInvariant, PTL
------------------------------------------------------------------------------
\* A request that waits in the channel or at the head stays with the open run:
\* it completes only over an empty channel, and drops a request only by
\* signalling its sender or by finding it closed.
LEMMA NoLostRequestStep == TypeOK /\ NoLostRequest /\ [Next]_vars => NoLostRequest'
<1> SUFFICES ASSUME TypeOK, NoLostRequest, [Next]_vars, NEW t \in Senders,
                    senderPc'[t] = "waiting"
             PROVE  \/ acquireCh'[t] > 0
                    \/ mutexPc' = "signalling" /\ holder' = t
                    \/ mutexPc' # "closed" /\ \E i \in DOMAIN requestCh' : requestCh'[i] = t
  BY DEF NoLostRequest
<1> DEFINE Buffered == mutexPc # "closed" /\ \E i \in DOMAIN requestCh : requestCh[i] = t
           Kept == acquireCh[t] > 0 \/ (mutexPc = "signalling" /\ holder = t) \/ Buffered
<1>1. ASSUME NEW s \in Senders, SignalWithStart(s), Buffered \/ t = s PROVE Buffered'
  <2>1. CASE mutexPc = "closed"
    BY <1>1, <2>1 DEF SignalWithStart
  <2>2. CASE mutexPc # "closed"
    <3>1. /\ requestCh' = Append(requestCh, s)
          /\ mutexPc' # "closed"
      BY <1>1, <2>2 DEF SignalWithStart
    <3>2. /\ Len(requestCh') = Len(requestCh) + 1
          /\ Len(requestCh) \in Nat
          /\ requestCh'[Len(requestCh) + 1] = s
          /\ \A i \in 1 .. Len(requestCh) : requestCh'[i] = requestCh[i]
          /\ DOMAIN requestCh = 1 .. Len(requestCh)
          /\ DOMAIN requestCh' = 1 .. Len(requestCh')
      BY <3>1, AppendProperties DEF TypeOK
    <3> QED
      BY <1>1, <3>1, <3>2
  <2> QED
    BY <2>1, <2>2
<1>2. ASSUME NEW s \in Senders, RequestLock(s) PROVE Kept'
  <2>1. CASE t = s
    BY <1>1, <1>2, <2>1 DEF RequestLock
  <2>2. CASE t # s
    <3>1. senderPc[t] = "waiting"
      BY <1>2, <2>2 DEF RequestLock, TypeOK
    <3>2. Kept
      BY <3>1 DEF NoLostRequest
    <3> QED
      BY <1>1, <1>2, <3>2 DEF RequestLock, SignalWithStart
  <2> QED
    BY <2>1, <2>2
<1>3. ASSUME NEW s \in Senders, RequestUnacknowledged(s) PROVE Kept'
  <2>1. Kept
    BY <1>3 DEF RequestUnacknowledged, NoLostRequest
  <2> QED
    BY <1>1, <1>3, <2>1 DEF RequestUnacknowledged, SignalWithStart
<1>4. ASSUME NEW s \in Senders,
             \/ RequestFailed(s) \/ LockFails(s) \/ EnterCritical(s) \/ LeaveCritical(s)
             \/ Unlock(s) \/ CompleteSender(s) \/ CloseSender(s)
      PROVE  Kept'
  <2>1. senderPc[t] = "waiting"
    BY <1>4
    DEF RequestFailed, LockFails, EnterCritical, LeaveCritical, Unlock, CompleteSender,
        CloseSender, TypeOK
  <2>2. Kept
    BY <2>1 DEF NoLostRequest
  <2>3. t # s \/ acquireCh' = acquireCh
    BY <1>4, <2>1
    DEF RequestFailed, LockFails, EnterCritical, LeaveCritical, Unlock, CompleteSender,
        CloseSender, TypeOK
  <2>4. acquireCh'[t] = acquireCh[t] /\ UNCHANGED <<mutexPc, requestCh, holder>>
    BY <1>4, <2>3
    DEF RequestFailed, LockFails, EnterCritical, LeaveCritical, Unlock, CompleteSender,
        CloseSender, TypeOK, mutexVars
  <2> QED
    BY <2>2, <2>4
<1>5. ASSUME UNCHANGED senderPc PROVE Kept
  BY <1>5 DEF NoLostRequest
<1>6. CASE ReceiveRequest
  <2>1. Kept /\ UNCHANGED acquireCh
    BY <1>5, <1>6 DEF ReceiveRequest, senderVars
  <2>2. /\ requestCh # <<>>
        /\ holder' = Head(requestCh)
        /\ requestCh' = Tail(requestCh)
        /\ mutexPc = "receiving" /\ mutexPc' = "signalling"
    BY <1>6 DEF ReceiveRequest
  <2>3. ASSUME NEW i \in DOMAIN requestCh, requestCh[i] = t, i # 1 PROVE Buffered'
    <3>1. /\ DOMAIN requestCh' = 1 .. Len(requestCh')
          /\ Len(requestCh') = Len(requestCh) - 1
          /\ DOMAIN requestCh = 1 .. Len(requestCh)
          /\ Len(requestCh) \in Nat
          /\ \A j \in 1 .. Len(requestCh') : requestCh'[j] = requestCh[j + 1]
      BY <2>2, HeadTailProperties DEF TypeOK
    <3>2. i - 1 \in DOMAIN requestCh' /\ requestCh'[i - 1] = t
      BY <2>3, <3>1
    <3> QED
      BY <2>2, <3>2
  <2>4. Head(requestCh) = requestCh[1]
    BY <2>2 DEF TypeOK
  <2> QED
    BY <2>1, <2>2, <2>3, <2>4
<1>7. CASE CompleteMutex
  <2>1. Kept /\ UNCHANGED acquireCh /\ ~Buffered /\ mutexPc = "receiving"
    BY <1>5, <1>7 DEF CompleteMutex, senderVars
  <2> QED
    BY <2>1
<1>8. CASE SignalAcquire
  <2>1. Kept /\ UNCHANGED requestCh /\ mutexPc = "signalling" /\ mutexPc' = "signalled"
    BY <1>5, <1>8 DEF SignalAcquire
  <2>2. acquireCh'[t] > 0 \/ (t # holder /\ acquireCh'[t] = acquireCh[t])
    <3>1. /\ acquireCh' = [acquireCh EXCEPT ![holder] = @ + 1]
          /\ mutexPc = "signalling"
      BY <1>8 DEF SignalAcquire
    <3>2. holder \in Senders /\ acquireCh \in [Senders -> Nat]
      BY <3>1 DEF TypeOK
    <3>3. acquireCh'[holder] = acquireCh[holder] + 1 /\ acquireCh[holder] \in Nat
      BY <3>1, <3>2
    <3>4. acquireCh'[holder] > 0
      BY <3>3
    <3>5. t # holder => acquireCh'[t] = acquireCh[t]
      BY <3>1, <3>2
    <3> QED
      BY <3>4, <3>5
  <2> QED
    BY <2>1, <2>2
<1>9. CASE SignalAcquireFails
  <2>1. Kept /\ t # holder /\ UNCHANGED <<acquireCh, requestCh>> /\ mutexPc' = "receiving"
    BY <1>5, <1>9 DEF SignalAcquireFails, senderVars
  <2>2. mutexPc = "signalling"
    BY <1>9 DEF SignalAcquireFails
  <2> QED
    BY <2>1, <2>2
<1>10. CASE AwaitRelease \/ ReceiveRelease \/ UnlockTimeout
  <2>1. /\ Kept /\ UNCHANGED <<acquireCh, requestCh>>
        /\ mutexPc \in {"signalled", "holding"} /\ mutexPc' # "closed"
    BY <1>5, <1>10 DEF AwaitRelease, ReceiveRelease, UnlockTimeout, senderVars
  <2> QED
    BY <2>1
<1>11. CASE UNCHANGED vars
  BY <1>5, <1>11 DEF vars
<1> QED
  BY <1>2, <1>3, <1>4, <1>6, <1>7, <1>8, <1>9, <1>10, <1>11 DEF Next, MutexStep, SenderStep

\* A sender blocked in Lock is never forgotten by the mutex workflows.
THEOREM NoLostRequestHolds == Spec => []NoLostRequest
<1>1. Init => NoLostRequest
  BY DEF Init, NoLostRequest
<1> QED
  BY <1>1, TypeCorrect, NoLostRequestStep, PTL DEF Spec
------------------------------------------------------------------------------
\* Every step of the workflows is a step of the lease lock or changes nothing of
\* it: only the delivered acquire signal lends, and what ends a lease is the
\* release of a sender that has left or the timeout.
LEMMA LeaseStep == IInv /\ IInv' /\ [Next]_vars => [Lease!LeaseNext]_(Lease!leaseVars)
<1> SUFFICES ASSUME IInv, IInv', [Next]_vars
             PROVE  [Lease!LeaseNext]_(Lease!leaseVars)
  OBVIOUS
<1> DEFINE Owner == IF mutexPc \in {"signalled", "holding"} THEN holder ELSE NoSender
           Inside == {s \in Senders : senderPc[s] = "critical"}
<1> USE NoSenderIsNoSender DEF IInv, TypeOK
<1>0. ASSUME UNCHANGED <<Owner, Inside, overdue>>
      PROVE  [Lease!LeaseNext]_(Lease!leaseVars)
  BY <1>0 DEF Lease!leaseVars
<1>1. ASSUME NEW s \in Senders,
             RequestLock(s) \/ RequestUnacknowledged(s) \/ RequestFailed(s)
      PROVE  [Lease!LeaseNext]_(Lease!leaseVars)
  <2>1. UNCHANGED <<Owner, overdue>>
    BY <1>1
    DEF RequestLock, RequestUnacknowledged, RequestFailed, SignalWithStart, mutexVars
  <2>2. \A t \in Senders : senderPc'[t] = "critical" <=> senderPc[t] = "critical"
    BY <1>1 DEF RequestLock, RequestUnacknowledged, RequestFailed, Attempt
  <2> QED
    BY <1>0, <2>1, <2>2
<1>2. ASSUME NEW s \in Senders, LockFails(s) \/ Unlock(s) \/ CompleteSender(s)
      PROVE  [Lease!LeaseNext]_(Lease!leaseVars)
  <2>1. UNCHANGED <<Owner, overdue>>
    BY <1>2 DEF LockFails, Unlock, CompleteSender, mutexVars
  <2>2. \A t \in Senders : senderPc'[t] = "critical" <=> senderPc[t] = "critical"
    BY <1>2 DEF LockFails, Unlock, CompleteSender
  <2> QED
    BY <1>0, <2>1, <2>2
<1>3. ASSUME NEW s \in Senders, EnterCritical(s)
      PROVE  [Lease!LeaseNext]_(Lease!leaseVars)
  <2>1. UNCHANGED <<Owner, overdue>>
    BY <1>3 DEF EnterCritical, mutexVars
  <2>2. Inside' = Inside \cup {s}
    <3>1. senderPc' = [senderPc EXCEPT ![s] = "critical"]
      BY <1>3 DEF EnterCritical
    <3>2. \A t \in Senders : senderPc'[t] = "critical" <=> t = s \/ senderPc[t] = "critical"
      BY <3>1
    <3> QED
      BY <3>2
  <2>3. Owner = s \/ s \in overdue
    BY <1>3 DEF EnterCritical, Covered, Serving
  <2>4. Lease!Enter(s)
    BY <2>1, <2>2, <2>3 DEF Lease!Enter
  <2> QED
    BY <2>4 DEF Lease!LeaseNext
<1>4. ASSUME NEW s \in Senders, LeaveCritical(s) \/ CloseSender(s)
      PROVE  [Lease!LeaseNext]_(Lease!leaseVars)
  <2>1. UNCHANGED <<Owner, overdue>>
    BY <1>4 DEF LeaveCritical, CloseSender, mutexVars
  <2>2. Inside' = Inside \ {s}
    <3>1. \/ senderPc' = [senderPc EXCEPT ![s] = "unlocking"]
          \/ senderPc' = [senderPc EXCEPT ![s] = "closed"]
      BY <1>4 DEF LeaveCritical, CloseSender
    <3>2. \A t \in Senders : senderPc'[t] = "critical" <=> t # s /\ senderPc[t] = "critical"
      BY <3>1
    <3> QED
      BY <3>2
  <2>3. CASE s \in Inside
    <3>1. Lease!Leave(s)
      BY <2>1, <2>2, <2>3 DEF Lease!Leave
    <3> QED
      BY <3>1 DEF Lease!LeaseNext
  <2>4. CASE s \notin Inside
    BY <1>0, <2>1, <2>2, <2>4
  <2> QED
    BY <2>3, <2>4
<1>5. CASE ReceiveRequest \/ CompleteMutex \/ SignalAcquireFails \/ AwaitRelease
  BY <1>0, <1>5
  DEF ReceiveRequest, CompleteMutex, SignalAcquireFails, AwaitRelease, senderVars
<1>6. CASE SignalAcquire
  <2>1. holder \in Senders /\ Owner = NoSender /\ Owner' = holder
    BY <1>6 DEF SignalAcquire
  <2>2. Lease!Lend(holder)
    BY <1>6, <2>1 DEF SignalAcquire, Lease!Lend
  <2> QED
    BY <2>1, <2>2 DEF Lease!LeaseNext
<1>7. CASE ReceiveRelease
  <2>1. /\ holder \in Senders /\ Owner = holder /\ Owner' = NoSender
        /\ UNCHANGED <<Inside, overdue>>
    BY <1>7 DEF ReceiveRelease, senderVars
  <2>2. holder \notin Inside
    BY <1>7, <2>1 DEF ReceiveRelease, NoEarlyRelease
  <2>3. Lease!GiveBack(holder)
    BY <2>1, <2>2 DEF Lease!GiveBack
  <2> QED
    BY <2>1, <2>3 DEF Lease!LeaseNext
<1>8. CASE UnlockTimeout
  <2>1. /\ holder \in Senders /\ Owner = holder /\ Owner' = NoSender
        /\ overdue' = overdue \cup {holder} /\ UNCHANGED Inside
    BY <1>8 DEF UnlockTimeout, senderVars
  <2>2. Lease!Expire(holder)
    BY <2>1 DEF Lease!Expire
  <2> QED
    BY <2>1, <2>2 DEF Lease!LeaseNext
<1>9. CASE UNCHANGED vars
  BY <1>0, <1>9 DEF vars
<1> QED
  BY <1>1, <1>2, <1>3, <1>4, <1>5, <1>6, <1>7, <1>8, <1>9 DEF Next, MutexStep, SenderStep

\* The mutex workflows implement the lease lock.
THEOREM Implementation == Spec => ImplementsLease
<1>1. Init => Lease!LeaseInit
  BY DEF Init, Lease!LeaseInit
<1> QED
  BY <1>1, LeaseStep, InductiveInvariant, PTL DEF Spec, ImplementsLease, Lease!LeaseSpec

\* Every behaviour of the lease lock keeps the strengthened invariant.
THEOREM LeaseInvariant == Lease!LeaseSpec => []Lease!LeaseInv
<1> DEFINE Owner == IF mutexPc \in {"signalled", "holding"} THEN holder ELSE NoSender
           Inside == {s \in Senders : senderPc[s] = "critical"}
<1>1. Lease!LeaseInit => Lease!LeaseInv
  BY NoSenderIsNoSender DEF Lease!LeaseInit, Lease!LeaseInv, Lease!LeaseTypeOK
<1>2. Lease!LeaseInv /\ [Lease!LeaseNext]_(Lease!leaseVars) => Lease!LeaseInv'
  <2> SUFFICES ASSUME Lease!LeaseInv, [Lease!LeaseNext]_(Lease!leaseVars)
               PROVE  Lease!LeaseInv'
    OBVIOUS
  <2> USE NoSenderIsNoSender DEF Lease!LeaseInv, Lease!LeaseTypeOK
  <2>1. ASSUME NEW s \in Senders, Lease!Lend(s) PROVE Lease!LeaseInv'
    <3>1. Lease!LeaseTypeOK'
      BY <2>1 DEF Lease!Lend
    <3>2. (Inside \subseteq {Owner} \cup overdue)'
      BY <2>1 DEF Lease!Lend
    <3> QED
      BY <3>1, <3>2
  <2>2. ASSUME NEW s \in Senders, Lease!Enter(s) PROVE Lease!LeaseInv'
    <3>1. Lease!LeaseTypeOK'
      BY <2>2 DEF Lease!Enter
    <3>2. (Inside \subseteq {Owner} \cup overdue)'
      BY <2>2 DEF Lease!Enter
    <3> QED
      BY <3>1, <3>2
  <2>3. ASSUME NEW s \in Senders, Lease!Leave(s) PROVE Lease!LeaseInv'
    <3>1. Lease!LeaseTypeOK'
      BY <2>3 DEF Lease!Leave
    <3>2. (Inside \subseteq {Owner} \cup overdue)'
      BY <2>3 DEF Lease!Leave
    <3> QED
      BY <3>1, <3>2
  <2>4. ASSUME NEW s \in Senders, Lease!GiveBack(s) PROVE Lease!LeaseInv'
    <3>1. Lease!LeaseTypeOK'
      BY <2>4 DEF Lease!GiveBack
    <3>2. (Inside \subseteq {Owner} \cup overdue)'
      BY <2>4 DEF Lease!GiveBack
    <3> QED
      BY <3>1, <3>2
  <2>5. ASSUME NEW s \in Senders, Lease!Expire(s) PROVE Lease!LeaseInv'
    <3>1. Lease!LeaseTypeOK'
      BY <2>5 DEF Lease!Expire
    <3>2. (Inside \subseteq {Owner} \cup overdue)'
      BY <2>5 DEF Lease!Expire
    <3> QED
      BY <3>1, <3>2
  <2>6. CASE UNCHANGED Lease!leaseVars
    BY <2>6 DEF Lease!leaseVars
  <2> QED
    BY <2>1, <2>2, <2>3, <2>4, <2>5, <2>6 DEF Lease!LeaseNext
<1> QED
  BY <1>1, <1>2, PTL DEF Lease!LeaseSpec

\* The lease lock excludes: of two senders inside together, one overstayed.
THEOREM LeaseExclusion == Lease!LeaseSpec => []Lease!Exclusion
<1>1. Lease!LeaseInv => Lease!Exclusion
  BY NoSenderIsNoSender DEF Lease!LeaseInv, Lease!LeaseTypeOK, Lease!Exclusion
<1> QED
  BY <1>1, LeaseInvariant, PTL
==============================================================================
