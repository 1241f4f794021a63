---------------------------- MODULE ReqRespProofs -----------------------------
(***************************************************************************)
(* Proofs about ReqResp: the bookkeeping of the calls and of the open run, *)
(* what a continue-as-new leaves behind, and the promise Rpc.              *)
(***************************************************************************)
EXTENDS ReqResp, FiniteSetTheorems, TLAPS

\* The requests a run is busy with.
Busy(f) == {r \in Requests : f[r] \in InRun}

\* The requests of a run are counted: of a finite set, one more or one less.
LEMMA BusyCounted ==
  ASSUME NEW f \in [Requests -> Stages]
  PROVE  /\ Cardinality(Busy(f)) \in Nat
         /\ Cardinality(Busy(f)) = 0 => Busy(f) = {}
         /\ \A r \in Requests, s \in Stages :
              LET g == [f EXCEPT ![r] = s]
              IN  /\ (f[r] \in InRun <=> s \in InRun) => Busy(g) = Busy(f)
                  /\ f[r] \notin InRun /\ s \in InRun
                       => Cardinality(Busy(g)) = Cardinality(Busy(f)) + 1
                  /\ f[r] \in InRun /\ s \notin InRun
                       => Cardinality(Busy(g)) = Cardinality(Busy(f)) - 1
<1>1. IsFiniteSet(Busy(f))
  BY RequestsAssumption, FS_Subset DEF Busy
<1>2. /\ Cardinality(Busy(f)) \in Nat
      /\ Cardinality(Busy(f)) = 0 => Busy(f) = {}
  BY <1>1, FS_CardinalityType, FS_EmptySet
<1>3. ASSUME NEW r \in Requests, NEW s \in Stages
      PROVE  LET g == [f EXCEPT ![r] = s]
             IN  /\ (f[r] \in InRun <=> s \in InRun) => Busy(g) = Busy(f)
                 /\ f[r] \notin InRun /\ s \in InRun
                      => Cardinality(Busy(g)) = Cardinality(Busy(f)) + 1
                 /\ f[r] \in InRun /\ s \notin InRun
                      => Cardinality(Busy(g)) = Cardinality(Busy(f)) - 1
  <2> DEFINE g == [f EXCEPT ![r] = s]
  <2>1. CASE (f[r] \in InRun <=> s \in InRun)
    BY <2>1 DEF Busy
  <2>2. CASE f[r] \notin InRun /\ s \in InRun
    <3>1. Busy(g) = Busy(f) \cup {r} /\ r \notin Busy(f)
      BY <2>2 DEF Busy
    <3> QED BY <1>1, <2>2, <3>1, FS_AddElement
  <2>3. CASE f[r] \in InRun /\ s \notin InRun
    <3>1. Busy(g) = Busy(f) \ {r} /\ r \in Busy(f)
      BY <2>3 DEF Busy
    <3> QED BY <1>1, <2>3, <3>1, FS_RemoveElement
  <2> QED BY <2>1, <2>2, <2>3
<1> QED BY <1>2, <1>3
------------------------------------------------------------------------------
\* Every step keeps the type invariant.
LEMMA TypeStep == IInv /\ [Next]_vars => TypeOK'
<1> SUFFICES ASSUME IInv, [Next]_vars
             PROVE  TypeOK'
  OBVIOUS
<1> USE AttemptsAssumption DEF IInv, TypeOK, mode, callerVars, runVars, serverVars, Stages
<1>1. ASSUME NEW r \in Requests, Ask(r) \/ SendSignal(r) \/ SendFails(r) \/ GiveUp(r)
      PROVE  TypeOK'
  BY <1>1 DEF Ask, SendSignal, SendFails, GiveUp, Return
<1>2. ASSUME NEW r \in Requests, ReceiveResponse(r) \/ PollHit(r)
      PROVE  TypeOK'
  <2>1. outcome[r] \in {"ok", "error"}
    BY <1>2 DEF Computed, ReceiveResponse, PollHit
  <2> QED BY <1>2, <2>1 DEF ReceiveResponse, PollHit, Return
<1>3. ASSUME NEW r \in Requests, PollMiss(r) \/ PollTimeout(r)
      PROVE  TypeOK'
  BY <1>3 DEF PollMiss, PollTimeout, Return
<1>4. ASSUME NEW r \in Requests, UpdateReturns(r)
      PROVE  TypeOK'
  <2>1. stage[r] = "done" => outcome[r] \in {"ok", "error"}
    BY DEF Computed
  <2> QED BY <1>4, <2>1 DEF UpdateReturns, Return
<1>5. ASSUME NEW r \in Requests,
             ReceiveRequest(r) \/ SendResponse(r) \/ KeepResponse(r) \/ ResponseOver(r)
      PROVE  TypeOK'
  BY <1>5 DEF ReceiveRequest, SendResponse, KeepResponse, ResponseOver
<1>6. CASE ContinueAsNew \/ ContinueAsNewWithUpdates \/ Cancel
  <2>1. Abandoned \in [Requests -> Stages]
    BY DEF Abandoned
  <2>2. CASE NextRun
    BY <2>1, <2>2 DEF NextRun
  <2>3. CASE Cancel
    BY <2>1, <2>3 DEF Cancel
  <2> QED BY <1>6, <2>2, <2>3 DEF ContinueAsNew, ContinueAsNewWithUpdates
<1>7. ASSUME NEW r \in Requests, AcceptUpdate(r) \/ RejectUpdate(r)
      PROVE  TypeOK'
  BY <1>7 DEF AcceptUpdate, RejectUpdate
<1>8. ASSUME NEW r \in Requests, FinishUpdate(r)
      PROVE  TypeOK'
  <2>1. /\ pendingUpdates = Cardinality(Busy(stage))
        /\ r \in Busy(stage)
    BY <1>8 DEF FinishUpdate, UpdateRun, Bookkeeping, Busy, InRun
  <2>2. pendingUpdates - 1 \in Nat
    BY <2>1, BusyCounted
  <2> QED BY <1>8, <2>2 DEF FinishUpdate
<1>9. ASSUME NEW r \in Requests, Uppercase(r) \/ ResponseTimesOut(r)
      PROVE  TypeOK'
  BY <1>9 DEF Uppercase, ResponseTimesOut
<1>10. ASSUME NEW r \in Requests, StartAttempt(r)
       PROVE  TypeOK'
  <2>1. attempts[r] + 1 \in 0 .. MaxAttempts /\ sending[r] + 1 \in Nat
    BY <1>10 DEF StartAttempt
  <2>2. stage' \in [Requests -> Stages]
    BY <1>10 DEF StartAttempt, Report
  <2> QED BY <1>10, <2>1, <2>2 DEF StartAttempt
<1>11. ASSUME NEW r \in Requests, Respond(r)
       PROVE  TypeOK'
  <2>1. sending[r] - 1 \in Nat
    BY <1>11 DEF Respond
  <2>2. stage' \in [Requests -> Stages]
    BY <1>11 DEF Respond, Report
  <2> QED BY <1>11, <2>1, <2>2 DEF Respond
<1>12. CASE UNCHANGED vars
  BY <1>12 DEF vars
<1> QED
  BY <1>1, <1>2, <1>3, <1>4, <1>5, <1>6, <1>7, <1>8, <1>9, <1>10, <1>11, <1>12
  DEF Next, CallerStep, RunStep, UpdateStep, ActivityStep
------------------------------------------------------------------------------
\* What each step does to the counting of a run's requests is one of three things.
LEMMA BookkeepingStep == IInv /\ [Next]_vars => Bookkeeping'
<1> SUFFICES ASSUME IInv, [Next]_vars
             PROVE  Bookkeeping'
  OBVIOUS
<1> USE DEF IInv, mode, callerVars, runVars, serverVars
<1>0. /\ stage \in [Requests -> Stages]
      /\ caller \in [Requests -> {"idle", "asking", "waiting", "missed",
                                  "ok", "error", "empty", "gaveUp"}]
      /\ pending = IF delivery = "activity" THEN Waiting ELSE {}
      /\ open /\ delivery = "update" => pendingUpdates = Cardinality(Busy(stage))
  BY DEF TypeOK, Bookkeeping, Busy
<1>1. SUFFICES
        /\ pending' = IF delivery' = "activity" THEN Waiting' ELSE {}
        /\ open' /\ delivery' = "update" => pendingUpdates' = Cardinality(Busy(stage'))
  BY DEF Bookkeeping, Busy
<1>2. pending' = IF delivery' = "activity" THEN Waiting' ELSE {}
  <2>1. ASSUME NEW r \in Requests, Ask(r) \/ SendSignal(r) \/ SendFails(r) \/ GiveUp(r)
        PROVE  pending' = IF delivery' = "activity" THEN Waiting' ELSE {}
    BY <1>0, <2>1 DEF Ask, SendSignal, SendFails, GiveUp, Return, Waiting
  <2>2. ASSUME NEW r \in Requests, ReceiveResponse(r)
        PROVE  pending' = IF delivery' = "activity" THEN Waiting' ELSE {}
    <3>1. outcome[r] \in {"ok", "error"}
      BY <2>2 DEF Computed, ReceiveResponse, TypeOK
    <3> QED BY <1>0, <2>2, <3>1 DEF ReceiveResponse, Return, Waiting
  <2>3. ASSUME NEW r \in Requests,
               PollHit(r) \/ PollMiss(r) \/ PollTimeout(r) \/ UpdateReturns(r)
        PROVE  pending' = IF delivery' = "activity" THEN Waiting' ELSE {}
    <3>1. delivery' # "activity" /\ delivery # "activity" /\ pending' \subseteq pending
      BY <2>3 DEF PollHit, PollMiss, PollTimeout, UpdateReturns, Return
    <3> QED BY <1>0, <3>1
  <2>4. ASSUME NEW r \in Requests, AcceptUpdate(r) \/ RejectUpdate(r)
        PROVE  pending' = IF delivery' = "activity" THEN Waiting' ELSE {}
    BY <1>0, <2>4 DEF AcceptUpdate, RejectUpdate, UpdateRun
  <2>5. ASSUME UNCHANGED <<delivery, caller, pending>>
        PROVE  pending' = IF delivery' = "activity" THEN Waiting' ELSE {}
    BY <1>0, <2>5 DEF Waiting
  <2>6. ASSUME NEW r \in Requests,
               \/ ReceiveRequest(r) \/ SendResponse(r) \/ KeepResponse(r) \/ ResponseOver(r)
               \/ FinishUpdate(r) \/ Uppercase(r) \/ ResponseTimesOut(r)
               \/ StartAttempt(r) \/ Respond(r)
        PROVE  UNCHANGED <<delivery, caller, pending>>
    BY <2>6 DEF ReceiveRequest, SendResponse, KeepResponse, ResponseOver, FinishUpdate,
         Uppercase, ResponseTimesOut, StartAttempt, Respond
  <2>7. ASSUME \/ ContinueAsNew \/ ContinueAsNewWithUpdates \/ Cancel \/ UNCHANGED vars
        PROVE  UNCHANGED <<delivery, caller, pending>>
    BY <2>7 DEF ContinueAsNew, ContinueAsNewWithUpdates, Cancel, NextRun, vars
  <2> QED
    BY <2>1, <2>2, <2>3, <2>4, <2>5, <2>6, <2>7
    DEF Next, CallerStep, RunStep, UpdateStep, ActivityStep
<1>3. open' /\ delivery' = "update" => pendingUpdates' = Cardinality(Busy(stage'))
  <2> SUFFICES ASSUME open', delivery' = "update"
               PROVE  pendingUpdates' = Cardinality(Busy(stage'))
    OBVIOUS
  <2>1. ASSUME NEW r \in Requests,
               \/ Ask(r) \/ SendFails(r) \/ GiveUp(r) \/ CallerStep(r)
        PROVE  pendingUpdates' = Cardinality(Busy(stage'))
    <3>1. UNCHANGED <<open, delivery, pendingUpdates, stage>>
      BY <2>1 DEF Ask, SendFails, GiveUp, CallerStep, ReceiveResponse, PollHit, PollMiss,
           PollTimeout, UpdateReturns
    <3> QED BY <1>0, <3>1
  <2>2. ASSUME NEW r \in Requests,
               \/ SendSignal(r) \/ ReceiveRequest(r) \/ SendResponse(r) \/ KeepResponse(r)
               \/ ResponseOver(r)
        PROVE  FALSE
    BY <2>2 DEF SendSignal, ReceiveRequest, SendResponse, KeepResponse, ResponseOver, SignalRun
  <2>9. ASSUME ContinueAsNew \/ Cancel
        PROVE  FALSE
    BY <2>9 DEF ContinueAsNew, Cancel, SignalRun, NextRun
  <2>3. ASSUME NEW r \in Requests, AcceptUpdate(r)
        PROVE  pendingUpdates' = Cardinality(Busy(stage'))
    <3>1. stage[r] = "unsent" /\ stage' = [stage EXCEPT ![r] = "working"]
          /\ pendingUpdates' = pendingUpdates + 1 /\ open /\ delivery = "update"
      BY <2>3 DEF AcceptUpdate, Unsent, UpdateRun
    <3>2. Cardinality(Busy([stage EXCEPT ![r] = "working"])) = Cardinality(Busy(stage)) + 1
      <4>1. "working" \in Stages /\ stage[r] \notin InRun /\ "working" \in InRun
        BY <3>1 DEF Stages, InRun
      <4> QED BY <1>0, <4>1, BusyCounted
    <3> QED BY <1>0, <3>1, <3>2
  <2>4. ASSUME NEW r \in Requests, RejectUpdate(r)
        PROVE  pendingUpdates' = Cardinality(Busy(stage'))
    <3>1. stage[r] = "unsent" /\ stage' = [stage EXCEPT ![r] = "rejected"]
          /\ pendingUpdates' = pendingUpdates /\ open /\ delivery = "update"
      BY <2>4 DEF RejectUpdate, Unsent, UpdateRun
    <3>2. Cardinality(Busy([stage EXCEPT ![r] = "rejected"])) = Cardinality(Busy(stage))
      <4>1. "rejected" \in Stages /\ stage[r] \notin InRun /\ "rejected" \notin InRun
        BY <3>1 DEF Stages, InRun
      <4> QED BY <1>0, <4>1, BusyCounted
    <3> QED BY <1>0, <3>1, <3>2
  <2>5. ASSUME NEW r \in Requests, FinishUpdate(r)
        PROVE  pendingUpdates' = Cardinality(Busy(stage'))
    <3>1. stage[r] = "resolved" /\ stage' = [stage EXCEPT ![r] = "done"]
          /\ pendingUpdates' = pendingUpdates - 1 /\ open /\ delivery = "update"
      BY <2>5 DEF FinishUpdate, UpdateRun
    <3>2. Cardinality(Busy([stage EXCEPT ![r] = "done"])) = Cardinality(Busy(stage)) - 1
      <4>1. "done" \in Stages /\ stage[r] \in InRun /\ "done" \notin InRun
        BY <3>1 DEF Stages, InRun
      <4> QED BY <1>0, <4>1, BusyCounted
    <3> QED BY <1>0, <3>1, <3>2
  <2>6. ASSUME NEW r \in Requests,
               Uppercase(r) \/ ResponseTimesOut(r) \/ StartAttempt(r) \/ Respond(r)
        PROVE  pendingUpdates' = Cardinality(Busy(stage'))
    <3>1. /\ UNCHANGED <<open, delivery, pendingUpdates>>
          /\ \/ UNCHANGED stage
             \/ /\ stage[r] = "working"
                /\ stage' = [stage EXCEPT ![r] = "resolved"]
             \/ /\ stage[r] = "responding"
                /\ stage' = [stage EXCEPT ![r] = "responded"]
      BY <2>6 DEF Uppercase, ResponseTimesOut, StartAttempt, Respond, Report
    <3>2. stage[r] = "working" => Busy([stage EXCEPT ![r] = "resolved"]) = Busy(stage)
      BY <1>0 DEF Busy, InRun
    <3>3. stage[r] = "responding" => Busy([stage EXCEPT ![r] = "responded"]) = Busy(stage)
      BY <1>0 DEF Busy, InRun
    <3> QED BY <1>0, <3>1, <3>2, <3>3
  <2>7. CASE ContinueAsNewWithUpdates
    <3>1. Busy(stage') = {}
      BY <2>7 DEF ContinueAsNewWithUpdates, NextRun, Abandoned, Busy, InRun
    <3> QED BY <2>7, <3>1, FS_EmptySet DEF ContinueAsNewWithUpdates, NextRun
  <2>8. CASE UNCHANGED vars
    BY <1>0, <2>8 DEF vars
  <2> QED
    BY <2>1, <2>2, <2>3, <2>4, <2>5, <2>6, <2>7, <2>8, <2>9
    DEF Next, RunStep, UpdateStep, ActivityStep
<1> QED BY <1>1, <1>2, <1>3
------------------------------------------------------------------------------
\* Only a call that sends gives the workflow a request, and no call starts over.
LEMMA UnsentStep == IInv /\ [Next]_vars => Unsent'
<1> SUFFICES ASSUME IInv, [Next]_vars, NEW q \in Requests,
                    caller'[q] \in {"idle", "asking"}
             PROVE  stage'[q] = "unsent"
  BY DEF Unsent
<1> USE DEF IInv, TypeOK, mode, callerVars, runVars, serverVars
<1>1. ASSUME NEW r \in Requests, Ask(r) \/ SendSignal(r) \/ SendFails(r) \/ GiveUp(r)
      PROVE  stage'[q] = "unsent"
  BY <1>1 DEF Ask, SendSignal, SendFails, GiveUp, Return, Unsent
<1>2. ASSUME NEW r \in Requests, CallerStep(r)
      PROVE  stage'[q] = "unsent"
  <2>1. UNCHANGED stage /\ caller[q] \in {"idle", "asking"}
    BY <1>2 DEF CallerStep, ReceiveResponse, PollHit, PollMiss, PollTimeout, UpdateReturns,
         Return, Unsent, Computed
  <2> QED BY <2>1 DEF Unsent
<1>3. ASSUME NEW r \in Requests, AcceptUpdate(r) \/ RejectUpdate(r)
      PROVE  stage'[q] = "unsent"
  BY <1>3 DEF AcceptUpdate, RejectUpdate, Unsent
<1>4. ASSUME NEW r \in Requests,
             \/ ReceiveRequest(r) \/ SendResponse(r) \/ KeepResponse(r) \/ ResponseOver(r)
             \/ FinishUpdate(r)
      PROVE  stage'[q] = "unsent"
  BY <1>4 DEF ReceiveRequest, SendResponse, KeepResponse, ResponseOver, FinishUpdate, Unsent
<1>5. ASSUME NEW r \in Requests,
             Uppercase(r) \/ ResponseTimesOut(r) \/ StartAttempt(r) \/ Respond(r)
      PROVE  stage'[q] = "unsent"
  BY <1>5 DEF Uppercase, ResponseTimesOut, StartAttempt, Respond, Report, Unsent
<1>6. CASE ContinueAsNew \/ ContinueAsNewWithUpdates \/ Cancel
  <2>1. UNCHANGED caller /\ stage' = Abandoned
    BY <1>6 DEF ContinueAsNew, ContinueAsNewWithUpdates, Cancel, NextRun
  <2> QED BY <2>1 DEF Abandoned, Unsent, InRun
<1>7. CASE UNCHANGED vars
  BY <1>7 DEF vars, Unsent
<1> QED
  BY <1>1, <1>2, <1>3, <1>4, <1>5, <1>6, <1>7 DEF Next, RunStep, UpdateStep, ActivityStep

\* An outcome appears with the end of its activity and never changes.
LEMMA ComputedStep == IInv /\ [Next]_vars => Computed'
<1> SUFFICES ASSUME IInv, [Next]_vars
             PROVE  Computed'
  OBVIOUS
<1> USE DEF IInv, TypeOK, mode, callerVars, runVars, serverVars
<1>1. ASSUME NEW r \in Requests, Ask(r) \/ SendSignal(r) \/ SendFails(r) \/ GiveUp(r)
      PROVE  Computed'
  BY <1>1 DEF Ask, SendSignal, SendFails, GiveUp, Unsent, Computed
<1>2. ASSUME NEW r \in Requests, CallerStep(r)
      PROVE  Computed'
  <2>1. UNCHANGED <<stage, outcome, sending, responses>> /\ mailbox' \subseteq mailbox
    BY <1>2 DEF CallerStep, ReceiveResponse, PollHit, PollMiss, PollTimeout, UpdateReturns
  <2> QED BY <2>1 DEF Computed
<1>3. ASSUME NEW r \in Requests, AcceptUpdate(r) \/ RejectUpdate(r)
      PROVE  Computed'
  BY <1>3 DEF AcceptUpdate, RejectUpdate, Unsent, Computed
<1>4. ASSUME NEW r \in Requests,
             \/ ReceiveRequest(r) \/ SendResponse(r) \/ KeepResponse(r) \/ ResponseOver(r)
             \/ FinishUpdate(r)
      PROVE  Computed'
  BY <1>4 DEF ReceiveRequest, SendResponse, KeepResponse, ResponseOver, FinishUpdate, Computed
<1>5. ASSUME NEW r \in Requests, Uppercase(r)
      PROVE  Computed'
  <2> SUFFICES ASSUME NEW q \in Requests
               PROVE  /\ stage'[q] \in {"unsent", "buffered", "working", "rejected"}
                           => outcome'[q] = "none"
                      /\ stage'[q] \in {"resolved", "responding", "responded", "done"}
                           => outcome'[q] # "none"
                      /\ q \in responses' \cup mailbox' \/ sending'[q] > 0 => outcome'[q] # "none"
    BY DEF Computed
  <2>1. UNCHANGED <<responses, mailbox, sending>>
    BY <1>5 DEF Uppercase
  <2>2. CASE q = r
    <3>1. outcome'[q] \in {"ok", "error"} /\ stage'[q] = "resolved"
      BY <1>5, <2>2 DEF Uppercase
    <3> QED BY <3>1
  <2>3. CASE q # r
    <3>1. outcome'[q] = outcome[q] /\ stage'[q] = stage[q]
      BY <1>5, <2>3 DEF Uppercase
    <3> QED BY <2>1, <3>1 DEF Computed
  <2> QED BY <2>2, <2>3
<1>6. ASSUME NEW r \in Requests, ResponseTimesOut(r)
      PROVE  Computed'
  BY <1>6 DEF ResponseTimesOut, Computed
<1>7. ASSUME NEW r \in Requests, StartAttempt(r)
      PROVE  Computed'
  BY <1>7 DEF StartAttempt, Report, Computed
<1>8. ASSUME NEW r \in Requests, Respond(r)
      PROVE  Computed'
  BY <1>8 DEF Respond, Report, Computed
<1>9. CASE ContinueAsNew \/ ContinueAsNewWithUpdates \/ Cancel
  <2>1. /\ UNCHANGED <<outcome, mailbox, sending>>
        /\ responses' \subseteq responses
        /\ stage' = Abandoned
    BY <1>9 DEF ContinueAsNew, ContinueAsNewWithUpdates, Cancel, NextRun
  <2> QED BY <2>1 DEF Abandoned, Computed, InRun
<1>10. CASE UNCHANGED vars
  BY <1>10 DEF vars, Computed
<1> QED
  BY <1>1, <1>2, <1>3, <1>4, <1>5, <1>6, <1>7, <1>8, <1>9, <1>10
  DEF Next, RunStep, UpdateStep, ActivityStep

\* No step changes which program it is.
LEMMA ModeStep == [Next]_vars => UNCHANGED mode
BY DEF Next, RunStep, UpdateStep, ActivityStep, CallerStep, vars, mode, NextRun,
  Ask, SendSignal, SendFails, GiveUp, ReceiveResponse, PollHit, PollMiss, PollTimeout,
  UpdateReturns, ReceiveRequest, SendResponse, KeepResponse, ResponseOver, ContinueAsNew, Cancel,
  AcceptUpdate, RejectUpdate, FinishUpdate, ContinueAsNewWithUpdates, Uppercase, StartAttempt,
  Respond, ResponseTimesOut

\* The invariant holds at first.
LEMMA IInvInit == Init => IInv
<1> SUFFICES ASSUME Init PROVE IInv
  OBVIOUS
<1>1. TypeOK /\ (rejecting => delivery = "update")
  <2>1. rejecting \in BOOLEAN /\ (rejecting => delivery = "update")
    <3>1. CASE delivery = "update"
      BY <3>1 DEF Init
    <3>2. CASE delivery # "update"
      BY <3>2 DEF Init
    <3> QED BY <3>1, <3>2
  <2> QED BY <2>1, AttemptsAssumption DEF Init, TypeOK, Stages
<1>2. Waiting = {} /\ {r \in Requests : stage[r] \in InRun} = {}
  BY DEF Init, Waiting, InRun
<1>3. Bookkeeping
  BY <1>2, FS_EmptySet DEF Bookkeeping, Init
<1>4. Unsent /\ Computed
  BY DEF Init, Unsent, Computed
<1> QED BY <1>1, <1>3, <1>4 DEF IInv

\* The bookkeeping of calls, runs and outcomes is an inductive invariant.
THEOREM InductiveInvariant == Spec => []IInv
<1>1. IInv /\ [Next]_vars => IInv'
  BY TypeStep, BookkeepingStep, UnsentStep, ComputedStep, ModeStep DEF IInv, mode
<1> QED BY <1>1, IInvInit, PTL DEF Spec
------------------------------------------------------------------------------
\* A workflow that rejects takes no request once it has Limit of them.
LEMMA RunBoundedStep == IInv /\ RunBounded /\ [Next]_vars => RunBounded'
<1> SUFFICES ASSUME IInv, RunBounded, [Next]_vars, rejecting'
             PROVE  requestCount' <= Limit
  BY DEF RunBounded
<1>1. /\ rejecting /\ delivery = "update" /\ requestCount <= Limit
      /\ requestCount \in Nat /\ Limit \in Nat
  BY ModeStep, LimitAssumption DEF IInv, TypeOK, RunBounded, mode
<1>2. ASSUME NEW r \in Requests, AcceptUpdate(r)
      PROVE  requestCount' <= Limit
  BY <1>1, <1>2 DEF AcceptUpdate, Validator
<1>3. ASSUME NextRun
      PROVE  requestCount' <= Limit
  BY <1>1, <1>3 DEF NextRun
<1>4. ASSUME NEW r \in Requests, ReceiveRequest(r)
      PROVE  FALSE
  BY <1>1, <1>4 DEF ReceiveRequest, SignalRun
<1>5. ASSUME NEW r \in Requests,
             \/ Ask(r) \/ SendSignal(r) \/ SendFails(r) \/ GiveUp(r) \/ CallerStep(r)
             \/ RejectUpdate(r) \/ SendResponse(r) \/ KeepResponse(r) \/ ResponseOver(r)
             \/ FinishUpdate(r) \/ ActivityStep(r) \/ StartAttempt(r) \/ Respond(r)
      PROVE  requestCount' = requestCount
  BY <1>5 DEF Ask, SendSignal, SendFails, GiveUp, CallerStep, ReceiveResponse, PollHit, PollMiss,
       PollTimeout, UpdateReturns, RejectUpdate, SendResponse, KeepResponse, ResponseOver,
       FinishUpdate, ActivityStep, Uppercase, ResponseTimesOut, StartAttempt, Respond, runVars
<1>6. ASSUME Cancel \/ UNCHANGED vars
      PROVE  requestCount' = requestCount
  BY <1>6 DEF Cancel, vars
<1> QED
  BY <1>1, <1>2, <1>3, <1>4, <1>5, <1>6
  DEF Next, RunStep, UpdateStep, ContinueAsNew, ContinueAsNewWithUpdates

\* With the validator, no run of the updatable workflow takes more than Limit updates.
THEOREM RunBoundedHolds == Spec => []RunBounded
<1>1. Init => RunBounded
  BY LimitAssumption DEF Init, RunBounded
<1> QED BY <1>1, RunBoundedStep, InductiveInvariant, PTL DEF Spec

\* Only continue-as-new abandons requests while the workflow stays open, and it finds
\* nothing pending, or behind updates nothing at all.
THEOREM NothingLeftBehindHolds == Spec => NothingLeftBehind
<1> DEFINE Step == open' => \A r \in Requests :
                     stage[r] \in InRun /\ stage'[r] = "abandoned"
                       => delivery # "update" /\ stage[r] \in {"working", "responding"}
<1>1. IInv /\ [Next]_vars => [Step]_vars
  <2> SUFFICES ASSUME IInv, [Next]_vars, open', NEW q \in Requests,
                      stage[q] \in InRun, stage'[q] = "abandoned"
               PROVE  delivery # "update" /\ stage[q] \in {"working", "responding"}
    OBVIOUS
  <2> USE DEF IInv, TypeOK
  <2>0. stage[q] # "abandoned"
    BY DEF InRun
  <2>1. CASE ContinueAsNew
    BY <2>1 DEF ContinueAsNew, HasPending, SignalRun, InRun
  <2>2. CASE ContinueAsNewWithUpdates
    <3>1. /\ open /\ delivery = "update" /\ pendingUpdates = 0
          /\ stage \in [Requests -> Stages]
      BY <2>2 DEF ContinueAsNewWithUpdates, UpdateRun, NoUpdatePending
    <3>2. Cardinality(Busy(stage)) = 0
      BY <3>1 DEF Bookkeeping, Busy
    <3>3. Busy(stage) = {}
      BY <3>1, <3>2, BusyCounted
    <3> QED BY <3>3 DEF Busy
  <2>3. ASSUME Cancel
        PROVE  FALSE
    BY <2>3 DEF Cancel
  <2>4. ASSUME NEW r \in Requests,
               \/ Ask(r) \/ SendSignal(r) \/ SendFails(r) \/ GiveUp(r) \/ CallerStep(r)
               \/ AcceptUpdate(r) \/ RejectUpdate(r)
        PROVE  FALSE
    BY <2>0, <2>4
    DEF Ask, SendSignal, SendFails, GiveUp, CallerStep, ReceiveResponse, PollHit, PollMiss,
        PollTimeout, UpdateReturns, AcceptUpdate, RejectUpdate
  <2>5. ASSUME NEW r \in Requests,
               \/ ReceiveRequest(r) \/ SendResponse(r) \/ KeepResponse(r) \/ ResponseOver(r)
               \/ FinishUpdate(r) \/ ActivityStep(r) \/ StartAttempt(r) \/ Respond(r)
        PROVE  FALSE
    BY <2>0, <2>5
    DEF ReceiveRequest, SendResponse, KeepResponse, ResponseOver, FinishUpdate, ActivityStep,
        Uppercase, ResponseTimesOut, StartAttempt, Respond, Report
  <2>6. ASSUME UNCHANGED vars
        PROVE  FALSE
    BY <2>0, <2>6 DEF vars
  <2> QED
    BY <2>1, <2>2, <2>3, <2>4, <2>5, <2>6 DEF Next, RunStep, UpdateStep
<1> QED BY <1>1, InductiveInvariant, PTL DEF Spec, NothingLeftBehind
------------------------------------------------------------------------------
\* How a call looks to its caller: the refinement mapping.
Seen(r) ==
  CASE caller[r] = "idle" -> "idle"
    [] caller[r] \in {"asking", "waiting", "missed"} -> "open"
    [] caller[r] = "ok" -> "ok"
    [] OTHER -> "failed"

Calls == [r \in Requests |-> Seen(r)]

\* A call that returns had not, and gets the outcome of its request or fails.
LEMMA ReturnMaps ==
  ASSUME IInv, NEW r \in Requests, NEW how \in {"ok", "error", "empty", "gaveUp"},
         caller[r] \in {"asking", "waiting", "missed"},
         caller' = [caller EXCEPT ![r] = how],
         how = "ok" => outcome[r] = "ok",
         UNCHANGED outcome
  PROVE  R!Answer(r) \/ R!Fail(r)
<1> USE DEF IInv, TypeOK
<1>1. Calls[r] = "open" /\ UNCHANGED outcome
  BY DEF Calls, Seen
<1>2. CASE how = "ok"
  <2>1. Calls' = [Calls EXCEPT ![r] = "ok"]
    BY <1>2 DEF Calls, Seen
  <2> QED BY <1>1, <1>2, <2>1 DEF R!Answer, Calls, Seen
<1>3. CASE how # "ok"
  <2>1. Calls' = [Calls EXCEPT ![r] = "failed"]
    BY <1>3 DEF Calls, Seen
  <2> QED BY <1>1, <2>1 DEF R!Fail, Calls, Seen
<1> QED BY <1>2, <1>3

\* Every step is one of the calls, of the work on a request, or none of both.
LEMMA RpcStep == IInv /\ [Next]_vars => [R!Next]_(R!vars)
<1> SUFFICES ASSUME IInv, [Next]_vars
             PROVE  R!Next \/ (UNCHANGED <<Calls, outcome>>)
  BY DEF R!vars, Calls, Seen
<1> USE DEF IInv, TypeOK
<1>1. ASSUME NEW r \in Requests, Ask(r)
      PROVE  R!Next
  <2>1. Calls[r] = "idle" /\ Calls' = [Calls EXCEPT ![r] = "open"] /\ UNCHANGED outcome
    BY <1>1 DEF Ask, Calls, Seen, serverVars
  <2> QED BY <2>1 DEF R!Next, R!Ask, Calls, Seen
<1>2. ASSUME NEW r \in Requests, SendFails(r) \/ GiveUp(r)
      PROVE  R!Next
  <2>1. \E how \in {"error", "gaveUp"} : caller' = [caller EXCEPT ![r] = how]
    BY <1>2 DEF SendFails, GiveUp, Return
  <2>2. caller[r] \in {"asking", "waiting", "missed"} /\ UNCHANGED outcome
    BY <1>2 DEF SendFails, GiveUp, serverVars
  <2> QED BY <2>1, <2>2, ReturnMaps DEF R!Next
<1>3. ASSUME NEW r \in Requests, ReceiveResponse(r) \/ PollHit(r) \/ UpdateReturns(r)
      PROVE  R!Next
  <2>1. caller[r] \in {"asking", "waiting", "missed"} /\ UNCHANGED outcome
    BY <1>3 DEF ReceiveResponse, PollHit, UpdateReturns, serverVars
  <2>2. \/ caller' = [caller EXCEPT ![r] = "error"]
        \/ outcome[r] \in {"ok", "error"} /\ caller' = [caller EXCEPT ![r] = outcome[r]]
    BY <1>3 DEF ReceiveResponse, PollHit, UpdateReturns, Return, Computed
  <2> QED BY <2>1, <2>2, ReturnMaps DEF R!Next
<1>4. ASSUME NEW r \in Requests, PollTimeout(r)
      PROVE  R!Next
  <2>1. \E how \in {"error", "empty"} : caller' = [caller EXCEPT ![r] = how]
    BY <1>4 DEF PollTimeout, Return
  <2>2. caller[r] \in {"asking", "waiting", "missed"} /\ UNCHANGED outcome
    BY <1>4 DEF PollTimeout, serverVars
  <2> QED BY <2>1, <2>2, ReturnMaps DEF R!Next
<1>5. ASSUME NEW r \in Requests, SendSignal(r) \/ PollMiss(r) \/ AcceptUpdate(r) \/ RejectUpdate(r)
      PROVE  UNCHANGED <<Calls, outcome>>
  BY <1>5 DEF SendSignal, PollMiss, AcceptUpdate, RejectUpdate, Calls, Seen, serverVars
<1>6. ASSUME NEW r \in Requests, Uppercase(r)
      PROVE  R!Next
  <2>1. outcome[r] = "none" /\ Calls[r] # "idle" /\ UNCHANGED Calls
    BY <1>6 DEF Uppercase, Computed, Unsent, Calls, Seen, callerVars
  <2>2. \E result \in {"ok", "error"} : outcome' = [outcome EXCEPT ![r] = result]
    BY <1>6 DEF Uppercase
  <2> QED BY <2>1, <2>2 DEF R!Next, R!Compute, Calls, Seen
<1>7. ASSUME NEW r \in Requests,
             \/ ReceiveRequest(r) \/ SendResponse(r) \/ KeepResponse(r) \/ ResponseOver(r)
             \/ FinishUpdate(r) \/ ResponseTimesOut(r) \/ StartAttempt(r) \/ Respond(r)
      PROVE  UNCHANGED <<Calls, outcome>>
  <2>1. UNCHANGED <<caller, outcome>>
    BY <1>7 DEF ReceiveRequest, SendResponse, KeepResponse, ResponseOver, FinishUpdate,
         ResponseTimesOut, StartAttempt, Respond, callerVars, serverVars
  <2> QED BY <2>1 DEF Calls, Seen
<1>8. ASSUME ContinueAsNew \/ ContinueAsNewWithUpdates \/ Cancel \/ UNCHANGED vars
      PROVE  UNCHANGED <<Calls, outcome>>
  <2>1. UNCHANGED <<caller, outcome>>
    BY <1>8 DEF ContinueAsNew, ContinueAsNewWithUpdates, NextRun, Cancel, vars, callerVars, serverVars
  <2> QED BY <2>1 DEF Calls, Seen
<1> QED
  BY <1>1, <1>2, <1>3, <1>4, <1>5, <1>6, <1>7, <1>8
  DEF Next, CallerStep, RunStep, UpdateStep, ActivityStep

\* However the response comes back, the workflow and its requesters implement Rpc.
THEOREM Implementation == Spec => ImplementsRpc
<1>1. Init => R!Init
  BY DEF Init, R!Init
<1> QED BY <1>1, RpcStep, InductiveInvariant, PTL DEF Spec, ImplementsRpc, R!Spec
==============================================================================
