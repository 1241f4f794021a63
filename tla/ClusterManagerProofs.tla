------------------------- MODULE ClusterManagerProofs -------------------------
(***************************************************************************)
(* Theorems of ClusterManager, for every set of nodes, jobs and updates:   *)
(* its type invariant, that what a handler read before its activity stays  *)
(* true, that no update takes another one's nodes, and that a job gets as  *)
(* many nodes as the update asked for.                                     *)
(***************************************************************************)
EXTENDS ClusterManager, TLAPS

\* The initial states are typed, and nothing is assigned.
LEMMA IInvInit == Init => IInv
<1> SUFFICES ASSUME Init PROVE IInv
  OBVIOUS
<1> USE DEF Init
<1>1. TypeOK
  <2>1. 1 \in 1 .. MaxRuns
    BY BoundsAssumption
  <2>2. \A u \in Updates : lock = u <=> status[u] = "activity"
    BY UpdatesAssumption
  <2>3. /\ status \in [Updates -> Status]
        /\ pick \in [Updates -> SUBSET Nodes] /\ result \in [Updates -> SUBSET Nodes]
        /\ nodes \in [Nodes -> Jobs \cup {Free, Bad}]
    BY DEF Status
  <2> QED
    BY <2>1, <2>2, <2>3 DEF TypeOK, MainPc
<1>2. PickStable /\ HoldersAssigned
  BY SentinelAssumption DEF PickStable, HoldersAssigned
<1> QED
  BY <1>1, <1>2 DEF IInv

\* Every step keeps the types, and the lock with the coroutine in its activity.
LEMMA TypeStep == TypeOK /\ [Next]_vars => TypeOK'
<1> SUFFICES ASSUME TypeOK, [Next]_vars
             PROVE  TypeOK'
  OBVIOUS
<1> USE SentinelAssumption, UpdatesAssumption, BoundsAssumption
<1> USE DEF TypeOK, MainPc, Status
<1>1. CASE SendStart \/ SendShutdown
  BY <1>1 DEF SendStart, SendShutdown, state, updateVars
<1>2. ASSUME NEW u \in Updates, SendUpdate(u) \/ RejectUpdate(u) \/ WaitForLock(u)
      PROVE  TypeOK'
  BY <1>2 DEF SendUpdate, RejectUpdate, WaitForLock, Finish, mainVars
<1>3. ASSUME NEW u \in Updates, AssignAgain(u) PROVE TypeOK'
  <2>1. AssignedNodes(input[u].job) \in SUBSET Nodes
    BY DEF AssignedNodes
  <2> QED
    BY <1>3, <2>1 DEF AssignAgain, GetsLock, Finish, mainVars
<1>4. ASSUME NEW u \in Updates, NotEnoughNodes(u) PROVE TypeOK'
  BY <1>4 DEF NotEnoughNodes, GetsLock, Finish, mainVars
<1>5. ASSUME NEW u \in Updates, NEW chosen \in SUBSET Nodes,
             GetsLock(u), StartActivity(u, chosen)
      PROVE  TypeOK'
  <2>1. lock = "free" /\ lock' = u /\ mainPc # "healthCheck"
    BY <1>5 DEF GetsLock, LockIsFree, StartActivity
  <2>2. /\ pick' \in [Updates -> SUBSET Nodes]
        /\ status' \in [Updates -> Status]
        /\ \A v \in Updates : status'[v] = "activity" <=> v = u
    BY <1>5, <2>1 DEF StartActivity
  <2> QED
    BY <1>5, <2>1, <2>2 DEF StartActivity, mainVars
<1>6. ASSUME NEW u \in Updates, AssignNodes(u) PROVE TypeOK'
  BY <1>5, <1>6 DEF AssignNodes, UnassignedNodes
<1>7. ASSUME NEW u \in Updates, DeleteJob(u) PROVE TypeOK'
  <2>1. AssignedNodes(input[u].job) \in SUBSET Nodes
    BY DEF AssignedNodes
  <2> QED
    BY <1>5, <1>7, <2>1 DEF DeleteJob
<1>8. ASSUME NEW u \in Updates, ActivityFails(u) \/ AssignDone(u) \/ DeleteDone(u)
      PROVE  TypeOK'
  <2>1. /\ status[u] = "activity" /\ lock = u /\ lock' = "free"
        /\ \E outcome \in {"done", "failed"} : Finish(u, outcome)
        /\ pick' = [pick EXCEPT ![u] = {}]
        /\ UNCHANGED <<mainVars, input>>
    BY <1>8 DEF ActivityFails, AssignDone, DeleteDone
  <2>2. /\ status' \in [Updates -> Status]
        /\ \A v \in Updates : status'[v] # "activity"
        /\ pick' \in [Updates -> SUBSET Nodes]
    BY <2>1 DEF Finish
  <2>3. CASE ActivityFails(u)
    BY <2>1, <2>2, <2>3 DEF ActivityFails, mainVars
  <2>4. CASE AssignDone(u)
    <3>1. input[u].job \in Jobs
      BY DEF AssignInput, DeleteInput
    <3>2. /\ nodes' \in [Nodes -> Jobs \cup {Free, Bad}]
          /\ jobsAssigned' \subseteq Jobs
          /\ result' \in [Updates -> SUBSET Nodes]
      BY <2>4, <3>1 DEF AssignDone
    <3> QED
      BY <2>1, <2>2, <3>2 DEF mainVars
  <2>5. CASE DeleteDone(u)
    <3>1. /\ nodes' \in [Nodes -> Jobs \cup {Free, Bad}]
          /\ UNCHANGED <<jobsAssigned, result>>
      BY <2>5 DEF DeleteDone
    <3> QED
      BY <2>1, <2>2, <3>1 DEF mainVars
  <2> QED
    BY <1>8, <2>3, <2>4, <2>5
<1>9. CASE ReceiveStart \/ ReceiveShutdown \/ Complete
  BY <1>9 DEF ReceiveStart, ReceiveShutdown, Complete, state, updateVars
<1>10. CASE TimerFires \/ HealthCheckLock
  BY <1>10 DEF TimerFires, HealthCheckLock, LockIsFree, state, updateVars
<1>11. CASE HealthCheckDone \/ HealthCheckFails
  <2>1. nodes' \in [Nodes -> Jobs \cup {Free, Bad}]
    BY <1>11 DEF HealthCheckDone, HealthCheckFails
  <2>2. LeaveHealthCheck
    BY <1>11 DEF HealthCheckDone, HealthCheckFails
  <2> QED
    BY <2>1, <2>2 DEF LeaveHealthCheck, updateVars
<1>12. CASE ContinueAsNew
  <2>1. runs' \in 1 .. MaxRuns
    BY <1>12 DEF ContinueAsNew
  <2> QED
    BY <1>12, <2>1 DEF ContinueAsNew, AllHandlersFinished, updateVars
<1>13. CASE UNCHANGED vars
  BY <1>13 DEF vars
<1> QED
  BY <1>1, <1>2, <1>3, <1>4, <1>6, <1>7, <1>8, <1>9, <1>10, <1>11, <1>12, <1>13
  DEF Next, MainStep, HandlerStep

\* The type invariant of the cluster manager.
THEOREM TypeCorrect == Spec => []TypeOK
<1>1. Init => TypeOK
  BY IInvInit DEF IInv
<1> QED
  BY <1>1, TypeStep, PTL DEF Spec
------------------------------------------------------------------------------
\* Nodes and jobs change only under the lock, so that what the handler in its
\* activity has read stays true until it finishes itself.
LEMMA PickStableStep == IInv /\ [Next]_vars => PickStable'
<1> SUFFICES ASSUME IInv, [Next]_vars PROVE PickStable'
  OBVIOUS
<1> USE DEF IInv
<1>0. TypeOK'
  BY TypeStep
<1>1. ASSUME UNCHANGED <<nodes, jobsAssigned, pick, input>>,
             \A v \in Updates : status'[v] = "activity" => status[v] = "activity"
      PROVE  PickStable'
  BY <1>1 DEF PickStable, UnassignedNodes, AssignedNodes
<1>2. ASSUME \A v \in Updates : status'[v] # "activity"
      PROVE  PickStable'
  BY <1>2 DEF PickStable
<1>3. CASE SendStart \/ SendShutdown
  BY <1>1, <1>3 DEF SendStart, SendShutdown, state, updateVars
<1>4. ASSUME NEW u \in Updates,
             \/ SendUpdate(u) \/ RejectUpdate(u) \/ WaitForLock(u)
             \/ AssignAgain(u) \/ NotEnoughNodes(u)
      PROVE  PickStable'
  <2>1. /\ UNCHANGED <<nodes, jobsAssigned, pick, input>>
        /\ \E s \in Status \ {"activity"} : status' = [status EXCEPT ![u] = s]
    BY <1>4
    DEF SendUpdate, RejectUpdate, WaitForLock, AssignAgain, NotEnoughNodes, Finish, Status
  <2>2. \A v \in Updates : status'[v] = "activity" => status[v] = "activity"
    BY <2>1 DEF TypeOK
  <2> QED
    BY <1>1, <2>1, <2>2
<1>5. ASSUME NEW u \in Updates, AssignNodes(u) PROVE PickStable'
  <2>1. PICK chosen \in SUBSET UnassignedNodes :
          Cardinality(chosen) = input[u].size /\ StartActivity(u, chosen)
    BY <1>5 DEF AssignNodes
  <2>2. /\ input[u].kind = "assign" /\ input[u].job \notin jobsAssigned
        /\ UNCHANGED <<nodes, jobsAssigned, input>>
        /\ pick'[u] = chosen /\ lock' = u
    BY <1>5, <2>1 DEF AssignNodes, StartActivity, TypeOK
  <2>3. \A v \in Updates : status'[v] = "activity" => v = u
    BY <1>0, <2>2 DEF TypeOK
  <2> QED
    BY <2>1, <2>2, <2>3 DEF PickStable, UnassignedNodes
<1>6. ASSUME NEW u \in Updates, DeleteJob(u) PROVE PickStable'
  <2>1. /\ input[u].kind = "delete"
        /\ UNCHANGED <<nodes, jobsAssigned, input>>
        /\ pick'[u] = AssignedNodes(input[u].job) /\ lock' = u
    BY <1>6 DEF DeleteJob, StartActivity, TypeOK
  <2>2. \A v \in Updates : status'[v] = "activity" => v = u
    BY <1>0, <2>1 DEF TypeOK
  <2> QED
    BY <2>1, <2>2 DEF PickStable, AssignedNodes
<1>7. ASSUME NEW u \in Updates, ActivityFails(u) \/ AssignDone(u) \/ DeleteDone(u)
      PROVE  PickStable'
  <2>1. lock' = "free"
    BY <1>7 DEF ActivityFails, AssignDone, DeleteDone
  <2> QED
    BY <1>0, <1>2, <2>1, UpdatesAssumption DEF TypeOK
<1>8. CASE ReceiveStart \/ ReceiveShutdown \/ TimerFires \/ HealthCheckLock \/ Complete
  BY <1>1, <1>8
  DEF ReceiveStart, ReceiveShutdown, TimerFires, HealthCheckLock, Complete, state, updateVars
<1>9. CASE HealthCheckDone \/ HealthCheckFails \/ ContinueAsNew
  <2>1. lock' = "free"
    BY <1>9 DEF HealthCheckDone, HealthCheckFails, LeaveHealthCheck, ContinueAsNew
  <2> QED
    BY <1>0, <1>2, <2>1, UpdatesAssumption DEF TypeOK
<1>10. CASE UNCHANGED vars
  BY <1>1, <1>10 DEF vars
<1> QED
  BY <1>3, <1>4, <1>5, <1>6, <1>7, <1>8, <1>9, <1>10 DEF Next, MainStep, HandlerStep

\* A node gets a job only together with the job's entry in jobsAssigned.
LEMMA HoldersAssignedStep == IInv /\ [Next]_vars => HoldersAssigned'
<1> SUFFICES ASSUME IInv, [Next]_vars PROVE HoldersAssigned'
  OBVIOUS
<1> USE DEF IInv
<1>1. ASSUME UNCHANGED <<nodes, jobsAssigned>> PROVE HoldersAssigned'
  BY <1>1 DEF HoldersAssigned
<1>2. ASSUME NEW u \in Updates, AssignDone(u) PROVE HoldersAssigned'
  BY <1>2 DEF AssignDone, HoldersAssigned
<1>3. ASSUME NEW u \in Updates, DeleteDone(u) PROVE HoldersAssigned'
  BY <1>3, SentinelAssumption DEF DeleteDone, HoldersAssigned
<1>4. CASE HealthCheckDone
  BY <1>4, SentinelAssumption DEF HealthCheckDone, LeaveHealthCheck, HoldersAssigned
<1>5. CASE ContinueAsNew
  BY <1>5, SentinelAssumption DEF ContinueAsNew, HoldersAssigned
<1>6. ASSUME NEW u \in Updates,
             \/ SendUpdate(u) \/ RejectUpdate(u) \/ WaitForLock(u) \/ AssignAgain(u)
             \/ NotEnoughNodes(u) \/ AssignNodes(u) \/ DeleteJob(u) \/ ActivityFails(u)
      PROVE  HoldersAssigned'
  BY <1>1, <1>6
  DEF SendUpdate, RejectUpdate, WaitForLock, AssignAgain, NotEnoughNodes, AssignNodes,
      DeleteJob, ActivityFails, StartActivity
<1>7. CASE \/ SendStart \/ SendShutdown \/ ReceiveStart \/ ReceiveShutdown \/ TimerFires
           \/ HealthCheckLock \/ HealthCheckFails \/ Complete
  BY <1>1, <1>7
  DEF SendStart, SendShutdown, ReceiveStart, ReceiveShutdown, TimerFires, HealthCheckLock,
      HealthCheckFails, LeaveHealthCheck, Complete, state
<1>8. CASE UNCHANGED vars
  BY <1>1, <1>8 DEF vars
<1> QED
  BY <1>2, <1>3, <1>4, <1>5, <1>6, <1>7, <1>8 DEF Next, MainStep, HandlerStep

\* The inductive invariant holds in every reachable state.
THEOREM InductiveInvariant == Spec => []IInv
<1>1. IInv /\ [Next]_vars => IInv'
  BY TypeStep, PickStableStep, HoldersAssignedStep DEF IInv
<1> QED
  BY IInvInit, <1>1, PTL DEF Spec

\* What a handler read before its activity is still so while the activity runs.
THEOREM PickStableHolds == Spec => []PickStable
<1>1. IInv => PickStable
  BY DEF IInv
<1> QED
  BY <1>1, InductiveInvariant, PTL
------------------------------------------------------------------------------
\* The steps that change the nodes, and how.
LEMMA NodesChange ==
  ASSUME IInv, [Next]_vars, UNCHANGED runs, nodes' # nodes
  PROVE  \/ \E u \in Updates : AssignDone(u) \/ DeleteDone(u)
         \/ HealthCheckDone
<1>1. ASSUME NEW u \in Updates, SendUpdate(u) \/ HandlerStep(u)
      PROVE  AssignDone(u) \/ DeleteDone(u)
  BY <1>1
  DEF SendUpdate, HandlerStep, RejectUpdate, WaitForLock, AssignAgain, NotEnoughNodes,
      AssignNodes, DeleteJob, ActivityFails, StartActivity
<1>2. ASSUME MainStep PROVE HealthCheckDone
  <2>1. CASE ContinueAsNew
    BY <2>1 DEF ContinueAsNew, IInv, TypeOK
  <2> QED
    BY <1>2, <2>1
    DEF MainStep, ReceiveStart, ReceiveShutdown, TimerFires, HealthCheckLock,
        HealthCheckFails, Complete, state
<1> QED
  BY <1>1, <1>2 DEF Next, SendStart, SendShutdown, vars, state

\* A node leaves a job only with a confirmed DeleteJob of that job, by a health
\* check, or because a new run forgot its nodes.
THEOREM NoNodeStolenHolds == Spec => NoNodeStolen
<1> DEFINE Kept ==
      \A n \in Nodes : nodes[n] \in Jobs /\ nodes'[n] # nodes[n] =>
        \/ runs' # runs
        \/ nodes'[n] = Bad
        \/ \E u \in Updates : /\ input[u] = [kind |-> "delete", job |-> nodes[n]]
                              /\ status[u] = "activity" /\ status'[u] = "done"
<1>1. IInv /\ [Next]_vars => [Kept]_vars
  <2> SUFFICES ASSUME IInv, [Next]_vars, UNCHANGED runs,
                      NEW n \in Nodes, nodes[n] \in Jobs, nodes'[n] # nodes[n]
               PROVE  \/ nodes'[n] = Bad
                      \/ \E u \in Updates :
                           /\ input[u] = [kind |-> "delete", job |-> nodes[n]]
                           /\ status[u] = "activity" /\ status'[u] = "done"
    OBVIOUS
  <2> USE DEF IInv
  <2>1. CASE HealthCheckDone
    BY <2>1 DEF HealthCheckDone
  <2>2. ASSUME NEW u \in Updates, AssignDone(u) PROVE FALSE
    <3>1. n \in pick[u]
      BY <2>2 DEF AssignDone
    <3>2. nodes[n] = Free
      BY <2>2, <3>1 DEF AssignDone, PickStable, UnassignedNodes
    <3> QED
      BY <3>2, SentinelAssumption
  <2>3. ASSUME NEW u \in Updates, DeleteDone(u)
        PROVE  /\ input[u] = [kind |-> "delete", job |-> nodes[n]]
               /\ status[u] = "activity" /\ status'[u] = "done"
    <3>1. n \in pick[u] /\ status[u] = "activity" /\ input[u].kind = "delete"
      BY <2>3 DEF DeleteDone
    <3>2. nodes[n] = input[u].job
      BY <3>1 DEF PickStable, AssignedNodes
    <3>3. input[u] \in DeleteInput
      BY <3>1 DEF TypeOK, AssignInput
    <3>4. input[u] = [kind |-> "delete", job |-> nodes[n]]
      BY <3>2, <3>3 DEF DeleteInput
    <3>5. status'[u] = "done"
      BY <2>3 DEF DeleteDone, Finish, TypeOK
    <3> QED
      BY <3>1, <3>4, <3>5
  <2> QED
    BY <2>1, <2>2, <2>3, NodesChange
<1> QED
  BY <1>1, InductiveInvariant, PTL DEF Spec, NoNodeStolen

\* An update that allocates nodes to a job gets as many as it asked for.
THEOREM AllocationExactHolds == Spec => AllocationExact
<1> DEFINE Exact ==
      \A u \in Updates :
        input[u].kind = "assign" /\ status[u] = "activity" /\ status'[u] = "done"
          => Cardinality(result'[u]) = input[u].size
<1>1. IInv /\ [Next]_vars => [Exact]_vars
  <2> SUFFICES ASSUME IInv, [Next]_vars, NEW u \in Updates, input[u].kind = "assign",
                      status[u] = "activity", status'[u] = "done"
               PROVE  Cardinality(result'[u]) = input[u].size
    OBVIOUS
  <2> USE DEF IInv
  <2>1. AssignDone(u)
    <3>1. ASSUME NEW v \in Updates, SendUpdate(v) \/ HandlerStep(v) PROVE v = u
      BY <3>1
      DEF SendUpdate, HandlerStep, RejectUpdate, WaitForLock, AssignAgain, NotEnoughNodes,
          AssignNodes, DeleteJob, ActivityFails, AssignDone, DeleteDone, StartActivity,
          Finish, TypeOK
    <3>2. ~SendUpdate(u) /\ (HandlerStep(u) => AssignDone(u))
      BY DEF SendUpdate, HandlerStep, RejectUpdate, WaitForLock, AssignAgain, NotEnoughNodes,
             AssignNodes, DeleteJob, ActivityFails, DeleteDone, StartActivity, GetsLock,
             Finish, TypeOK
    <3>3. ~MainStep /\ ~SendStart /\ ~SendShutdown /\ ~UNCHANGED vars
      BY DEF MainStep, ReceiveStart, ReceiveShutdown, TimerFires, HealthCheckLock,
             HealthCheckDone, HealthCheckFails, LeaveHealthCheck, ContinueAsNew, Complete,
             SendStart, SendShutdown, updateVars, vars
    <3> QED
      BY <3>1, <3>2, <3>3 DEF Next
  <2>2. result'[u] = {n \in Nodes : nodes'[n] = input[u].job}
    BY <2>1 DEF AssignDone, TypeOK
  <2>3. \A n \in Nodes : nodes[n] # input[u].job
    <3>1. input[u].job \in Jobs /\ input[u].job \notin jobsAssigned
      BY DEF PickStable, TypeOK, AssignInput, DeleteInput
    <3> QED
      BY <3>1 DEF HoldersAssigned
  <2>4. result'[u] = pick[u]
    BY <2>1, <2>2, <2>3 DEF AssignDone, TypeOK
  <2> QED
    BY <2>4 DEF PickStable
<1> QED
  BY <1>1, InductiveInvariant, PTL DEF Spec, AllocationExact
==============================================================================
