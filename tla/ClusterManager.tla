---------------------------- MODULE ClusterManager ----------------------------
(***************************************************************************)
(* ClusterManagerWorkflow of safe_message_handler/: an entity workflow     *)
(* that assigns nodes to jobs.  Its main coroutine waits for the start     *)
(* signal, then checks the health of the nodes on a timer until it is shut *)
(* down or continues as new; every update runs in a coroutine of its own.  *)
(* Coroutines share the state and switch only where they block, so an      *)
(* action is what a coroutine does from one blocking call to the next.     *)
(*                                                                         *)
(* External: signals and updates reach the open run; an unread signal dies *)
(* with its run; an activity ends with a result or an error.               *)
(***************************************************************************)
EXTENDS Naturals, FiniteSets

CONSTANTS Nodes,
          Jobs,
          Free, Bad,     \* the values "" and "BAD!" of state.Nodes
          FailingNodes,  \* the nodes FindBadNodesActivity finds bad
          Updates,       \* the updates clients send
          Sizes,         \* TotalNumNodes
          MaxRuns        \* bound: runs, of which all but the last continue as new

ASSUME NodesAssumption == IsFiniteSet(Nodes) /\ FailingNodes \subseteq Nodes
ASSUME SentinelAssumption == Free # Bad /\ Free \notin Jobs /\ Bad \notin Jobs
ASSUME UpdatesAssumption == "free" \notin Updates /\ "main" \notin Updates
ASSUME BoundsAssumption == Sizes \subseteq Nat /\ MaxRuns \in Nat \ {0}

VARIABLES
  clusterStarted, clusterShutdown, nodes, jobsAssigned,   \* ClusterManagerState
  lock,                   \* nodeLock: the update that holds it, "main" or "free"
  mainPc,                 \* where run() is
  startCh, shutdownCh,    \* whether a signal is buffered
  runs,                   \* runs so far
  input,                  \* the input of each update
  status,                 \* where the handler of each update is
  pick,                   \* nodesToAssign or nodesToUnassign, read before the activity
  result                  \* NodesAssigned, as the client of the update gets it

state == <<clusterStarted, clusterShutdown, nodes, jobsAssigned>>
mainVars == <<clusterStarted, clusterShutdown, mainPc, startCh, shutdownCh, runs>>
updateVars == <<input, status, pick, result>>
vars == <<clusterStarted, clusterShutdown, nodes, jobsAssigned, lock, mainPc,
          startCh, shutdownCh, runs, input, status, pick, result>>

AssignInput == [kind : {"assign"}, job : Jobs, size : Sizes]
DeleteInput == [kind : {"delete"}, job : Jobs]
MainPc == {"start", "select", "healthLock", "healthCheck", "drainContinue",
           "drainShutdown", "completed"}
Status == {"unsent", "awaitStart", "awaitLock", "activity", "done", "failed"}

TypeOK ==
  /\ clusterStarted \in BOOLEAN /\ clusterShutdown \in BOOLEAN
  /\ nodes \in [Nodes -> Jobs \cup {Free, Bad}]
  /\ jobsAssigned \subseteq Jobs
  /\ lock \in Updates \cup {"free", "main"}
  /\ mainPc \in MainPc
  /\ startCh \in BOOLEAN /\ shutdownCh \in BOOLEAN
  /\ runs \in 1 .. MaxRuns
  /\ input \in [Updates -> AssignInput \cup DeleteInput]
  /\ status \in [Updates -> Status]
  /\ pick \in [Updates -> SUBSET Nodes]
  /\ result \in [Updates -> SUBSET Nodes]
  /\ \A u \in Updates : lock = u <=> status[u] = "activity"
  /\ lock = "main" <=> mainPc = "healthCheck"
  /\ mainPc = "drainContinue" => runs < MaxRuns

Init ==
  /\ clusterStarted = FALSE /\ clusterShutdown = FALSE
  /\ nodes = [n \in Nodes |-> Free]
  /\ jobsAssigned = {}
  /\ lock = "free"
  /\ mainPc = "start"
  /\ startCh = FALSE /\ shutdownCh = FALSE
  /\ runs = 1
  /\ input \in [Updates -> AssignInput \cup DeleteInput]
  /\ status = [u \in Updates |-> "unsent"]
  /\ pick = [u \in Updates |-> {}]
  /\ result = [u \in Updates |-> {}]
------------------------------------------------------------------------------
(***************************************************************************)
(* The clients.                                                            *)
(***************************************************************************)
Open == mainPc # "completed"

SendStart ==
  /\ Open
  /\ startCh' = TRUE
  /\ UNCHANGED <<state, lock, mainPc, shutdownCh, runs, updateVars>>

SendShutdown ==
  /\ Open
  /\ shutdownCh' = TRUE
  /\ UNCHANGED <<state, lock, mainPc, startCh, runs, updateVars>>

SendUpdate(u) ==
  /\ Open
  /\ status[u] = "unsent"
  /\ status' = [status EXCEPT ![u] = "awaitStart"]
  /\ UNCHANGED <<nodes, jobsAssigned, lock, mainVars, input, pick, result>>
------------------------------------------------------------------------------
(***************************************************************************)
(* The update handlers AssignNodesToJobs and DeleteJob.                    *)
(***************************************************************************)
\* Mutant of LockIsFree: handlers and health checks do not lock.
LockIgnored == TRUE

LockIsFree == lock = "free"

UnassignedNodes == {n \in Nodes : nodes[n] = Free}
AssignedNodes(job) == {n \in Nodes : nodes[n] = job}
NodesNotBad == {n \in Nodes : nodes[n] # Bad}     \* getAssignedNodes(nil)

Finish(u, outcome) == status' = [status EXCEPT ![u] = outcome]

\* The cluster is shut down before the handler got past its first Await.
RejectUpdate(u) ==
  /\ status[u] = "awaitStart"
  /\ clusterStarted /\ clusterShutdown
  /\ Finish(u, "failed")
  /\ UNCHANGED <<nodes, jobsAssigned, lock, mainVars, input, pick, result>>

\* The handler blocks in nodeLock.Lock.
WaitForLock(u) ==
  /\ status[u] = "awaitStart"
  /\ clusterStarted /\ ~clusterShutdown
  /\ ~LockIsFree
  /\ status' = [status EXCEPT ![u] = "awaitLock"]
  /\ UNCHANGED <<nodes, jobsAssigned, lock, mainVars, input, pick, result>>

\* The handler gets the lock, at once or after it blocked in Lock.
GetsLock(u) ==
  /\ \/ status[u] = "awaitStart" /\ clusterStarted /\ ~clusterShutdown
     \/ status[u] = "awaitLock"
  /\ LockIsFree

\* The handler schedules its activity on the nodes in chosen and keeps the lock.
StartActivity(u, chosen) ==
  /\ pick' = [pick EXCEPT ![u] = chosen]
  /\ lock' = u
  /\ status' = [status EXCEPT ![u] = "activity"]
  /\ UNCHANGED <<nodes, jobsAssigned, mainVars, input, result>>

\* Idempotency guard: the job was assigned before.
AssignAgain(u) ==
  /\ GetsLock(u)
  /\ input[u].kind = "assign"
  /\ input[u].job \in jobsAssigned
  /\ result' = [result EXCEPT ![u] = AssignedNodes(input[u].job)]
  /\ Finish(u, "done")
  /\ UNCHANGED <<nodes, jobsAssigned, lock, mainVars, input, pick>>

NotEnoughNodes(u) ==
  /\ GetsLock(u)
  /\ input[u].kind = "assign"
  /\ input[u].job \notin jobsAssigned
  /\ Cardinality(UnassignedNodes) < input[u].size
  /\ Finish(u, "failed")
  /\ UNCHANGED <<nodes, jobsAssigned, lock, mainVars, input, pick, result>>

\* Mutant of AssignNodes: no idempotency guard.
AssignNodesUnguarded(u) ==
  /\ GetsLock(u)
  /\ input[u].kind = "assign"
  /\ \E chosen \in SUBSET UnassignedNodes :
       /\ Cardinality(chosen) = input[u].size
       /\ StartActivity(u, chosen)

\* Which of the unassigned nodes come first in the order of names is left open.
AssignNodes(u) ==
  /\ GetsLock(u)
  /\ input[u].kind = "assign"
  /\ input[u].job \notin jobsAssigned
  /\ \E chosen \in SUBSET UnassignedNodes :
       /\ Cardinality(chosen) = input[u].size
       /\ StartActivity(u, chosen)

DeleteJob(u) ==
  /\ GetsLock(u)
  /\ input[u].kind = "delete"
  /\ StartActivity(u, AssignedNodes(input[u].job))

\* Mutant of ActivityFails: the error path forgets to unlock.
ActivityFailsLocked(u) ==
  /\ status[u] = "activity"
  /\ Finish(u, "failed")
  /\ pick' = [pick EXCEPT ![u] = {}]
  /\ UNCHANGED <<nodes, jobsAssigned, lock, mainVars, input, result>>

\* The activity's error is returned; the deferred Unlock runs.
ActivityFails(u) ==
  /\ status[u] = "activity"
  /\ Finish(u, "failed")
  /\ pick' = [pick EXCEPT ![u] = {}]
  /\ lock' = "free"
  /\ UNCHANGED <<nodes, jobsAssigned, mainVars, input, result>>

AssignDone(u) ==
  /\ status[u] = "activity"
  /\ input[u].kind = "assign"
  /\ nodes' = [n \in Nodes |-> IF n \in pick[u] THEN input[u].job ELSE nodes[n]]
  /\ jobsAssigned' = jobsAssigned \cup {input[u].job}
  /\ result' = [result EXCEPT ![u] = {n \in Nodes : nodes'[n] = input[u].job}]
  /\ Finish(u, "done")
  /\ pick' = [pick EXCEPT ![u] = {}]
  /\ lock' = "free"
  /\ UNCHANGED <<mainVars, input>>

\* The nodes become free; the job stays in jobsAssigned.
DeleteDone(u) ==
  /\ status[u] = "activity"
  /\ input[u].kind = "delete"
  /\ nodes' = [n \in Nodes |-> IF n \in pick[u] THEN Free ELSE nodes[n]]
  /\ Finish(u, "done")
  /\ pick' = [pick EXCEPT ![u] = {}]
  /\ lock' = "free"
  /\ UNCHANGED <<jobsAssigned, mainVars, input, result>>
------------------------------------------------------------------------------
(***************************************************************************)
(* The main coroutine, run().                                              *)
(***************************************************************************)
AllHandlersFinished == \A u \in Updates : status[u] \in {"unsent", "done", "failed"}

ReceiveStart ==
  /\ mainPc = "start"
  /\ startCh
  /\ startCh' = FALSE
  /\ clusterStarted' = TRUE
  /\ mainPc' = "select"
  /\ UNCHANGED <<clusterShutdown, nodes, jobsAssigned, lock, shutdownCh, runs, updateVars>>

\* shutdownCh was added to the selector first: it goes before the timer.
ReceiveShutdown ==
  /\ mainPc = "select"
  /\ shutdownCh
  /\ shutdownCh' = FALSE
  /\ clusterShutdown' = TRUE
  /\ mainPc' = "drainShutdown"
  /\ UNCHANGED <<clusterStarted, nodes, jobsAssigned, lock, startCh, runs, updateVars>>

\* The timer fires and performHealthCheck, called by the selector, asks for the
\* lock; it reads nothing that outlives the activity but the lock.
TimerFires ==
  /\ mainPc = "select"
  /\ ~shutdownCh
  /\ \/ LockIsFree /\ lock' = "main" /\ mainPc' = "healthCheck"
     \/ ~LockIsFree /\ mainPc' = "healthLock" /\ UNCHANGED lock
  /\ UNCHANGED <<state, startCh, shutdownCh, runs, updateVars>>

HealthCheckLock ==
  /\ mainPc = "healthLock"
  /\ LockIsFree
  /\ lock' = "main"
  /\ mainPc' = "healthCheck"
  /\ UNCHANGED <<state, startCh, shutdownCh, runs, updateVars>>

\* performHealthCheck passes the map of nodes where FindBadNodesActivity takes
\* a FindBadNodesInput: no key of it is the field NodesToCheck, which stays nil.
NodesToCheck(argument) == {}

FindBadNodes(argument) == NodesToCheck(argument) \cap FailingNodes

\* The lock is released; run() decides whether it continues as new.
LeaveHealthCheck ==
  /\ mainPc = "healthCheck"
  /\ lock' = "free"
  /\ \/ mainPc' = "select"
     \/ runs < MaxRuns /\ mainPc' = "drainContinue"
  /\ UNCHANGED <<clusterStarted, clusterShutdown, jobsAssigned, startCh, shutdownCh,
                 runs, updateVars>>

HealthCheckDone ==
  /\ LeaveHealthCheck
  /\ nodes' = [n \in Nodes |-> IF n \in FindBadNodes(NodesNotBad) THEN Bad ELSE nodes[n]]

\* The activity's error is logged.
HealthCheckFails ==
  /\ LeaveHealthCheck
  /\ UNCHANGED nodes

\* The next run gets the state, makes all its nodes unassigned again, and waits
\* for a start signal.  Signals the run did not read are gone.
ContinueAsNew ==
  /\ mainPc = "drainContinue"
  /\ AllHandlersFinished
  /\ runs' = runs + 1
  /\ nodes' = [n \in Nodes |-> Free]
  /\ lock' = "free"
  /\ startCh' = FALSE /\ shutdownCh' = FALSE
  /\ mainPc' = "start"
  /\ UNCHANGED <<clusterStarted, clusterShutdown, jobsAssigned, updateVars>>

\* Mutant of Complete: run() returns without waiting for the handlers.
CompleteAtOnce ==
  /\ mainPc = "drainShutdown"
  /\ mainPc' = "completed"
  /\ UNCHANGED <<state, lock, startCh, shutdownCh, runs, updateVars>>

Complete ==
  /\ mainPc = "drainShutdown"
  /\ AllHandlersFinished
  /\ mainPc' = "completed"
  /\ UNCHANGED <<state, lock, startCh, shutdownCh, runs, updateVars>>
------------------------------------------------------------------------------
\* A handler is a coroutine of the run and ends with it.
HandlerStep(u) ==
  /\ Open
  /\ \/ RejectUpdate(u)
     \/ WaitForLock(u)
     \/ AssignAgain(u)
     \/ NotEnoughNodes(u)
     \/ AssignNodes(u)
     \/ DeleteJob(u)
     \/ ActivityFails(u)
     \/ AssignDone(u)
     \/ DeleteDone(u)

MainStep ==
  \/ ReceiveStart
  \/ ReceiveShutdown
  \/ TimerFires
  \/ HealthCheckLock
  \/ HealthCheckDone
  \/ HealthCheckFails
  \/ ContinueAsNew
  \/ Complete

Next ==
  \/ SendStart
  \/ SendShutdown
  \/ MainStep
  \/ \E u \in Updates : SendUpdate(u) \/ HandlerStep(u)

Spec == Init /\ [][Next]_vars

\* A worker is up: activities end (they have a timeout), the timer fires, and a
\* coroutine that can run does.  The dispatcher runs every coroutine that waits
\* for the lock before it takes the next event, so a waiter that finds the lock
\* free again and again gets it: strong fairness.  Clients owe nothing.
Fairness ==
  /\ SF_vars(MainStep)
  /\ \A u \in Updates : SF_vars(HandlerStep(u))

FairSpec == Spec /\ Fairness
------------------------------------------------------------------------------
(***************************************************************************)
(* Properties.                                                             *)
(***************************************************************************)

\* What a handler read before its activity is still so while the activity runs:
\* the nodes it will assign are free and its job is new, the nodes it will
\* unassign are those of its job.  Without nodeLock, other coroutines that run
\* meanwhile change them (the comment in AssignNodesToJobs).
PickStable ==
  \A u \in Updates : status[u] = "activity" =>
    IF input[u].kind = "assign"
    THEN /\ pick[u] \subseteq UnassignedNodes
         /\ Cardinality(pick[u]) = input[u].size
         /\ input[u].job \notin jobsAssigned
    ELSE pick[u] = AssignedNodes(input[u].job)

\* Every job that holds a node passed the idempotency guard's check.
HoldersAssigned == \A n \in Nodes : nodes[n] \in Jobs => nodes[n] \in jobsAssigned

\* What every step preserves.
IInv == TypeOK /\ PickStable /\ HoldersAssigned

\* A node leaves a job only with a confirmed DeleteJob of that very job, by a
\* health check, or because a new run forgot its nodes: no update that was in
\* flight at the same time takes it away.
NoNodeStolen ==
  [][\A n \in Nodes : nodes[n] \in Jobs /\ nodes'[n] # nodes[n] =>
       \/ runs' # runs
       \/ nodes'[n] = Bad
       \/ \E u \in Updates : /\ input[u] = [kind |-> "delete", job |-> nodes[n]]
                             /\ status[u] = "activity" /\ status'[u] = "done"
    ]_vars

\* An update that allocates nodes to a job gets as many as it asked for: not more
\* when another update for the job ran before or meanwhile.
AllocationExact ==
  [][\A u \in Updates :
       input[u].kind = "assign" /\ status[u] = "activity" /\ status'[u] = "done"
         => Cardinality(result'[u]) = input[u].size]_vars

\* Once the cluster is started, every update gets an answer: none waits forever
\* for the lock, and a shutdown does not strand the waiting ones.
UpdateAnswered ==
  \A u \in Updates :
    status[u] # "unsent" /\ clusterStarted ~> status[u] \in {"done", "failed"}

\* A run that has received the shutdown signal completes: the updates it waits
\* for all end, whoever of them holds the lock or waits for it.
ShutdownCompletes == clusterShutdown ~> mainPc = "completed"
------------------------------------------------------------------------------
(***************************************************************************)
(* What the documentation says and the code does not do.                   *)
(***************************************************************************)

\* README: "it passes its state to the next workflow".
StatePassedOn == [][runs' # runs => nodes' = nodes /\ jobsAssigned' = jobsAssigned]_vars

\* README: "signal and update handlers will only operate when the workflow is
\* within a certain state--between cluster_started and cluster_shutdown".
OperatesUntilShutdown ==
  [][\A u \in Updates :
       status[u] # "activity" /\ status'[u] = "activity" => ~clusterShutdown]_vars

\* "performHealthChecks, which ... modify cm.state.nodes": the nodes the activity
\* finds bad are "BAD!" after a health check.
BadNodesFound == [][HealthCheckDone => \A n \in FailingNodes : nodes'[n] = Bad]_vars
==============================================================================
