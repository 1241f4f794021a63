# A TLA+ model of the Temporal Go samples

The repository holds about seventy programs for the Temporal Go SDK. Most of
them are a few straight-line activities; some are small distributed protocols
between workflows, activities, clients and a server that times out, retries,
delivers twice and starts new runs. Those are what is modelled here: their
control (every state change, guard, early return and error path), with their data
reduced to what the properties tell apart.

    tlc -workers 2 -config MutexLock.cfg MutexLock.tla     # a model-checking run
    tlapm MutexLockProofs.tla                              # the proofs of a module

## The platform, as every module sees it

What the code relies on and does not contain is modelled from its use:

* The coroutines of one workflow run never interleave inside a step: a step goes
  from one blocking call (`Receive`, `Await`, `Get`, `Select`) to the next. Between
  steps anything may happen: signals, updates, results, time-outs.
* A signal that the server accepted is in the channel of the open run, in order.
  What a run has not received when it completes or continues as new is gone.
* An activity may be executed and its result lost; it is then tried again, as
  often as its policy allows, and an attempt that timed out may still be at work.
* A workflow may be terminated from outside. The models have it where the code looks at another execution: at any
  step of a sender of `MutexLock`, of a child of `SlidingWindow`, of a trip of `Recovery` (by the recovery itself). That the
  run of a lock, a cluster manager or a window is itself terminated is not modelled.

## Components

| component | state | operations | what is hard |
|---|---|---|---|
| `mutex` | queue of requests, holder, release channel; the sender's wait | request (signal-with-start), acquire, release, time-out, close | lost acknowledgements, late releases, requests that race the end of a run |
| `safe_message_handler` | nodes, jobs, started/shutdown, lock | assign, delete, health check, shutdown, continue-as-new | handlers interleaved at the lock, drains, state across runs |
| `batch-sliding-window` | offset, children in progress, progress | load page, start child, completion signal, continue-as-new | late and duplicate signals, children across runs |
| `recovery` | trip counters and histories, list of executions, heartbeat progress | list, read history, terminate, restart, re-inject, resume | signals in between, attempts that outlive their time-out |
| `reqrespactivity`, `reqrespquery`, `reqrespupdate` | requests in flight, responses | request, respond, poll, continue-as-new | in-flight requests across runs, duplicates |
| `expense` | expense states, task tokens | create, decide, register, pay | unsynchronised handlers, decision before registration |
| `shoppingcart`, `await-signals`, `updatabletimer`, `synchronous-proxy`, `early-return` | one workflow and its messages | signals, updates, timers | order of messages and time-outs |
| `nexus-messaging`, `workflowstreams`, `googleadk` | entity workflows | messages through handlers, logs, approvals | interleaved handlers, long polls, continue-as-new |
| `session-failure`, `fileprocessing`, `worker-specific-task-queues` | a host and what is on it | sessions, tied task queues | the host fails in between |
| `retryactivity`, `polling`, `pso`, `cron`, `sleep-for-days`, `update`, `child-workflow-continue-as-new` | progress handed from an attempt, or a run, to the next | retry, continue as new | what is lost or done twice between the two |
| `saga`, `dsl`, `pickfirst`, `timer`, `goroutine`, `cancellation`, `nexus-cancelation`, `splitmerge-*`, `choice-*`, `branch`, and those of one or a few activities | a handful of activities, children or operations | start, collect, cancel, compensate | partial failure, first result wins |
| `worker-versioning`, `schedule`, `searchattributes`, `multi-history-replay` | what the server keeps: versions, schedules, listings | move the current version, replay, list page by page | the server's state changes under the program |
| `workflow-security-interceptor`, `ctxpropagation`, `encryption`, `snappycompress`, `codec-server`, `grpc-proxy`, `nexus-context-propagation`, `serverjwtauth` | what goes along with a call: permissions, headers, payloads, tokens | validate, inject, extract, encode, renew | each hop has to do its part; overlapping calls |

Every directory of the repository is a component in `PROJECT.json`, with its status
and what of it is left out; see also "Not modelled" below.

## Modules

| module | models |
|---|---|
| `LeaseLock` | what a lock with a time-out promises: one lease at a time |
| `MutexLock` | `mutex/mutex_workflow.go`: the sender's `Lock`, critical section and unlock; `MutexWorkflow`, run after run |
| `MutexLockProofs` | type correctness, exclusion, no lost request, refinement of `LeaseLock` and the exclusion of the latter |
| `ClusterManager` | `safe_message_handler/workflow.go`, `activities.go` and the client's messages |
| `ClusterManagerProofs` | type correctness, stability of picked nodes, no stolen node, exact allocation |
| `BatchWindow` | what the whole chain of sliding-window runs promises |
| `SlidingWindow` | `batch-sliding-window`: `SlidingWindowWorkflow`, its completion pump and drain, `RecordProcessorWorkflow`, the record loader |
| `SlidingWindowProofs` | the window's invariants and the refinement of `BatchWindow` |
| `Recovery`, `MCRecovery` | `recovery/recovery_workflow.go` (workflow, list, attempts of `RecoverExecutions`), `trip_workflow.go`, the clients that send trip events |
| `RecoveryProofs` | its theorems, and those about the batches |
| `Rpc` | what `RequestUppercase` promises a caller |
| `ReqResp` | `reqrespactivity`, `reqrespquery`, `reqrespupdate`: requesters, workflow runs, activities |
| `ReqRespProofs` | bookkeeping, the bound of a rejecting run, what continue-as-new leaves behind, refinement of `Rpc` |
| `Expense` | `expense/ui/main.go` (the expense server), `workflow.go`, `activities.go` |
| `ExpenseProofs` | nothing is paid without an approval |
| `Partitions` | `batch-sliding-window`: `ProcessBatchWorkflow`, which divides the batch among windows |
| `PinCache` | `recovery/cache/lru.go` |
| `Listings` | the three programs that list page by page: `recovery`, `searchattributes`, `multi-history-replay` |
| `GreetingService` | `nexus-messaging`, both patterns |
| `OrderProxy` | `synchronous-proxy` |
| `AgentChat`, `AgentApproval` | `googleadk/chat`, `googleadk/humanintheloop` |
| `Streams` | `workflowstreams`, its five scenarios |
| `ShoppingCart` | `shoppingcart` |
| `AwaitSignals`, `UpdatableTimer` | `await-signals`, `updatabletimer` |
| `EarlyReturn` | `early-return` |
| `HostFiles` | `worker-specific-task-queues`, `fileprocessing`, `session-failure` |
| `RetriedBatch`, `Polling` | `retryactivity`, `polling` |
| `LongRuns` | `child-workflow-continue-as-new`, `cron`, `sleep-for-days`, `update` |
| `ParticleSwarm` | `pso` |
| `Deployments` | `worker-versioning` |
| `ChildGuard` | `workflow-security-interceptor` |
| `Payloads` | `encryption`, `snappycompress`, `codec-server`, `grpc-proxy`, `ctxpropagation`, `nexus-context-propagation` |
| `Schedules` | `schedule` |
| `TokenReuse` | `serverjwtauth/keyutil.go`: `GetHeaders` |
| `Flows` | the samples of a few activities, children or operations, forty-three programs of twelve kinds |
| `Samples` | an instance of each of the modules from `Partitions` on |
| `SamplesLemmas`, `SamplesProofs` | the six safety properties of `Samples` |

Each definition of a module stands for the lines that `PROJECT.json` ("map")
names. A definition whose name begins a comment "Mutant of ..." is a wrong version
of the one below it, kept to show that a property notices it; no specification
uses it.

### MutexLock

One sender is one `SampleWorkflowWithMutex`; one run of `MutexWorkflow` is open at
a time, because all of them have one workflow ID. `senderPc` and `mutexPc` say at
which blocking call each is. `requestCh`, `acquireCh` and `releaseCh` are the
signal channels `request-lock-event`, `acquire-lock-event` and `unlock-event-*`;
`run` and `lockRun` are run IDs: `unlockFunc` signals the run it asked, which may be
over. An attempt of the local activity may succeed, succeed without the sender
knowing (`RequestUnacknowledged`), or fail. `overdue` is a history variable: the
senders whose last lease ended by `unlockTimeout`.

`MutualExclusion` allows a second sender inside only if one of the two is overdue:
the code releases the lock after `unlockTimeout` whatever the holder does, and no
more than this is true. `NoLostRequest` is the invariant behind "completes only
when no request is left": the end of a run and the arrival of a request race.
`ImplementsLease` maps the two workflows to one abstract lease, `WaiterServed` says
that a sender that waits gets the lock or is closed.

### ClusterManager

One update (`assign` or `delete`) is one handler coroutine; `status` is where it is:
before the start of the cluster, waiting for `nodeLock`, waiting for its activity.
`pick` holds the nodes a handler chose before its activity and marks after it. The
main coroutine waits for the start, selects between shutdown and timer, checks
health under the same lock, drains handlers, continues as new or completes.

`PickStable` (what a handler picked is still what it was), `NoNodeStolen` (no step moves
a node from one job to another) and `AllocationExact` (a fresh assignment has as
many nodes as it asked for) fail as soon as the lock is not held across the
activity. `UpdateAnswered` and `ShutdownCompletes` are liveness: a failing activity
releases the lock, and the drain does not wait for ever.

Three runs show where the code does something else than its documentation says;
see the findings below. Not modelled: cancellation of the workflow, after which
the cancelled timer is ready at once in each pass of the loop.

### SlidingWindow

`started`, `offset`, `currentRecords` and `progress` are the fields of the workflow
and its input; a run of the chain starts one page of children, waits for room in
the window before each, and hands its unfinished children to the next run. `child`
follows each record's child from the request to start it to its report, and
`reported` holds completion signals under way, which may be delivered twice
(`ReportAgain`). A child may be refused by the server (its ID is taken) or be killed.

### Recovery

A trip is its index in the list of open executions. Its events count alike, so a
history is a number: `base` (the counter the run started with) plus `signals` (those
in its history). Each attempt of `RecoverExecutions` is a process with its own
memory (`work`): the index it is at, what it read, how many signals it still has to
send. `handle` holds the attempts whose `newRun` is still the current run of their
trip: the signals of the others fail, and the code ignores that. After
`AttemptTimesOut` the old attempt may go on beside the next (`overdue`). The list is
in the memory of one worker; an attempt elsewhere panics (`AttemptWithoutList`).
`RecoverWorkflow` divides by the number of activities, which is 0 for an empty list
(`ListNothing`, the state "panicked").

`NoEventTwice` is stated for activities without an overdue attempt. With one it is
false, and the code does nothing against it: two attempts re-inject the same
signals into the run that `ExecuteWorkflow` returns to both.

### ReqResp

`delivery` chooses one of the three programs; they share requests, runs and
activities. Each request is one call of `RequestUppercase`. `caller` is where the call
is ("missed": its last query succeeded without a response), `stage` how far the
workflow is with the request, `outcome` what its activity came to. `pending` and
`mailbox` are `pendingRequests` and the buffered channels in it; `sending` counts the
attempts of the response activity between the lookup of the channel and the send.
Attempts overlap, as the comment in `responseActivity` expects.

The selector loop is one action per case it takes, and `ContinueAsNew` when `Limit` is
reached and `HasPending` is false. The workflows' comment says that `HasPending` is
true while an activity executes; the SDK defines it as "`Select` would not block". The
model takes the second, which allows more: requests whose activity is under way may be
abandoned (`NothingLeftBehind` says that no others are, and none behind updates). The READMEs'
"we only send this if there are no ... executing activities" holds only in the first reading.

`RunBounded` and `RunEnds` are about the validator of `reqrespupdate`: a rejecting run
takes `Limit` updates and then does continue as new. `CallsEnd` says that polls and
updates return, and that no response activity blocks on a full channel.

### Expense

Handlers of the server run at once and its maps have no lock, so `actionHandler` is taken
apart at each access to a map: `pc` is where the handler of a request is, `oldState`,
`reported` and `token` are what it has read. Requests are those of people and, numbered,
the attempts of `PaymentActivity`. `creating` and `registering` are the handlers of
`CreateExpenseActivity` and `WaitForDecisionActivity` between their read and their write;
`waiting` is the attempt whose token the server of the activities still takes. An attempt that times
out leaves its handler at work. A fatal "concurrent map writes" of the Go runtime is a `Restart`.

The condition at `ui/main.go:98` compares the state twice and reads it for each comparison,
`CheckApproved` and `CheckRejected`.

`PaidOnApproval` holds however the handlers overlap. `DecisionTold` is as much as the code
keeps of its promise to tell the workflow: the token is stored, the handlers before are
done, nothing more goes wrong, and nobody who found the expense decided approves what another
rejects. Without the first of these it does not tell (`ApprovalTold`); without the second a late `createHandler`
can hide the change; without the last it is `OverruledDecisionTold` (see the known divergences). People who all find the expense CREATED may
decide as they like, and a rejection after an approval is always noticed: the second comparison reads it.
`PaymentCompletes`: the payment can be repeated, unlike the creation.

### The small samples

Each of these is a module with a specification and named properties of its own. `Samples`
puts an instance of each into one run: `which` says which sample a behaviour is of, `v1` to `v7` are the
variables of its module (`INSTANCE ... WITH`), and the run's seven properties are conjunctions of the
modules' own, grouped by what they promise. A wrong version of a definition is kept in each module and
breaks the property it belongs to.

**`SessionsKept`: what was said in a conversation is kept.**

* `ShoppingCart`. Two browser requests may be under way (`request`); an add or a remove is an update-with-start,
  a checkout a signal. `wanted` is what the answers told the shop. `CartKept`: no continue-as-new, in
  whatever moment the server suggests it, loses or doubles an item.
* `OrderProxy`. `OrderWorkflow` takes any request for what it is asking at the moment: it does not look at the key.
  A UI that did not hear of an update sends it again (`UpdateOrderUnheard`). `OrderInStep`: the validation of
  the values alone keeps the order filled with answers to its own questions, and the UI never ahead.
* `AgentChat`. The handlers of `SendMessage` share a session and the flag `busy`; a run that stops serving drains
  them and hands the session on. `TurnsWhole`, `NoMessageDropped`: turns do not interleave, and no message is left in a run that ended.
* `GreetingService`. `setLanguage` reads the language, perhaps waits for an activity under the workflow's mutex,
  and writes it; callers repeat an operation whose answer was lost. `SwapsChained`: each answer names the language its
  predecessor set. `AcceptedAnswered`: an approval does not end a workflow with handlers in it.

**`ReadsComplete`: readers miss nothing.**

* `Streams`. `log` and `base` are the log and what is truncated of it, `reader` the subscribers: one that reconnects, one
  that comes late, one of an activity that is repeated. `SeenOnce`, `AnswerWhole`; `LogBounded` belongs to `BoundsKept`.
* `Listings`. The list changes while it is read; `steady` are the executions that were on it throughout. `ListComplete`.
* `Payloads`. A payload has layers (`codec`, `key`), the context a value that each hop has to put into a header and take
  out again. `PayloadsArrive`: read as written, never stored plain, and encrypted with the key that the client named.

**`ResultsEarned`: success means that it was done.**

* `Flows`. A program is a kind of control ("sequence", "first", "saga", ...) and its steps. A step may fail and have taken effect.
  `ResultEarned`; `FailureUndone` and `NothingLeftAtWork` belong to `FailuresUndone`.
* `HostFiles`. Steps on one host, which may go down between two of them; results are lost. `AllOnOneHost`.
* `RetriedBatch`. The server knows the last heartbeat that reached it, not what was done. `NoTaskSkipped`.
* `Polling`. Three ways to ask again; the service counts its questions in the memory of a worker that may restart. `AnswerIsReal`.
* `ParticleSwarm`. Activities report in any order, the swarm goes through runs, and an attempt that failed is made again with another
  swarm. `BestIsBest`.
* `Partitions`. The children get their ranges one after the other, as in the loop of the code. `EveryRecordOnce`: rounding loses no record, whatever the numbers.

**`FailuresUndone`: a failure half-way leaves nothing behind.** `EarlyReturn`: the first phase runs in a local activity
that a stopped worker repeats, and the client is told before the second one. `ToldTrue`: it is told of the transaction that is completed.

**`BoundsKept`: bounds hold at their edge.**

* `PinCache`. Callers get and release in any order; entries expire. `UsedEntriesStay`.
* `LongRuns`. What a run hands to the next: the cron's last completion, which a failed run does not move; counts; months. `HistoryFits`.
* `Schedules`. The client may die in any step. `ActionsLimited`.
* `AwaitSignals`. Signals in any order under two time-outs. `DoneInTime`.
* `UpdatableTimer`. A timer that fires as its update comes. `WokenOnTime`.
* `TokenReuse`. `call` is where each overlapping call of `GetHeaders` is, with the token it has read or made; `Pause` is what one call
  takes at most, a bound the code needs and does not state. `HeaderValid`: a late store of an older token harms nobody, since the leeway covers it.

**`DecisionsObeyed`: nothing is done that was not allowed.**

* `AgentApproval`. Decisions are signals that may come early, name a call or none. `DeletionConfirmed`: one confirmed decision per deletion.
  The tool of the sample deletes on any confirmation; that a refused call never reaches it is the agent library's part (`Redispatch`).
* `ChildGuard`. The caller has a future before the child is validated. `OnlyAllowedChildren`.
* `Deployments`. Three versions of the code, in `up` as their workers come; a task is done by the current version, or by that of the
  run's first task when it is pinned. `UpgradesReplay`: the code at work comes to the commands in the history.

**`EverythingEnds`: who waits gets an answer.** The modules' own `...End` formulas, under weak fairness of what each module calls `Progress`.

## Runs

| run | bounds | shows |
|---|---|---|
| `mutex` | 2 senders, 2 attempts each | safety, refinement and liveness of the lock; 53,290 states |
| `cluster` | 2 nodes, 2 jobs, 2 updates of any kind and size, 2 runs | safety and liveness of the cluster manager; 63,784 states |
| `window` | records 1 to 5, pages of 2, window of 3 | safety, refinement, completion; 8,635 states |
| `recovery` | up to 3 trips, 2 activities, 2 attempts each, 2 faults, runs of one event | batches, resumption, restart, no double count; 395,775 states |
| `reqresp` | 2 calls, runs of one request, 2 attempts per response | safety, refinement and liveness of the three deliveries; 81,968 states |
| `expense` | 2 decisions, 2 faults | safety and liveness of the approval; 188,714 states |
| `samples` | below | the seven properties of the small samples; 111,133 states |
| `cluster_state`, `cluster_badnodes`, `recovery_signals`, `reqresp_timeout`, `expense_approval` | as above or smaller | the findings |

Why these are enough: two senders are what it takes for one to overtake another, to
be late for it, or to queue behind it; an acknowledgement may be lost once and the
next attempt succeed. Two updates and the health check are three contenders for the
lock; two nodes let an assignment take all, or one and leave one. Five records
are three pages, the last of them short, and a window of three lies across two. Three trips over two
activities leave a remainder and a batch of two, the least in which an attempt
resumes in the middle; two faults exhaust the attempts of one activity. With runs of one
request, a second request is in flight at the continue-as-new that the first one causes,
and two attempts are what it takes to fill a channel of one.
Two decisions are what it takes to disagree; two faults repeat an activity
and cut the repetition off, or repeat two of the three activities. The safety
properties of all seven runs are also proved for all values; their types are the first conjunct of each `IInv`.

The constants of `samples` are in `Samples.cfg`, each the least in which its case happens: two callers
of two users with one lost answer; six answers to three questions, one of them unheard; three messages over three runs of one turn each; two calls that need a decision
and three decisions; seven ticks of which two are kept, so that the log is truncated behind a reader and past a late one; three attempts and two lost results on a host;
nine tasks in attempts of three, the last two attempts spare; a question answered at the fifth try and runs of three, so that an answer needs a
second run; four keys for a cache of three, which holds two; up to five records and a window of up to four in up to three partitions, so that both
leave remainders; four executions in pages of two; ten actions of the schedule, as in the code; two calls that overlap, a token
of five with a leeway of three and a pause of one. `Flows` has no constants but its programs.

Deadlock is not checked: each of these systems ends.

### Fairness

* `MutexLock`: weak fairness of every sender's and the mutex's steps: a worker is up.
  A sender that was closed takes no more steps, which is why the mutex needs its own.
* `ClusterManager`: strong fairness of every coroutine. A handler that waits for the lock
  is enabled each time it is free; the dispatcher of the SDK runs every coroutine
  until none can go on, so one that finds the lock free again and again gets it.
  Clients owe nothing: `SendStart` and `SendShutdown` may never happen.
* `SlidingWindow`: weak fairness of the run, the children and the delivery of their
  signals; none of refusals, kills and duplicates.
* `Recovery`: weak fairness of the workflow and of each activity, as the server sees it:
  an attempt it scheduled is started, the current one goes on. None for an attempt
  that timed out.
* `ReqResp`: weak fairness of the run, of each activity, of each response send and of each call that
  has something to take or a time-out to meet. Nobody has to call, cancel or give up.
* `Expense`: weak fairness of each handler and of each activity, which the server retries, and of
  the people who decide. None of faults.
* `Samples`: weak fairness of `Progress`, which in each module is what servers, workers and programs do in time: they
  answer, retry, wake up. Not in it: faults, people (decisions, signals, updates), and a server that suggests to continue as new.
  One sample runs in a behaviour, so that the fairness of one step is that of the module at work, and each of its
  steps brings it nearer to its end or is bounded.

## Findings

* `safe_message_handler/workflow.go:89` resets the nodes of the state it was handed
  (`StatePassedOn`): after a continue-as-new every assigned node is free. For the same
  reason a new run waits again for a start signal (line 290).
* `safe_message_handler/workflow.go:251` passes a map where the activity takes a struct: no bad
  node is ever found (`BadNodesFound`).
* `recovery/recovery_workflow.go:255` terminates a run whose history it read before: what arrives
  in between is replayed nowhere (`AllSignalsReplayed`).
* `reqrespquery/requester.go:88` returns `ctx.Err()`, which is nil, when the poll times out after a
  query that found nothing: an empty output and no error (`ResponseOrError`).
* `expense/ui/main.go:143` refuses to register a callback for an expense that has been decided, and line 162
  tells nobody when there is no callback yet: an early approval leaves the workflow waiting (`ApprovalTold`).

### Known divergences

Formulas of the modules that say what a comment or a README says, and that TLC refutes when they are given
to it as an INVARIANT or a PROPERTY of their module; no run is kept for them.

* `ClusterManager!OperatesUntilShutdown`: `safe_message_handler/workflow.go:137` checks for the shutdown before it waits for the lock, and not after.
* `HostFiles!FileProcessed`: in `worker-specific-task-queues/workflow.go:58` the deferred `DeleteFile` assigns the error of the function, so that a
  failure of `ProcessFile` is forgotten when the file could be deleted. Line 15 promises to retry "all of the worker-specific logic".
* `Flows!GoroutinesReturn`: the coroutines at `goroutine/goroutine_workflow.go:31` share `err`. When one fails and the
  other succeeds in the same workflow task, the error is gone and the count is never reached.
* `ShoppingCart!CheckoutCompletes`: `shoppingcart/workflow.go:72` receives a checkout and then looks whether to continue as new: the next run opens with the same cart and waits.
* `AwaitSignals!TimeLeftForSignal2`: "this cannot really happen" (`await_signals_workflow.go:129`) can, when another signal came before the first one.
* `Expense!OverruledDecisionTold`: one handler writes REJECTED and finds that it is not "approved"; another, which found REJECTED, writes
  APPROVED; the first finds that it is not "rejected" (`expense/ui/main.go:98`). Neither notifies, and the workflow waits with an approved
  expense, though `expense/README.md:35` says "You should see the workflow complete after you approve the expense".
* `ChildGuard!SignalsDelivered`: `workflow-security-interceptor/interceptor.go:74` copies the future before there is a child in it: a signal sent before the validation panics.

Seen while modelling, without a formula:

* `AssignNodesToJobs` does not resize a job though the comment at `safe_message_handler/workflow.go:43` says so; a deleted job stays in
  `JobsAssigned`, so that assigning it again answers with no nodes.
* `expense/ui/main.go:167`: when `CompleteActivity` fails the state has changed, and nobody tells the workflow again; `DecisionTold` excludes it as a fault.
* `batch_workflow.go:32` lets `Partitions = 0` pass, and line 80 divides by it (the state "panicking" of `Partitions`).
* `pso/workflow.go:95` says "after 5 attempts" when four have been made (line 54); the loop of `fileprocessing` makes four attempts as well.
* `worker-versioning/workflows.go:70`: the branch that "will never be taken" is taken when a run whose activity was recorded by version 1.0 is replayed by 1.1.
* A cache of `recovery/cache/lru.go` made for n entries holds n - 1 of them.
* `recovery/recovery_workflow.go:190`: an activity whose list has left the cache panics in a type assertion of nil.
* `schedule/starter/main.go`: `log.Fatalln` skips the deferred deletion, and the schedule goes on (up to its limit).
* `searchattributes` waits for itself by reading the first page again: a page full of later executions would hide it.
* `ctxpropagation`: a context without a value arrives as one with the zero value.
* `choice-multi/workflow.go:53` waits for the orders and does not look at what they came to.
* `saga/workflow.go:31`: a step whose result was lost is not compensated, though it may have moved the money.

## Proofs

All of it is checked by TLAPS for every value of the constants, from the named
assumptions of the modules (finite sets where a cardinality is taken, positive
bounds) and nothing else. Liveness, and whatever is under ENABLED, stays with TLC.

* Mutex. `IInv` adds to the types that every sender that waits is covered (its request
  is queued, it is being served, or its answer is in its channel) and that a release
  in the channel belongs to a sender that has left. Exclusion is not inductive without
  the second: a release that arrives early would end the lease of a sender that
  is inside. `Implementation` proves that every step is a step of the lease or a
  stutter, under that invariant.
* Cluster manager. `IInv` adds to the types, which tie the lock to the phase of its
  holder, that what a handler picked is unchanged and that the jobs on the nodes are
  among the jobs assigned. The three action properties follow from it.
* Sliding window. `IInv` says which records a run can have started (`Paging`), what
  state each tracked child is in (`Tracking`) and that progress counts the others
  (`Counting`). From it: the window bound, exact progress, the final count, no child
  dropped, no signal lost, and the refinement.
* Recovery. `BatchesDisjoint` and `BatchesCover` are arithmetic: rounding the quotient up
  gives intervals that share no index and miss none. `IInv` has a part for each
  question: `Scheduling` (which activities exist, where their progress can be), `Alone`
  (an attempt at work is the current one unless one timed out), `Covering` (what lies
  before an attempt or its last reported index is recovered), `Reopening` (a closed run
  is one that an attempt is about to restart or has still to read, never behind the
  reported progress), and `Budget` (what was read and not yet injected, added to what is
  in the new run, is no more than was sent). `Alone` is what makes the last two inductive: with
  two attempts on one trip both are false, hence the `overdue` exception.
* Request and response. `IInv` adds to the types that the pending calls are those that wait,
  that `pendingUpdates` is the number of handlers not returned, that a call which has
  sent nothing has no request in the workflow, and that outcomes exist exactly where an
  activity is over. The second makes `pendingUpdates = 0` mean that nothing is left behind;
  the last two make every step one of `Rpc`.
* Expense. `IInv` adds to the types that each repeated attempt is paid for by a fault
  (`RepeatedForFaults`, which bounds their numbers), that an "APPROVED" anywhere goes back to
  an approval that was written, and that no payment is under way before the workflow was told.
* Lease. Exclusion of the abstract lock, from its own invariant (`LeaseInvariant`, `LeaseExclusion` in `MutexLockProofs`).

### The small samples

The six safety properties of the run `samples` are theorems about `Samples` as a whole. Each module of a sample has its inductive
invariant `IInv` at its end; `Invariance` puts them together: a behaviour takes steps of one sample only (`StepOf`), the sample's `...Init`
and `...Step` lemmas show that its `IInv` holds at the start and is kept, and its `...Safe` lemma what follows from it. What each adds to
its types, and why it is needed:

* `ShoppingCart`: the cart of the run, with the changes that are answered but not told, is what was wanted; a request knows what it has changed.
* `OrderProxy`: how far the order can be by the stage of the UI and the update it may send again; a request is sent at most once.
* `AgentChat`: the turn under way is the last of the history, and its owner the only handler that works.
* `GreetingService`: who fetches a greeting holds the mutex, and the language it read is still the language.
* `Deployments`: the history of each run, as one of the few shapes that some code of its version can have written (`AutoHistory`, `PinnedHistory`).
  Without them "the code replays" is not inductive: it speaks of the commands of code that is still to be started.
* `Streams`: what the log of each scenario is at each step of its publishers, and where each reader is in it; `Lost` is the number of ticks truncated
  after so many, by division, and lemmas say how it grows.
* `Listings`: by page token, every execution that stayed is either found once or behind the token. A page is the largest executions behind it; that
  there is a smallest one on it, whatever the set, is `SmallestLargest`, by the well-foundedness of the subsets of a finite set.
* `Payloads`: where the context is on each hop, and with which key the payload was encoded.
* `Flows`: one invariant per kind of program (`SequenceOK` to `RaceOK`): which steps can be at work and which are settled, by where the control is. `CommonOK` says
  that nothing works when the program has returned, except what it abandons.
* `EarlyReturn`, `ChildGuard`, `UpdatableTimer`, `AwaitSignals`: what has been said by the time of each step; for the two with time-outs, that no deadline is behind the clock.
* `HostFiles`: the steps before the one an attempt is at are done on its host (`StepsKept`).
* `RetriedBatch`: what the heartbeat says has been processed, and as long as no worker dies each attempt is a third of the batch further
  than the one before (`FarEnough`). It takes five attempts, as many as the code has, since rounding leaves up to two tasks for a fourth and a fifth.
* `Polling`, `Schedules`, `LongRuns`: counters within their bounds, and history variables that agree with them.
* `ParticleSwarm`: the best report so far is that of `Gbest` or of a particle (`BestKept`); that `updateBest` finds it is `SmallestLargest` again.
* `Partitions`: the ranges given so far follow on one another, and what is left of the records and of the window is what the later partitions will get
  (`Left`). That nothing is left after the last is the division theorem.
* `PinCache`: the list of entries and the map have the same keys, the entries in use are at most the callers that hold them.
* `TokenReuse`: what is stored, or was read, is replaced the leeway before it expires (less the pause between making the token and taking
  the time again), and a call which answers has a token that outlasts it.
* `AgentApproval` needs no invariant: `DeletionConfirmed` is a property of each step.

The theorems assume `SamplesAssumption`, which is what `Sizes` says in each module: the bounds are naturals, sizes of pages, caches, runs and partitions
at least one, five attempts of a batch, and for the tokens that the leeway is more than two pauses and the expiration more than one (the code leaves all
three to whoever configures it). TLC evaluates it on the instance of `Samples.cfg`.

`SamplesLemmas` has the lemmas of the samples with clients, of what is read and of the flows; `SamplesProofs` the others, and the theorems.

### Model-checked only

Liveness, and whatever is under ENABLED: `EverythingEnds`, `WaiterServed`, `BatchCompletes` and their like. The formulas under "Known divergences" are refuted, not proved.
No definition recurses. A sum over a set, a sorted list and the like can only be folded, and induction over data is out of the provers' reach: this is why
`Partitions` starts its children one by one, as the loop of the code does, and why `Listings` takes a page as a set.

## Not modelled

* `query`, `start-delay` and `dynamicmtls` keep no state that two steps could disagree about: a string set before and after a timer,
  an option of a client, a certificate read from its file for each handshake.
* `googleadk/workflow.go` and `multiagent`: their loops over models and tools run inside the agent library, which the repository does not contain.
* `codec-server`, `grpc-proxy`, `serverjwtauth`, `external-storage`: HTTP and TLS servers, the check of a token by its issuer, key files, drivers of a
  storage and a mock server. Each request stands alone.
* `logger-interceptor`, `metrics`, `zapadapter`, `slogadapter`, `opentelemetry`, `datadog`: what is logged and measured.
* `temporal-fixtures`: programs that fill a server with executions of every status, each one call after the other.
* In modelled samples: the cancellation of `ClusterManagerWorkflow`, `Close` of a requester, handlers of `expense` that only read, the positions and the data
  converter of `pso`, and command lines everywhere.

## Plan

All of the first plan is done: the six protocols with their proofs, `ProcessBatchWorkflow` over its windows, the entity workflows, the
fan-out samples, timers and signals, hosts, and the cache; and with `Samples` every safety property of a run is a theorem.
What would come next:

1. Abstract specifications for the small samples that have one in common (a session that goes through runs: `ShoppingCart`, `AgentChat`,
   `GreetingService`), with the refinement proved.
2. The programs of `temporal-fixtures`, with the hour after which an activity is timed out.
3. Cancellation from outside for every workflow that waits.
