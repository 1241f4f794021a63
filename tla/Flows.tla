--------------------------------- MODULE Flows ---------------------------------
(* The samples that run a few activities (or children, or Nexus operations) and make    *)
(* something of their results: in sequence, at once, by choice, racing each other, with *)
(* compensation or clean-up. A sample is a kind of control and its steps. A step ends   *)
(* well or for good (not to be retried, or out of attempts), and one that has failed    *)
(* may have taken effect all the same.                                                  *)
EXTENDS Naturals, Sequences, FiniteSets

VARIABLES sample,     \* which program
          act,        \* per step: idle, running, cancelling, abandoned, ok, failed, canceled
          effect,     \* per step: it has done its work
          main        \* the workflow: see Init

vars == <<sample, act, effect, main>>

Sequential(steps) == [kind |-> "sequence", steps |-> steps]
Program(kind, steps) == [kind |-> kind, steps |-> steps]

GreetingSample == Sequential(<<"GetGreeting", "GetName", "SayGreeting">>)
GreetingLocalSample == Sequential(<<"GetGreeting", "GetName", "SayGreeting">>)
SampleGreetingsWorkflow == Sequential(<<"GetGreeting", "GetName", "SayGreeting">>)
SampleParentWorkflow == Sequential(<<"SampleChildWorkflow">>)
DatadogWorkflow == Sequential(<<"ChildWorkflow">>)
HelloWorldWorkflow == Sequential(<<"Activity">>)
HelloWorldMtlsWorkflow == Sequential(<<"Activity">>)
HelloWorldApiKeyWorkflow == Sequential(<<"Activity">>)
ExternalEnvConfWorkflow == Sequential(<<"Activity">>)
LoggerInterceptorWorkflow == Sequential(<<"Activity">>)
GrpcProxyWorkflow == Sequential(<<"Activity">>)
LambdaSampleWorkflow == Sequential(<<"HelloActivity">>)
OpenTelemetryWorkflow == Sequential(<<"Activity">>)
SnappyWorkflow == Sequential(<<"Activity">>)
EncryptionWorkflow == Sequential(<<"Activity">>)
MetricsWorkflow == Sequential(<<"Activity">>)
CodecServerWorkflow == Sequential(<<"SideEffect", "LocalActivity", "Activity">>)
ZapWorkflow == Sequential(<<"LoggingActivity", "LoggingErrorActivity">>)
SlogWorkflow == Sequential(<<"LoggingActivity", "LoggingErrorActivity">>)
LargePayloadWorkflow == Sequential(<<"CreateLargeResult", "ProcessLargeInput">>)
ProcessOrderBatchWorkflow == Sequential(<<"FetchOrders", "ProcessOrders">>)
SearchAttributesWorkflow == Sequential(<<"UpsertSearchAttributes", "ListExecutions">>)
MemoWorkflow == Sequential(<<"UpsertMemo", "DescribeWorkflow">>)
EchoCallerWorkflow == Sequential(<<"EchoOperation">>)
NexusHelloCallerWorkflow == Sequential(<<"HelloOperation">>)
HelloHandlerWorkflow == Sequential(<<"HelloOperation">>)
DynamicWorkflow == Sequential(<<"random-activity-name">>)
EagerWorkflowStart == Sequential(<<"Workflow">>)
(* Programs of clients, which stop at the first error as well. *)
DynamicWorkflows == Sequential(<<"DurableExecution", "dynamic-activity", "dynamic-activity123">>)
StandaloneActivity == Sequential(<<"Activity", "ListActivities", "CountActivities">>)
StandaloneNexusOperations == Sequential(<<"Echo", "Hello", "ListNexusOperations", "CountNexusOperations">>)
ExclusiveChoiceWorkflow == Program("choice", <<"GetOrder", "Order">>)
MultiChoiceWorkflow == Program("basket", <<"GetBasketOrder", "Order", "Order">>)
SampleBranchWorkflow == Program("ordered", <<"branch", "branch", "branch">>)
SampleSplitMergeFutureWorkflow == Program("ordered", <<"chunk", "chunk">>)
SampleSplitMergeSelectorWorkflow == Program("selector", <<"chunk", "chunk", "chunk">>)
SamplePickFirstWorkflow == Program("first", <<"branch", "branch">>)
SimpleDSLWorkflow == Program("parallel", <<"1", "2", "3", "4", "5", "1">>)
SampleGoroutineWorkflow == Program("goroutines", <<"Step1", "Step2", "Step1", "Step2">>)
SampleTimerWorkflow == Program("timer", <<"OrderProcessing", "SendEmail">>)
TransferMoney == Program("saga", <<"Withdraw", "Deposit", "StepWithError", "DepositCompensation", "WithdrawCompensation">>)
YourWorkflow == Program("cleanup", <<"ActivityToBeCanceled", "Cleanup">>)
HelloCallerWorkflow == Program("race", <<"EN", "FR", "DE">>)

Samples == { GreetingSample, GreetingLocalSample, SampleGreetingsWorkflow, SampleParentWorkflow, DatadogWorkflow,
             HelloWorldWorkflow, HelloWorldMtlsWorkflow, HelloWorldApiKeyWorkflow, ExternalEnvConfWorkflow,
             LoggerInterceptorWorkflow, GrpcProxyWorkflow, LambdaSampleWorkflow, OpenTelemetryWorkflow, SnappyWorkflow,
             EncryptionWorkflow, MetricsWorkflow, CodecServerWorkflow,
             ZapWorkflow, SlogWorkflow, LargePayloadWorkflow, ProcessOrderBatchWorkflow, SearchAttributesWorkflow,
             MemoWorkflow, EchoCallerWorkflow, NexusHelloCallerWorkflow, HelloHandlerWorkflow, DynamicWorkflow,
             EagerWorkflowStart, DynamicWorkflows, StandaloneActivity, StandaloneNexusOperations, ExclusiveChoiceWorkflow, MultiChoiceWorkflow,
             SampleBranchWorkflow, SampleSplitMergeFutureWorkflow, SampleSplitMergeSelectorWorkflow,
             SamplePickFirstWorkflow, SimpleDSLWorkflow, SampleGoroutineWorkflow, SampleTimerWorkflow,
             TransferMoney, YourWorkflow, HelloCallerWorkflow }

MaxSteps == 6
Steps == 1..Len(sample.steps)
Is(kind) == sample.kind = kind
NoError == 0
InvalidChoice == MaxSteps + 1
(* dsl, goroutine: the steps of each coroutine, in sequence. *)
Branches == {1, 2}
BranchOf == IF Is("parallel") THEN <<<<2, 3>>, <<4, 5>>>> ELSE <<<<1, 2>>, <<3, 4>>>>

Ready(a) == act[a] \in {"ok", "failed", "canceled", "abandoned"}
Started(S) == [a \in DOMAIN act |-> IF a \in S THEN "running" ELSE act[a]]
(* A cancelled step is waited for, or given up while it may still be at work. *)
Cancelled(S, left) == [a \in DOMAIN act |-> IF a \in S /\ act[a] = "running" THEN left ELSE act[a]]
Return(err) == main' = [main EXCEPT !.at = "returned", !.err = err]

Init ==
  /\ sample \in Samples
  /\ act = [a \in 1..MaxSteps |-> "idle"]
  /\ effect = [a \in 1..MaxSteps |-> FALSE]
  /\ main = [at |-> "start", next |-> 1,            \* the step it waits for
             taken |-> {}, result |-> 0,            \* futures taken; whose result is returned
             err |-> NoError,                       \* the step whose error is returned
             branch |-> [b \in Branches |-> 1],     \* position of each coroutine in its steps
             fired |-> FALSE, cancelled |-> FALSE]  \* timer; cancellation of the workflow

----------------------------------------------------------------------------
(* What the steps come to. StepWithError only ever fails, ActivityToBeCanceled ends    *)
(* by its cancellation only.                                                           *)
MaySucceed(a) == sample.steps[a] \notin {"StepWithError", "ActivityToBeCanceled"}

StepSucceeds(a) ==
  /\ a \in Steps /\ act[a] \in {"running", "cancelling"}
  /\ MaySucceed(a)
  /\ act' = [act EXCEPT ![a] = "ok"]
  /\ effect' = [effect EXCEPT ![a] = TRUE]
  /\ UNCHANGED <<sample, main>>

StepFails(a, done) ==
  /\ a \in Steps /\ act[a] \in {"running", "cancelling"}
  /\ act' = [act EXCEPT ![a] = "failed"]
  /\ effect' = [effect EXCEPT ![a] = done /\ MaySucceed(a)]
  /\ UNCHANGED <<sample, main>>

(* The activity has heard of its cancellation, or the operation's handler has been    *)
(* asked to cancel and may still complete it.                                          *)
StepCanceled(a) ==
  /\ act[a] = "cancelling"
  /\ act' = [act EXCEPT ![a] = IF Is("race") THEN "abandoned" ELSE "canceled"]
  /\ UNCHANGED <<sample, effect, main>>

AbandonedStepWorks(a) ==
  /\ act[a] = "abandoned" /\ ~effect[a]
  /\ effect' = [effect EXCEPT ![a] = TRUE]
  /\ UNCHANGED <<sample, act, main>>

CancelWorkflow ==
  /\ Is("cleanup") /\ main.at \in {"start", "await"} /\ ~main.cancelled
  /\ main' = [main EXCEPT !.cancelled = TRUE]
  /\ act' = Cancelled({1}, "cancelling")
  /\ UNCHANGED <<sample, effect>>

TimerFires ==
  /\ Is("timer") /\ main.at = "await" /\ main.next = 1 /\ ~main.fired
  /\ main' = [main EXCEPT !.fired = TRUE]
  /\ UNCHANGED <<sample, act, effect>>

----------------------------------------------------------------------------
(* The workflows. *)

Begin ==
  /\ main.at = "start"
  /\ act' = IF main.cancelled THEN [act EXCEPT ![1] = "canceled"]
             ELSE Started(CASE sample.kind \in {"ordered", "selector", "first", "race"} -> Steps
                            [] Is("goroutines") -> {BranchOf[b][1] : b \in Branches}
                            [] OTHER -> {1})
  /\ main' = [main EXCEPT !.at = "await"]
  /\ UNCHANGED <<sample, effect>>

(* One step after the other, and out at the first error. *)
NextInSequence ==
  /\ Is("sequence") /\ main.at = "await" /\ Ready(main.next)
  /\ IF act[main.next] /= "ok"
     THEN Return(main.next) /\ UNCHANGED act
     ELSE IF main.next = Len(sample.steps)
     THEN Return(NoError) /\ UNCHANGED act
     ELSE act' = Started({main.next + 1}) /\ main' = [main EXCEPT !.next = @ + 1]
  /\ UNCHANGED <<sample, effect>>

ChooseOrder(known) ==
  /\ Is("choice") /\ main.at = "await" /\ Ready(main.next)
  /\ IF main.next = 1 /\ act[1] = "ok" /\ known
     THEN act' = Started({2}) /\ main' = [main EXCEPT !.next = 2]
     ELSE /\ Return(IF act[main.next] /= "ok" THEN main.next ELSE IF main.next = 1 THEN InvalidChoice ELSE NoError)
          /\ UNCHANGED act
  /\ UNCHANGED <<sample, effect>>

(* The basket: items are started one by one until one of them is unknown; what they   *)
(* come to is not looked at.                                                          *)
FillBasket(items, known) ==
  /\ Is("basket") /\ main.at = "await" /\ Ready(1)
  /\ act' = IF act[1] = "ok" THEN Started(2..(items + 1)) ELSE act
  /\ IF act[1] = "ok" /\ known
     THEN main' = [main EXCEPT !.at = "collect", !.taken = 2..(items + 1)]
     ELSE Return(IF act[1] = "ok" THEN InvalidChoice ELSE 1)
  /\ UNCHANGED <<sample, effect>>

BasketOrdered ==
  /\ Is("basket") /\ main.at = "collect"
  /\ \A a \in main.taken : Ready(a)
  /\ Return(NoError)
  /\ UNCHANGED <<sample, act, effect>>

(* All at once; the results are taken in the order of the steps, or as they come. *)
TakeResult(a) ==
  /\ sample.kind \in {"ordered", "selector"} /\ main.at = "await"
  /\ a \in Steps \ main.taken /\ Ready(a)
  /\ Is("ordered") => \A b \in 1..(a - 1) : b \in main.taken
  /\ IF act[a] /= "ok" THEN Return(a)
     ELSE main' = [main EXCEPT !.taken = @ \union {a}, !.at = IF main.taken \union {a} = Steps THEN "returned" ELSE @]
  /\ UNCHANGED <<sample, act, effect>>

(* The first future, whatever it came to, is the result; the others are waited for.   *)
PickFirst(a) ==
  /\ Is("first") /\ main.at = "await"
  /\ a \in Steps /\ Ready(a)
  /\ act' = Cancelled(Steps, "cancelling")
  /\ main' = [main EXCEPT !.at = "collect", !.result = IF act[a] = "ok" THEN a ELSE 0]
  /\ UNCHANGED <<sample, effect>>

OthersCancelled ==
  /\ Is("first") /\ main.at = "collect"
  /\ \A a \in Steps : Ready(a)
  /\ Return(NoError)
  /\ UNCHANGED <<sample, act, effect>>

(* dsl (workflow2.yaml): step 1, two branches in parallel, step 6. *)
EnterParallel ==
  /\ Is("parallel") /\ main.at = "await" /\ Ready(main.next)
  /\ IF act[main.next] /= "ok" THEN Return(main.next) /\ UNCHANGED act
     ELSE IF main.next = 6 THEN Return(NoError) /\ UNCHANGED act
     ELSE /\ act' = Started({BranchOf[b][1] : b \in Branches})
          /\ main' = [main EXCEPT !.at = "parallel"]
  /\ UNCHANGED <<sample, effect>>

BranchGoesOn(b) ==
  LET a == BranchOf[b][main.branch[b]] IN
  /\ main.at = "parallel" /\ main.branch[b] < Len(BranchOf[b]) /\ act[a] = "ok"
  /\ act' = Started({BranchOf[b][main.branch[b] + 1]})
  /\ main' = [main EXCEPT !.branch[b] = @ + 1]
  /\ UNCHANGED <<sample, effect>>

(* A branch has settled. An error cancels the other, which is not waited for. *)
ParallelSelects(b) ==
  LET a == BranchOf[b][main.branch[b]] IN
  /\ main.at = "parallel" /\ b \notin main.taken /\ Ready(a)
  /\ act[a] = "ok" => main.branch[b] = Len(BranchOf[b])
  /\ IF act[a] /= "ok"
     THEN act' = Cancelled(Steps, "abandoned") /\ Return(a)
     ELSE IF main.taken \union {b} = Branches
     THEN act' = Started({6}) /\ main' = [main EXCEPT !.at = "await", !.next = 6]
     ELSE main' = [main EXCEPT !.taken = @ \union {b}] /\ UNCHANGED act
  /\ UNCHANGED <<sample, effect>>

(* goroutine: one workflow task runs the coroutines in S whose results have come, in    *)
(* their order. They share err, and each assigns it. Then the condition is evaluated.   *)
Dead == 3
CoroutinesRun(S) ==
  LET now(b) == BranchOf[b][main.branch[b]]
      runs(b) == main.branch[b] < Dead /\ Ready(now(b)) /\ b \notin main.taken
      last == CHOOSE b \in S : \A c \in S : c <= b
      err == IF act[now(last)] = "ok" THEN NoError ELSE now(last)
      taken == main.taken \union {b \in S : act[now(b)] = "ok" /\ main.branch[b] = 2}
  IN /\ Is("goroutines") /\ main.at = "await"
     /\ S /= {} /\ \A b \in S : runs(b)
     /\ act' = Started({BranchOf[b][2] : b \in {c \in S : act[now(c)] = "ok" /\ main.branch[c] = 1}})
     /\ main' = [main EXCEPT !.branch = [b \in Branches |-> IF b \notin S \/ b \in taken THEN main.branch[b]
                                                            ELSE IF act[now(b)] = "ok" THEN 2 ELSE Dead],
                             !.taken = taken, !.err = err,
                             !.at = IF err /= NoError \/ taken = Branches THEN "returned" ELSE @]
     /\ UNCHANGED <<sample, effect>>

(* timer: the email goes out when the timer is ready first; the order is waited for     *)
(* in either case.                                                                      *)
OrderProcessed ==
  /\ Is("timer") /\ main.at = "await" /\ main.next = 1 /\ Ready(1)
  /\ Return(NoError)
  /\ UNCHANGED <<sample, act, effect>>

DelayNotified ==
  /\ Is("timer") /\ main.at = "await" /\ main.fired /\ act[2] = "idle" /\ ~Ready(1)
  /\ act' = Started({2})
  /\ main' = [main EXCEPT !.next = 2]
  /\ UNCHANGED <<sample, effect>>

EmailSent ==
  /\ Is("timer") /\ main.at = "await" /\ main.next = 2 /\ Ready(2)
  /\ main' = [main EXCEPT !.next = 1]
  /\ UNCHANGED <<sample, act, effect>>

(* Mutant of Compensation: the deferred calls in the order of their steps. *)
CompensationInOrder(a) == IF a = 2 THEN 5 ELSE 4

(* saga: a compensation is deferred once its step has succeeded; the last one is first. *)
Compensation(a) == IF a = 2 THEN 4 ELSE 5

TransferGoesOn ==
  /\ Is("saga") /\ main.at = "await" /\ Ready(main.next)
  /\ IF act[main.next] = "ok"
     THEN act' = Started({main.next + 1}) /\ main' = [main EXCEPT !.next = @ + 1]
     ELSE IF main.next = 1 THEN Return(1) /\ UNCHANGED act
     ELSE /\ act' = Started({Compensation(main.next - 1)})
          /\ main' = [main EXCEPT !.at = "undo", !.err = main.next, !.next = main.next - 1]
  /\ UNCHANGED <<sample, effect>>

(* A compensation that fails is reported, and the next one is tried. *)
TransferUndone ==
  /\ Is("saga") /\ main.at = "undo" /\ Ready(Compensation(main.next))
  /\ IF main.next = 1 THEN main' = [main EXCEPT !.at = "returned"] /\ UNCHANGED act
     ELSE act' = Started({Compensation(1)}) /\ main' = [main EXCEPT !.next = 1]
  /\ UNCHANGED <<sample, effect>>

(* cancellation: the deferred clean-up has a context of its own. *)
CancelledActivityReturns ==
  /\ Is("cleanup") /\ main.at = "await" /\ main.next = 1 /\ Ready(1)
  /\ IF main.cancelled
     THEN act' = Started({2}) /\ main' = [main EXCEPT !.next = 2, !.err = 1]
     ELSE Return(1) /\ UNCHANGED act
  /\ UNCHANGED <<sample, effect>>

CleanupReturns ==
  /\ Is("cleanup") /\ main.at = "await" /\ main.next = 2 /\ Ready(2)
  /\ main' = [main EXCEPT !.at = "returned"]
  /\ UNCHANGED <<sample, act, effect>>

(* nexus-cancelation: each operation that resolves cancels the others; when all have,    *)
(* the first error that is no cancellation wins over the greetings.                      *)
OperationResolves(a) ==
  /\ Is("race") /\ main.at = "await" /\ a \in Steps \ main.taken /\ Ready(a)
  /\ main' = [main EXCEPT !.taken = @ \union {a}]
  /\ act' = Cancelled(Steps, "cancelling")
  /\ UNCHANGED <<sample, effect>>

RaceOver ==
  /\ Is("race") /\ main.at = "await" /\ main.taken = Steps
  /\ LET failed == {a \in Steps : act[a] = "failed"}
         won == {a \in Steps : act[a] = "ok"}
     IN IF failed /= {} THEN Return(CHOOSE a \in failed : \A b \in failed : a <= b)
        ELSE main' = [main EXCEPT !.at = "returned",
                                  !.result = IF won = {} THEN 0 ELSE CHOOSE a \in won : \A b \in won : b <= a]
  /\ UNCHANGED <<sample, act, effect>>

----------------------------------------------------------------------------
Control ==
  \/ Begin \/ NextInSequence \/ (\E known \in BOOLEAN : ChooseOrder(known))
  \/ (\E items \in 0..2, known \in BOOLEAN : FillBasket(items, known)) \/ BasketOrdered
  \/ (\E a \in Steps : TakeResult(a) \/ PickFirst(a) \/ OperationResolves(a))
  \/ OthersCancelled \/ EnterParallel \/ (\E b \in Branches : BranchGoesOn(b) \/ ParallelSelects(b))
  \/ (\E S \in SUBSET Branches : CoroutinesRun(S)) \/ OrderProcessed \/ DelayNotified \/ EmailSent
  \/ TransferGoesOn \/ TransferUndone \/ CancelledActivityReturns \/ CleanupReturns \/ RaceOver
Outcome(a) == StepSucceeds(a) \/ StepCanceled(a) \/ \E done \in BOOLEAN : StepFails(a, done)
Progress == Control \/ \E a \in Steps : Outcome(a)
Next == Progress \/ CancelWorkflow \/ TimerFires \/ \E a \in Steps : AbandonedStepWorks(a)

----------------------------------------------------------------------------
Returned == main.at = "returned"
Succeeded == Returned /\ main.err = NoError
AtWork(a) == act[a] \in {"running", "cancelling"}

(* What a program returns is earned. Without an error, everything its result is made    *)
(* of has succeeded; with one, it is the error of a step that has failed, never that    *)
(* of a step the workflow itself has cancelled on the way out.                          *)
ResultEarned ==
  /\ Succeeded =>
       /\ sample.kind \in {"sequence", "choice", "ordered", "selector", "parallel", "goroutines"} =>
            \A a \in Steps : act[a] = "ok" /\ effect[a]
       /\ Is("race") => main.result /= 0
       /\ main.result /= 0 => act[main.result] = "ok"
  /\ Returned /\ main.err \in Steps /\ ~main.cancelled => act[main.err] = "failed"

(* Money that is known to have moved is moved back, the last step first, and nothing    *)
(* else is; the clean-up runs if and only if the workflow was cancelled.                *)
FailureUndone ==
  /\ Is("saga") =>
       /\ \A a \in {1, 2} : act[Compensation(a)] /= "idle" => act[a] = "ok"
       /\ act[5] /= "idle" /\ act[2] = "ok" => Ready(4)
       /\ Returned => \A a \in {1, 2} : act[a] = "ok" => Ready(Compensation(a))
  /\ Is("cleanup") /\ Returned => (act[2] /= "idle" <=> main.cancelled)

(* A program that waits for everything it has started leaves nothing at work.           *)
NothingLeftAtWork ==
  Returned /\ sample.kind \in {"sequence", "choice", "first", "timer", "saga", "cleanup", "race"} =>
    \A a \in Steps : ~AtWork(a)

(* Every program returns, the goroutines apart: one that succeeds in the same workflow  *)
(* task as one that fails makes the error forgotten, and the count is never reached.    *)
FlowsEnd == Is("goroutines") \/ Returned \/ (Is("cleanup") /\ act[1] = "running")
GoroutinesReturn == Returned

(* The inductive invariant. For each kind of control it says which steps are done when    *)
(* the workflow waits for which, and what there is when it returns.                       *)
States == {"idle", "running", "cancelling", "abandoned", "ok", "failed", "canceled"}

TypeOK ==
  /\ sample \in Samples
  /\ act \in [1..MaxSteps -> States] /\ effect \in [1..MaxSteps -> BOOLEAN]
  /\ main \in [at : {"start", "await", "collect", "parallel", "undo", "returned"}, next : 1..MaxSteps,
               taken : SUBSET (1..MaxSteps), result : 0..MaxSteps, err : 0..InvalidChoice,
               branch : [Branches -> 1..Dead], fired : BOOLEAN, cancelled : BOOLEAN]

Idle(S) == \A a \in S : act[a] = "idle"
AllOk(S) == \A a \in S : act[a] = "ok"

CommonOK ==
  /\ \A a \in 1..MaxSteps : act[a] = "ok" => effect[a]
  /\ main.at = "start" => /\ Idle(1..MaxSteps) /\ main.next = 1 /\ main.taken = {} /\ main.err = NoError
                          /\ main.result = 0 /\ \A b \in Branches : main.branch[b] = 1
  /\ main.at \in {"await", "parallel", "collect"} /\ ~Is("cleanup") => main.err = NoError
  /\ main.result /= 0 => Is("first") \/ (Is("race") /\ Returned)
  /\ main.cancelled => Is("cleanup")
  /\ ~Is("first") /\ ~Is("race") /\ ~Is("cleanup") =>
       \A a \in 1..MaxSteps : act[a] \in {"cancelling", "canceled", "abandoned"} => Is("parallel") /\ Returned

SequenceOK ==
  /\ main.at \in {"start", "await", "returned"}
  /\ main.at = "await" => /\ main.next \in Steps /\ act[main.next] /= "idle"
                          /\ AllOk(1..(main.next - 1)) /\ Idle((main.next + 1)..MaxSteps)
  /\ Returned => IF main.err = NoError THEN AllOk(Steps)
                 ELSE main.err \in Steps /\ act[main.err] = "failed"
                      /\ AllOk(1..(main.err - 1)) /\ Idle((main.err + 1)..MaxSteps)

ChoiceOK ==
  /\ main.at \in {"start", "await", "returned"}
  /\ main.at = "await" => /\ main.next \in {1, 2} /\ act[main.next] /= "idle"
                          /\ AllOk(1..(main.next - 1)) /\ Idle((main.next + 1)..2)
  /\ Returned => \/ main.err = NoError /\ AllOk({1, 2})
                 \/ main.err = InvalidChoice /\ AllOk({1}) /\ Idle({2})
                 \/ main.err = 1 /\ act[1] = "failed" /\ Idle({2})
                 \/ main.err = 2 /\ AllOk({1}) /\ act[2] = "failed"

BasketOK ==
  /\ main.at \in {"start", "await", "collect", "returned"}
  /\ main.at = "await" => act[1] /= "idle" /\ Idle(2..MaxSteps)
  /\ Returned => main.err \in {NoError, InvalidChoice} \/ (main.err = 1 /\ act[1] = "failed")

ResultsOK ==
  /\ main.at \in {"start", "await", "returned"}
  /\ main.taken \subseteq Steps /\ AllOk(main.taken)
  /\ Returned => IF main.err = NoError THEN main.taken = Steps
                 ELSE main.err \in Steps /\ act[main.err] = "failed"

FirstOK ==
  /\ main.at \in {"start", "await", "collect", "returned"} /\ main.err = NoError
  /\ main.at = "await" => main.result = 0
  /\ main.result /= 0 => main.result \in Steps /\ act[main.result] = "ok"
  /\ Returned => \A a \in Steps : Ready(a)

ParallelOK ==
  /\ main.at \in {"start", "await", "parallel", "returned"}
  /\ main.at = "await" => \/ main.next = 1 /\ act[1] /= "idle" /\ Idle(2..MaxSteps) /\ main.taken = {}
                              /\ \A b \in Branches : main.branch[b] = 1
                          \/ main.next = 6 /\ AllOk(1..5) /\ act[6] /= "idle"
  /\ main.at = "parallel" =>
       /\ AllOk({1}) /\ Idle({6}) /\ main.taken \subseteq Branches
       /\ \A b \in Branches :
            \/ main.branch[b] = 1 /\ b \notin main.taken /\ act[2 * b] /= "idle" /\ act[2 * b + 1] = "idle"
            \/ main.branch[b] = 2 /\ act[2 * b] = "ok" /\ act[2 * b + 1] /= "idle"
               /\ (b \in main.taken => act[2 * b + 1] = "ok")
  /\ Returned => IF main.err = NoError THEN AllOk(Steps) ELSE main.err \in Steps /\ act[main.err] = "failed"

GoroutinesOK ==
  /\ main.at \in {"start", "await", "returned"} /\ main.taken \subseteq Branches
  /\ main.at \in {"await", "returned"} => \A b \in Branches :
       \/ main.branch[b] = 1 /\ b \notin main.taken /\ act[2 * b - 1] /= "idle" /\ act[2 * b] = "idle"
       \/ main.branch[b] = 2 /\ act[2 * b - 1] = "ok" /\ act[2 * b] /= "idle"
          /\ (b \in main.taken => act[2 * b] = "ok")
       \/ main.branch[b] = Dead /\ b \notin main.taken
  /\ Returned => IF main.err = NoError THEN main.taken = Branches
                 ELSE main.err \in Steps /\ act[main.err] = "failed"

TimerOK ==
  /\ main.at \in {"start", "await", "returned"} /\ main.err = NoError
  /\ main.at = "await" => act[1] /= "idle" /\ main.next \in {1, 2}
  /\ main.at = "await" /\ main.next = 1 => act[2] = "idle" \/ Ready(2)
  /\ Returned => Ready(1) /\ (act[2] = "idle" \/ Ready(2))

SagaOK ==
  /\ main.at \in {"start", "await", "undo", "returned"} /\ act[3] /= "ok"
  /\ main.at = "await" => /\ main.next \in 1..3 /\ act[main.next] /= "idle"
                          /\ AllOk(1..(main.next - 1)) /\ Idle((main.next + 1)..5)
  /\ main.at \in {"undo", "returned"} =>
       main.err \in 1..3 /\ act[main.err] = "failed" /\ AllOk(1..(main.err - 1)) /\ Idle((main.err + 1)..3)
  /\ main.at = "undo" => \/ main.next = 2 /\ main.err = 3 /\ act[4] /= "idle" /\ act[5] = "idle"
                         \/ main.next = 1 /\ main.err = 3 /\ Ready(4) /\ act[5] /= "idle"
                         \/ main.next = 1 /\ main.err = 2 /\ act[4] = "idle" /\ act[5] /= "idle"
  /\ Returned => /\ IF main.err = 3 THEN Ready(4) ELSE act[4] = "idle"
                 /\ IF main.err = 1 THEN act[5] = "idle" ELSE Ready(5)

CleanupOK ==
  /\ main.at \in {"start", "await", "returned"} /\ act[1] /= "ok" /\ main.err \in {NoError, 1}
  /\ act[1] \in {"cancelling", "canceled", "abandoned"} => main.cancelled
  /\ main.at = "await" => \/ main.next = 1 /\ act[1] /= "idle" /\ act[2] = "idle"
                          \/ main.next = 2 /\ main.cancelled /\ main.err = 1 /\ Ready(1) /\ act[2] /= "idle"
  /\ Returned => Ready(1) /\ main.err = 1 /\ IF main.cancelled THEN Ready(2) ELSE act[2] = "idle"

RaceOK ==
  /\ main.at \in {"start", "await", "returned"} /\ main.taken \subseteq Steps
  /\ \A a \in Steps : act[a] /= "canceled" /\ (a \in main.taken => Ready(a))
  /\ IF main.taken = {} THEN \A a \in Steps : act[a] \notin {"cancelling", "abandoned"}
     ELSE \E a \in main.taken : act[a] \in {"ok", "failed"}
  /\ Returned => /\ main.taken = Steps
                 /\ IF main.err = NoError THEN main.result \in Steps /\ act[main.result] = "ok"
                    ELSE main.err \in Steps /\ act[main.err] = "failed"

IInv ==
  /\ TypeOK /\ CommonOK
  /\ Is("sequence") => SequenceOK
  /\ Is("choice") => ChoiceOK
  /\ Is("basket") => BasketOK
  /\ sample.kind \in {"ordered", "selector"} => ResultsOK
  /\ Is("first") => FirstOK
  /\ Is("parallel") => ParallelOK
  /\ Is("goroutines") => GoroutinesOK
  /\ Is("timer") => TimerOK
  /\ Is("saga") => SagaOK
  /\ Is("cleanup") => CleanupOK
  /\ Is("race") => RaceOK
===============================================================================
