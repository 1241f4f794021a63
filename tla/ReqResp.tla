------------------------------- MODULE ReqResp --------------------------------
(***************************************************************************)
(* The UppercaseWorkflow and Requester of reqrespactivity/, reqrespquery/  *)
(* and reqrespupdate/: requests to one workflow that never ends but        *)
(* continues as new, and three ways for the response to come back - an     *)
(* activity that runs at the requester, a query the requester polls with,  *)
(* or the update that carried the request.                                 *)
(*                                                                         *)
(* Each request is one call of RequestUppercase.  External: the server     *)
(* delivers signals and updates to the open run, runs and retries          *)
(* activities, and refuses to close a run over an event that run has not   *)
(* read.  What is still executing when a run closes goes unheard.          *)
(* HasPending is true when Select would not block; were it also true while *)
(* an activity executes, as a comment of the code has it, a run could do   *)
(* less than it can do here.                                               *)
(***************************************************************************)
EXTENDS Naturals, FiniteSets

CONSTANTS Requests,
          Limit,           \* requestsBeforeContinueAsNew
          MaxAttempts      \* of a response activity

ASSUME RequestsAssumption == IsFiniteSet(Requests)
ASSUME LimitAssumption == Limit \in Nat \ {0}
ASSUME AttemptsAssumption == MaxAttempts \in Nat \ {0}

VARIABLES
  delivery,        \* which of the three programs this is
  rejecting,       \* rejectUpdateOnPendingContinueAsNew
  caller,          \* where the call of RequestUppercase for each request is
  pending,         \* the keys of r.pendingRequests
  mailbox,         \* requests whose respCh is full
  open,            \* the workflow was not cancelled
  requestCount,    \* requestCount of the open run
  pendingUpdates,  \* pendingUpdates of the open run
  responses,       \* u.responses of the last run
  stage,           \* how far the workflow is with each request
  outcome,         \* what the UppercaseActivity of each request came to
  attempts,        \* attempts of each response activity that the server started
  sending          \* those that have found the call's channel and not sent yet

mode == <<delivery, rejecting>>
callerVars == <<caller, pending, mailbox>>
runVars == <<open, requestCount, pendingUpdates, responses>>
serverVars == <<outcome, attempts, sending>>
vars == <<delivery, rejecting, caller, pending, mailbox, open, requestCount,
          pendingUpdates, responses, stage, outcome, attempts, sending>>

Stages == {"unsent", "buffered", "working", "resolved", "responding", "responded",
           "done", "rejected", "abandoned"}
InRun == {"buffered", "working", "resolved", "responding", "responded"}

TypeOK ==
  /\ delivery \in {"activity", "query", "update"}
  /\ rejecting \in BOOLEAN
  /\ caller \in [Requests -> {"idle", "asking", "waiting", "missed",
                              "ok", "error", "empty", "gaveUp"}]
  /\ pending \subseteq Requests
  /\ mailbox \subseteq Requests
  /\ open \in BOOLEAN
  /\ requestCount \in Nat
  /\ pendingUpdates \in Nat
  /\ responses \subseteq Requests
  /\ stage \in [Requests -> Stages]
  /\ outcome \in [Requests -> {"none", "ok", "error"}]
  /\ attempts \in [Requests -> 0 .. MaxAttempts]
  /\ sending \in [Requests -> Nat]

Init ==
  /\ delivery \in {"activity", "query", "update"}
  /\ rejecting \in (IF delivery = "update" THEN BOOLEAN ELSE {FALSE})
  /\ caller = [r \in Requests |-> "idle"]
  /\ pending = {} /\ mailbox = {}
  /\ open = TRUE
  /\ requestCount = 0 /\ pendingUpdates = 0
  /\ responses = {}
  /\ stage = [r \in Requests |-> "unsent"]
  /\ outcome = [r \in Requests |-> "none"]
  /\ attempts = [r \in Requests |-> 0]
  /\ sending = [r \in Requests |-> 0]
------------------------------------------------------------------------------
(***************************************************************************)
(* RequestUppercase.                                                       *)
(***************************************************************************)

\* Mutant of Return: the pending request stays.
ReturnOnly(r, how) ==
  /\ caller' = [caller EXCEPT ![r] = how]
  /\ UNCHANGED pending

\* The call returns; its deferred function removes the pending request.
Return(r, how) ==
  /\ caller' = [caller EXCEPT ![r] = how]
  /\ pending' = pending \ {r}

\* The call is made and, where a response activity will look for it, recorded.
Ask(r) ==
  /\ caller[r] = "idle"
  /\ caller' = [caller EXCEPT ![r] = "asking"]
  /\ pending' = IF delivery = "activity" THEN pending \cup {r} ELSE pending
  /\ UNCHANGED <<mode, mailbox, runVars, stage, serverVars>>

\* SignalWorkflow succeeds.
SendSignal(r) ==
  /\ delivery # "update"
  /\ caller[r] = "asking"
  /\ open
  /\ caller' = [caller EXCEPT ![r] = "waiting"]
  /\ stage' = [stage EXCEPT ![r] = "buffered"]
  /\ UNCHANGED <<mode, pending, mailbox, runVars, serverVars>>

\* SignalWorkflow fails, or UpdateWorkflow at any time before its response; the
\* signal may be delivered all the same.
SendFails(r) ==
  /\ caller[r] = "asking" \/ (delivery = "update" /\ caller[r] = "waiting")
  /\ Return(r, "error")
  /\ \/ UNCHANGED stage
     \/ /\ delivery # "update" /\ open
        /\ stage' = [stage EXCEPT ![r] = "buffered"]
  /\ UNCHANGED <<mode, mailbox, runVars, serverVars>>

\* ctx is cancelled while the call waits.
GiveUp(r) ==
  /\ caller[r] \in {"asking", "waiting", "missed"}
  /\ Return(r, "gaveUp")
  /\ UNCHANGED <<mode, mailbox, runVars, stage, serverVars>>

\* A response is in respCh.
ReceiveResponse(r) ==
  /\ caller[r] = "waiting"
  /\ r \in mailbox
  /\ Return(r, outcome[r])
  /\ mailbox' = mailbox \ {r}
  /\ UNCHANGED <<mode, runVars, stage, serverVars>>

\* Mutant of PollHit: any response will do.
PollAny(r) ==
  /\ delivery = "query"
  /\ caller[r] \in {"waiting", "missed"}
  /\ \E q \in responses : Return(r, outcome[q])
  /\ UNCHANGED <<mode, mailbox, runVars, stage, serverVars>>

\* A query finds the response, in the open run or in the one that was cancelled.
PollHit(r) ==
  /\ delivery = "query"
  /\ caller[r] \in {"waiting", "missed"}
  /\ r \in responses
  /\ Return(r, outcome[r])
  /\ UNCHANGED <<mode, mailbox, runVars, stage, serverVars>>

\* A query succeeds and has no response: the loop waits for the next tick.
PollMiss(r) ==
  /\ delivery = "query"
  /\ caller[r] = "waiting"
  /\ r \notin responses
  /\ caller' = [caller EXCEPT ![r] = "missed"]
  /\ UNCHANGED <<mode, pending, mailbox, runVars, stage, serverVars>>

\* ResponseTimeout is over.  The call fails with the error of its last query; if that
\* query had none it returns no output and ctx.Err(), which is nil.
PollTimeout(r) ==
  /\ delivery = "query"
  /\ \/ caller[r] \in {"waiting", "missed"} /\ Return(r, "error")
     \/ caller[r] = "missed" /\ Return(r, "empty")
  /\ UNCHANGED <<mode, mailbox, runVars, stage, serverVars>>

\* The update was rejected, is over, or was in a run that was cancelled.
UpdateReturns(r) ==
  /\ delivery = "update"
  /\ caller[r] = "waiting"
  /\ \/ stage[r] \in {"rejected", "abandoned"} /\ Return(r, "error")
     \/ stage[r] = "done" /\ Return(r, outcome[r])
  /\ UNCHANGED <<mode, mailbox, runVars, stage, serverVars>>
------------------------------------------------------------------------------
(***************************************************************************)
(* UppercaseWorkflow behind signals: the selector loop of run.             *)
(***************************************************************************)

SignalRun == open /\ delivery # "update"

\* The selector takes a request and starts its UppercaseActivity.
ReceiveRequest(r) ==
  /\ SignalRun
  /\ stage[r] = "buffered"
  /\ stage' = [stage EXCEPT ![r] = "working"]
  /\ requestCount' = requestCount + 1
  /\ UNCHANGED <<mode, callerVars, open, pendingUpdates, responses, serverVars>>

\* The selector takes the result, and the response activity is started.
SendResponse(r) ==
  /\ SignalRun
  /\ delivery = "activity"
  /\ stage[r] = "resolved"
  /\ stage' = [stage EXCEPT ![r] = "responding"]
  /\ UNCHANGED <<mode, callerVars, runVars, serverVars>>

\* The selector takes the result, which is kept for queries.
KeepResponse(r) ==
  /\ SignalRun
  /\ delivery = "query"
  /\ stage[r] = "resolved"
  /\ responses' = responses \cup {r}
  /\ stage' = [stage EXCEPT ![r] = "done"]
  /\ UNCHANGED <<mode, callerVars, open, requestCount, pendingUpdates, serverVars>>

\* The selector takes the end of the response activity.
ResponseOver(r) ==
  /\ SignalRun
  /\ stage[r] = "responded"
  /\ stage' = [stage EXCEPT ![r] = "done"]
  /\ UNCHANGED <<mode, callerVars, runVars, serverVars>>

\* Mutant of HasPending: only the signals are looked at.
SignalsPending == \E r \in Requests : stage[r] = "buffered"

HasPending == \E r \in Requests : stage[r] \in {"buffered", "resolved", "responded"}

\* The run closes, and nobody will hear of what it had under way.
Abandoned == [r \in Requests |-> IF stage[r] \in InRun THEN "abandoned" ELSE stage[r]]

NextRun ==
  /\ requestCount' = 0
  /\ pendingUpdates' = 0
  /\ responses' = {}
  /\ stage' = Abandoned
  /\ UNCHANGED <<mode, callerVars, open, serverVars>>

ContinueAsNew ==
  /\ SignalRun
  /\ requestCount >= Limit
  /\ ~HasPending
  /\ NextRun

\* The workflow is cancelled and its run returns.
Cancel ==
  /\ open
  /\ open' = FALSE
  /\ stage' = Abandoned
  /\ UNCHANGED <<mode, callerVars, requestCount, pendingUpdates, responses, serverVars>>
------------------------------------------------------------------------------
(***************************************************************************)
(* UppercaseWorkflow behind updates.                                       *)
(***************************************************************************)

UpdateRun == open /\ delivery = "update"

\* Mutant of Validator: one request too many.
ValidatorOffByOne == rejecting => requestCount <= Limit

Validator == rejecting => requestCount < Limit

\* An update reaches the run: its handler counts it and starts the UppercaseActivity.
AcceptUpdate(r) ==
  /\ UpdateRun
  /\ caller[r] = "asking"
  /\ Validator
  /\ caller' = [caller EXCEPT ![r] = "waiting"]
  /\ requestCount' = requestCount + 1
  /\ pendingUpdates' = pendingUpdates + 1
  /\ stage' = [stage EXCEPT ![r] = "working"]
  /\ UNCHANGED <<mode, pending, mailbox, open, responses, serverVars>>

\* ErrBackoff.
RejectUpdate(r) ==
  /\ UpdateRun
  /\ caller[r] = "asking"
  /\ ~Validator
  /\ caller' = [caller EXCEPT ![r] = "waiting"]
  /\ stage' = [stage EXCEPT ![r] = "rejected"]
  /\ UNCHANGED <<mode, pending, mailbox, runVars, serverVars>>

\* Mutant of FinishUpdate: a handler that fails is not counted as over.
FinishGoodUpdate(r) ==
  /\ UpdateRun
  /\ stage[r] = "resolved"
  /\ pendingUpdates' = IF outcome[r] = "ok" THEN pendingUpdates - 1 ELSE pendingUpdates
  /\ stage' = [stage EXCEPT ![r] = "done"]
  /\ UNCHANGED <<mode, callerVars, open, requestCount, responses, serverVars>>

\* The handler has its result and returns.
FinishUpdate(r) ==
  /\ UpdateRun
  /\ stage[r] = "resolved"
  /\ pendingUpdates' = pendingUpdates - 1
  /\ stage' = [stage EXCEPT ![r] = "done"]
  /\ UNCHANGED <<mode, callerVars, open, requestCount, responses, serverVars>>

\* Mutant of NoUpdatePending: the updates under way are not waited for.
NoUpdateAwaited == TRUE

NoUpdatePending == pendingUpdates = 0

\* The main coroutine's Await returns.
ContinueAsNewWithUpdates ==
  /\ UpdateRun
  /\ requestCount >= Limit
  /\ NoUpdatePending
  /\ NextRun
------------------------------------------------------------------------------
(***************************************************************************)
(* Activities.                                                             *)
(***************************************************************************)

\* External: UppercaseActivity, with its retries, is over; the run is told if open.
Uppercase(r) ==
  /\ stage[r] = "working"
  /\ \E result \in {"ok", "error"} : outcome' = [outcome EXCEPT ![r] = result]
  /\ stage' = [stage EXCEPT ![r] = "resolved"]
  /\ UNCHANGED <<mode, callerVars, runVars, attempts, sending>>

\* The run hears that the response activity is over, unless the completion is lost or
\* the run is over too.
Report(r) ==
  \/ UNCHANGED stage
  \/ stage[r] = "responding" /\ stage' = [stage EXCEPT ![r] = "responded"]

\* The server starts an attempt at the requester, perhaps because the result of the
\* last one is late, and responseActivity looks for the call's channel: a call that
\* has returned has none.
StartAttempt(r) ==
  /\ stage[r] = "responding"
  /\ attempts[r] < MaxAttempts
  /\ attempts' = [attempts EXCEPT ![r] = @ + 1]
  /\ IF r \in pending
     THEN sending' = [sending EXCEPT ![r] = @ + 1] /\ UNCHANGED stage
     ELSE UNCHANGED sending /\ Report(r)
  /\ UNCHANGED <<mode, callerVars, runVars, outcome>>

\* Mutant of Respond: the send waits for room in the channel.
RespondWaiting(r) ==
  /\ sending[r] > 0
  /\ r \notin mailbox
  /\ sending' = [sending EXCEPT ![r] = @ - 1]
  /\ mailbox' = mailbox \cup {r}
  /\ Report(r)
  /\ UNCHANGED <<mode, caller, pending, runVars, outcome, attempts>>

\* The send does not block: in a channel that is full the response is dropped.
Respond(r) ==
  /\ sending[r] > 0
  /\ sending' = [sending EXCEPT ![r] = @ - 1]
  /\ mailbox' = mailbox \cup {r}
  /\ Report(r)
  /\ UNCHANGED <<mode, caller, pending, runVars, outcome, attempts>>

\* External: the response activity times out.
ResponseTimesOut(r) ==
  /\ stage[r] = "responding"
  /\ stage' = [stage EXCEPT ![r] = "responded"]
  /\ UNCHANGED <<mode, callerVars, runVars, serverVars>>
------------------------------------------------------------------------------
CallerStep(r) ==
  ReceiveResponse(r) \/ PollHit(r) \/ PollMiss(r) \/ PollTimeout(r) \/ UpdateReturns(r)

RunStep ==
  \/ \E r \in Requests : ReceiveRequest(r) \/ SendResponse(r) \/ KeepResponse(r) \/ ResponseOver(r)
  \/ ContinueAsNew

UpdateStep ==
  \/ \E r \in Requests : FinishUpdate(r)
  \/ ContinueAsNewWithUpdates

ActivityStep(r) == Uppercase(r) \/ ResponseTimesOut(r)

Next ==
  \/ \E r \in Requests : \/ Ask(r) \/ SendSignal(r) \/ SendFails(r) \/ GiveUp(r)
                         \/ AcceptUpdate(r) \/ RejectUpdate(r) \/ StartAttempt(r)
                         \/ CallerStep(r) \/ Respond(r) \/ ActivityStep(r)
  \/ RunStep \/ UpdateStep \/ Cancel

Spec == Init /\ [][Next]_vars

\* The workflow and the processes that run activities and calls go on; nobody has to
\* call, cancel or give up, and the server may start no further attempt.
FairSpec ==
  /\ Spec
  /\ WF_vars(RunStep) /\ WF_vars(UpdateStep)
  /\ \A r \in Requests :
       WF_vars(CallerStep(r)) /\ WF_vars(Respond(r)) /\ WF_vars(ActivityStep(r))
------------------------------------------------------------------------------
(***************************************************************************)
(* Properties.                                                             *)
(***************************************************************************)

Waiting == {r \in Requests : caller[r] \in {"asking", "waiting", "missed"}}

\* pendingRequests holds the calls that wait, however the others returned, and the
\* open run's pendingUpdates is the number of handlers that have not returned.
Bookkeeping ==
  /\ pending = IF delivery = "activity" THEN Waiting ELSE {}
  /\ open /\ delivery = "update" =>
       pendingUpdates = Cardinality({r \in Requests : stage[r] \in InRun})

\* A call that has sent nothing has no request in the workflow.
Unsent == \A r \in Requests : caller[r] \in {"idle", "asking"} => stage[r] = "unsent"

\* There is an outcome exactly where the UppercaseActivity is over; a run's responses,
\* and those on their way to a call, have one.
Computed ==
  \A r \in Requests :
    /\ stage[r] \in {"unsent", "buffered", "working", "rejected"} => outcome[r] = "none"
    /\ stage[r] \in {"resolved", "responding", "responded", "done"} => outcome[r] # "none"
    /\ r \in responses \cup mailbox \/ sending[r] > 0 => outcome[r] # "none"

\* The inductive invariant.
IInv ==
  /\ TypeOK
  /\ rejecting => delivery = "update"
  /\ Bookkeeping
  /\ Unsent
  /\ Computed

\* The updatable run never takes more than Limit updates when it rejects those that
\* come while it waits to continue as new (reqrespupdate/workflow.go:86, and
\* workflow_test.go).
RunBounded == rejecting => requestCount <= Limit

\* No run leaves behind a request it could hear of - a signal in its channel, a result
\* or a response that is there - nor, behind updates, any request at all.
NothingLeftBehind ==
  [][open' => \A r \in Requests :
       stage[r] \in InRun /\ stage'[r] = "abandoned"
         => delivery # "update" /\ stage[r] \in {"working", "responding"}]_vars

R == INSTANCE Rpc WITH
       call <- [r \in Requests |->
                 CASE caller[r] = "idle" -> "idle"
                   [] caller[r] \in {"asking", "waiting", "missed"} -> "open"
                   [] caller[r] = "ok" -> "ok"
                   [] OTHER -> "failed"],
       result <- outcome

\* Every delivery implements the same promise: a call ends once, with the result of
\* its own request or without one.
ImplementsRpc == R!Spec

\* A call that polls or waits for an update returns; an attempt of the response
\* activity always ends; and a call that has its response takes it.
CallsEnd ==
  \A r \in Requests :
    /\ (delivery # "activity" /\ caller[r] \in {"waiting", "missed"})
         ~> caller[r] \in {"ok", "error", "empty", "gaveUp"}
    /\ sending[r] > 0 ~> sending[r] = 0
    /\ (r \in mailbox /\ caller[r] = "waiting") ~> caller[r] # "waiting"

\* A run that rejects updates once it has enough does continue as new, or is cancelled.
RunEnds == (rejecting /\ requestCount >= Limit) ~> (requestCount = 0 \/ ~open)

\* Of the comment on RequestUppercase: it "returns a response", or an error.
ResponseOrError == \A r \in Requests : caller[r] # "empty"
==============================================================================
