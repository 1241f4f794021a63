---------------------------- MODULE GreetingService ----------------------------
(* nexus-messaging: the GreetingWorkflow of a user behind a Nexus service, and the  *)
(* workflows that call it. The handlers of the two patterns are the same code: in   *)
(* "caller" a worker starts the workflow of one user when it boots, in "ondemand"   *)
(* the calling workflow starts those of two users by an operation. An attempt of an *)
(* operation may take effect and its answer be lost; the server then repeats it.    *)
EXTENDS Naturals, Sequences

CONSTANTS MaxLost,      \* answers a caller may lose
          MaxRuns       \* runs of one GreetingWorkflow

VARIABLES pattern,      \* "caller" or "ondemand"
          flow,         \* per user, its GreetingWorkflow
          update,       \* per attempt of setLanguage, its handler and the language it replaces
          caller,       \* per calling workflow: its step (0: failed), the answers it lost, the runs it started
          changes       \* per user, the languages <<replaced, set>> of this run (history)

vars == <<pattern, flow, update, caller, changes>>

Users == {1, 2}
Callers == {"first", "second"}
Updates == Callers \X Users \X (0..MaxLost)   \* a program sets the language of a user once
initialGreetings == {"Chinese", "English"}
allLanguages == initialGreetings \union {"Arabic", "French", "Spanish"}

Fresh(run) == [status |-> "open", run |-> run, language |-> "English",
               greetings |-> initialGreetings, approved |-> FALSE, lock |-> <<>>]
Absent == [Fresh(0) EXCEPT !.status = "absent"]
Ask(op, user, language) == [op |-> op, user |-> user, language |-> language]

CallerRemoteWorkflow ==
  << Ask("start", 0, ""), Ask("languages", 1, ""), Ask("languages", 2, ""),
     Ask("set", 1, "French"), Ask("set", 2, "Spanish"), Ask("get", 1, ""), Ask("get", 2, ""),
     Ask("approve", 1, ""), Ask("approve", 2, ""), Ask("result", 1, ""), Ask("result", 2, "") >>

(* Its user is the one the worker started; it expects the language it has set. *)
CallerWorkflow ==
  << Ask("languages", 1, ""), Ask("set", 1, "Arabic"), Ask("get", 1, "Arabic"), Ask("approve", 1, "") >>

Program == IF pattern = "caller" THEN CallerWorkflow ELSE CallerRemoteWorkflow
Running(c) == caller[c].step \in 1..Len(Program)
Asks(c, op) == Running(c) /\ Program[caller[c].step].op = op
Asked(c) == Program[caller[c].step]
Attempt(c) == <<c, Asked(c).user, caller[c].lost>>
New(k) == Program[CHOOSE i \in 1..Len(Program) : Program[i].op = "set" /\ Program[i].user = k[2]].language
NotYet == 0
Refused == MaxRuns + 1

Init ==
  /\ pattern \in {"caller", "ondemand"}
  /\ flow = [u \in Users |-> Absent]
  /\ update = [k \in Updates |-> [at |-> "none", prev |-> "English"]]
  /\ caller = [c \in Callers |-> [step |-> 1, lost |-> 0, started |-> [u \in Users |-> NotYet]]]
  /\ changes = [u \in Users |-> <<>>]

StartWorkflow(u) ==
  /\ flow[u].run < MaxRuns
  /\ flow' = [flow EXCEPT ![u] = Fresh(@.run + 1)]
  /\ changes' = [changes EXCEPT ![u] = <<>>]

(* The worker boots: an open workflow is used as it is. *)
BootWorker ==
  /\ pattern = "caller"
  /\ flow[1].status /= "open"
  /\ StartWorkflow(1)
  /\ UNCHANGED <<pattern, update, caller>>

(* The operation ends: the caller goes on, fails, or does not hear of it. *)
Advance(c) == caller' = [caller EXCEPT ![c].step = @ + 1]
Fail(c) == caller' = [caller EXCEPT ![c].step = 0]
AnswerLost(c) == /\ caller[c].lost < MaxLost
                 /\ caller' = [caller EXCEPT ![c].lost = @ + 1]

(* Both start operations are under way at once; a workflow that is open is not      *)
(* started again by another request, and that fails the caller.                     *)
RunFromRemote(c, u) ==
  /\ Asks(c, "start")
  /\ caller[c].started[u] = NotYet
  /\ IF flow[u].status = "open"
     THEN /\ caller' = [caller EXCEPT ![c].started[u] = Refused]
          /\ UNCHANGED <<flow, changes>>
     ELSE /\ StartWorkflow(u)
          /\ caller' = [caller EXCEPT ![c].started[u] = flow[u].run + 1]
  /\ UNCHANGED <<pattern, update>>

BothStarted(c) ==
  /\ Asks(c, "start")
  /\ \A u \in Users : caller[c].started[u] /= NotYet
  /\ IF \E u \in Users : caller[c].started[u] = Refused THEN Fail(c) ELSE Advance(c)
  /\ UNCHANGED <<pattern, flow, update, changes>>

(* A query finds a workflow that is over, too. *)
GetLanguages(c) ==
  /\ Asks(c, "languages")
  /\ IF flow[Asked(c).user].status = "absent" THEN Fail(c) ELSE Advance(c)
  /\ UNCHANGED <<pattern, flow, update, changes>>

GetLanguage(c) ==
  /\ Asks(c, "get")
  /\ LET user == flow[Asked(c).user]
     IN IF user.status = "absent" \/ (Asked(c).language /= "" /\ user.language /= Asked(c).language)
        THEN Fail(c)
        ELSE Advance(c)
  /\ UNCHANGED <<pattern, flow, update, changes>>

(* An update is accepted by an open workflow only; the validator lets these         *)
(* languages pass. The same attempt is not sent twice.                              *)
SetLanguage(c) ==
  /\ Asks(c, "set")
  /\ update[Attempt(c)].at = "none"
  /\ IF flow[Asked(c).user].status = "open"
     THEN /\ update' = [update EXCEPT ![Attempt(c)].at = "locking"]
          /\ UNCHANGED caller
     ELSE Fail(c) /\ UNCHANGED update
  /\ UNCHANGED <<pattern, flow, changes>>

RetrySetLanguage(c) ==
  /\ Asks(c, "set")
  /\ update[Attempt(c)].at /= "none"
  /\ AnswerLost(c)
  /\ UNCHANGED <<pattern, flow, update, changes>>

(* Whatever older attempts are still at, the answer is that of the last one. *)
GetUpdateResult(c) ==
  /\ Asks(c, "set")
  /\ update[Attempt(c)].at \in {"done", "failed"}
  /\ IF update[Attempt(c)].at = "done" THEN Advance(c) ELSE Fail(c)
  /\ UNCHANGED <<pattern, flow, update, changes>>

Approve(c) ==
  /\ Asks(c, "approve")
  /\ IF flow[Asked(c).user].status = "open"
     THEN /\ flow' = [flow EXCEPT ![Asked(c).user].approved = TRUE]
          /\ Advance(c) \/ AnswerLost(c)
     ELSE Fail(c) /\ UNCHANGED flow
  /\ UNCHANGED <<pattern, update, changes>>

GetResult(c) ==
  /\ Asks(c, "result")
  /\ LET user == flow[Asked(c).user]
     IN user.status = "closed" \/ user.run > caller[c].started[Asked(c).user]
  /\ Advance(c)
  /\ UNCHANGED <<pattern, flow, update, changes>>

----------------------------------------------------------------------------
(* The workflow: handlers of setLanguage, and the main coroutine. *)

(* Mutant of Free: the handler does not wait for lock. *)
FreeAlways(u) == TRUE

Free(u) == flow[u].lock = <<>>

(* The language that lock protects is read, and replaced unless its greeting is     *)
(* still to be fetched.                                                             *)
Locked(k) ==
  LET u == k[2] IN
  /\ update[k].at = "locking"
  /\ Free(u)
  /\ IF New(k) \in flow[u].greetings
     THEN /\ flow' = [flow EXCEPT ![u].language = New(k)]
          /\ update' = [update EXCEPT ![k] = [at |-> "done", prev |-> flow[u].language]]
          /\ changes' = [changes EXCEPT ![u] = Append(@, <<flow[u].language, New(k)>>)]
     ELSE /\ flow' = [flow EXCEPT ![u].lock = k]
          /\ update' = [update EXCEPT ![k] = [at |-> "fetching", prev |-> flow[u].language]]
          /\ UNCHANGED changes
  /\ UNCHANGED <<pattern, caller>>

GreetingsFetched(k) ==
  LET u == k[2] IN
  /\ update[k].at = "fetching"
  /\ flow' = [flow EXCEPT ![u] = [@ EXCEPT !.greetings = allLanguages, !.language = New(k), !.lock = <<>>]]
  /\ update' = [update EXCEPT ![k].at = "done"]
  /\ changes' = [changes EXCEPT ![u] = Append(@, <<update[k].prev, New(k)>>)]
  /\ UNCHANGED <<pattern, caller>>

(* The third attempt of the activity has failed; the deferred Unlock runs. *)
GreetingActivityFails(k) ==
  /\ update[k].at = "fetching"
  /\ flow' = [flow EXCEPT ![k[2]].lock = <<>>]
  /\ update' = [update EXCEPT ![k].at = "failed"]
  /\ UNCHANGED <<pattern, caller, changes>>

(* Mutant of AllHandlersFinished: approval alone ends the workflow. *)
AllHandlersFinishedAlways(u) == TRUE

AllHandlersFinished(u) ==
  \A k \in Updates : update[k].at \in {"locking", "fetching"} => k[2] /= u

GreetingWorkflowReturns(u) ==
  /\ flow[u].status = "open"
  /\ flow[u].approved
  /\ AllHandlersFinished(u)
  /\ flow' = [flow EXCEPT ![u].status = "closed"]
  /\ UNCHANGED <<pattern, update, caller, changes>>

----------------------------------------------------------------------------
Operation(c) ==
  \/ \E u \in Users : RunFromRemote(c, u)
  \/ BothStarted(c) \/ GetLanguages(c) \/ GetLanguage(c) \/ SetLanguage(c)
  \/ GetUpdateResult(c) \/ Approve(c) \/ GetResult(c)
Handler(k) == Locked(k) \/ GreetingsFetched(k) \/ GreetingActivityFails(k)

Progress ==
  \/ \E c \in Callers : Operation(c)
  \/ \E k \in Updates : Handler(k)
  \/ \E u \in Users : GreetingWorkflowReturns(u)
Next == Progress \/ BootWorker \/ \E c \in Callers : RetrySetLanguage(c)

----------------------------------------------------------------------------
(* The answers of one run form a chain: each change answers the language that the   *)
(* change before it has set, and the last of them is what the run greets in.        *)
SwapsChained ==
  \A u \in Users :
    /\ \A i \in 1..Len(changes[u]) : changes[u][i][1] = IF i = 1 THEN "English" ELSE changes[u][i - 1][2]
    /\ flow[u].language = IF changes[u] = <<>> THEN "English" ELSE changes[u][Len(changes[u])][2]
    /\ flow[u].language \in flow[u].greetings

(* No handler is left in a workflow that has returned: each accepted update gets    *)
(* an answer.                                                                       *)
AcceptedAnswered ==
  \A k \in Updates : update[k].at \in {"locking", "fetching"} => flow[k[2]].status = "open"

(* A caller ends, done or failed, unless it waits for a workflow of which somebody  *)
(* else has eaten the approval or which nobody has started.                         *)
CallersEnd == \A c \in Callers : ~Running(c)

(* The inductive invariant: who fetches a greeting holds lock, and the language it has    *)
(* read is still the one to be replaced.                                                 *)
Sizes == MaxLost \in Nat /\ MaxRuns \in Nat

TypeOK ==
  /\ pattern \in {"caller", "ondemand"}
  /\ flow \in [Users -> [status : {"absent", "open", "closed"}, run : Nat, language : allLanguages,
                         greetings : {initialGreetings, allLanguages}, approved : BOOLEAN,
                         lock : {<<>>} \union Updates]]
  /\ update \in [Updates -> [at : {"none", "locking", "fetching", "done", "failed"}, prev : allLanguages]]
  /\ caller \in [Callers -> [step : Nat, lost : 0..MaxLost, started : [Users -> Nat]]]
  /\ changes \in [Users -> Seq(allLanguages \X allLanguages)]

Fetching(k) ==
  update[k].at = "fetching" => flow[k[2]].lock = k /\ update[k].prev = flow[k[2]].language

IInv ==
  /\ TypeOK /\ SwapsChained /\ AcceptedAnswered
  /\ \A k \in Updates : Fetching(k) /\ (update[k].at /= "none" => New(k) \in allLanguages)
================================================================================
