------------------------------- MODULE Expense --------------------------------
(***************************************************************************)
(* One expense of expense/: SampleExpenseWorkflow, its three activities,   *)
(* and the expense server that people approve or reject it on.  The server *)
(* keeps its maps without a lock, and its handlers run concurrently: each  *)
(* access to a map is a step of its own.                                   *)
(*                                                                         *)
(* External: activities are retried without end.  At most MaxFaults times  *)
(* an attempt times out (the handler it called goes on) or its answer is   *)
(* lost, CompleteActivity fails, or the server stops and is started again  *)
(* with empty maps.                                                        *)
(***************************************************************************)
EXTENDS Naturals, FiniteSets

CONSTANTS Decisions,      \* requests to /action that people make
          MaxFaults       \* what goes wrong, in all

ASSUME BoundsAssumption == MaxFaults \in Nat

ASSUME DecisionsAssumption == Decisions \cap Nat = {}

VARIABLES
  allExpense,    \* allExpense[id], "none" if there is none
  tokenMap,      \* the attempt whose token is tokenMap[id], 0 if there is none
  creating,      \* attempts whose createHandler has found no expense and not written yet
  registering,   \* attempts whose callbackHandler has found CREATED and not stored yet
  pc,            \* where the actionHandler of each request is
  type,          \* its actionType
  oldState,      \* its oldState
  reported,      \* the state it has read to report
  token,         \* the token it has found to report it with
  creates,       \* attempts of CreateExpenseActivity that found no expense
  attempts,      \* attempts of WaitForDecisionActivity that found the expense CREATED
  waiting,       \* the one that waits for its completion, 0 if none does
  payments,      \* attempts of PaymentActivity that found the expense
  step,          \* the activity that the workflow is waiting for
  status,        \* status: what WaitForDecisionActivity was completed with
  faults         \* what has gone wrong so far

serverVars == <<allExpense, tokenMap, creating, registering>>
handlerVars == <<pc, type, oldState, reported, token>>
workflowVars == <<creates, attempts, waiting, payments, step, status>>
vars == <<serverVars, handlerVars, workflowVars, faults>>

Attempts == 1 .. MaxFaults + 1

\* Requests to /action: of people, and of the attempts of PaymentActivity.
Requests == Decisions \cup Attempts

States == {"CREATED", "APPROVED", "REJECTED", "COMPLETED"}

TypeOK ==
  /\ allExpense \in States \cup {"none"}
  /\ tokenMap \in Attempts \cup {0}
  /\ creating \subseteq Attempts
  /\ registering \subseteq Attempts
  /\ pc \in [Requests -> {"idle", "write", "check", "recheck", "report", "lookup", "notify", "over", "gone"}]
  /\ type \in [Requests -> {"approve", "reject", "payment"}]
  /\ oldState \in [Requests -> States \cup {"none"}]
  /\ reported \in [Requests -> States \cup {"none"}]
  /\ token \in [Requests -> Attempts \cup {0}]
  /\ creates \in Attempts \cup {0}
  /\ attempts \in Attempts \cup {0}
  /\ waiting \in Attempts \cup {0}
  /\ payments \in Attempts \cup {0}
  /\ step \in {"create", "wait", "pay", "completed", "ended"}
  /\ status \in States \cup {"none"}
  /\ faults \in 0 .. MaxFaults

Init ==
  /\ allExpense = "none"
  /\ tokenMap = 0
  /\ creating = {} /\ registering = {}
  /\ pc = [r \in Requests |-> "idle"]
  /\ type \in {t \in [Requests -> {"approve", "reject", "payment"}] :
                 \A r \in Requests : t[r] = "payment" <=> r \in Attempts}
  /\ oldState = [r \in Requests |-> "none"]
  /\ reported = [r \in Requests |-> "none"]
  /\ token = [r \in Requests |-> 0]
  /\ creates = 0 /\ attempts = 0 /\ waiting = 0 /\ payments = 0
  /\ step = "create"
  /\ status = "none"
  /\ faults = 0

Fault == faults < MaxFaults /\ faults' = faults + 1

NoFault == UNCHANGED faults
------------------------------------------------------------------------------
(***************************************************************************)
(* The expense server: actionHandler, statement by statement.              *)
(***************************************************************************)

\* The expense is looked up.
ReadState(r) ==
  /\ pc[r] = "idle"
  /\ oldState' = [oldState EXCEPT ![r] = allExpense]
  /\ pc' = [pc EXCEPT ![r] = IF allExpense = "none" THEN "gone" ELSE "write"]
  /\ UNCHANGED <<serverVars, type, reported, token>>

\* Mutant of NewState: reject falls through to approve.
NewStateFallsThrough(r) == IF type[r] = "payment" THEN "COMPLETED" ELSE "APPROVED"

NewState(r) ==
  CASE type[r] = "approve" -> "APPROVED"
    [] type[r] = "reject" -> "REJECTED"
    [] type[r] = "payment" -> "COMPLETED"

WriteState(r) ==
  /\ pc[r] = "write"
  /\ allExpense' = NewState(r)
  /\ pc' = [pc EXCEPT ![r] = "check"]
  /\ UNCHANGED <<tokenMap, creating, registering, type, oldState, reported, token>>

\* Is there a change to report?  The condition reads the state for each of its
\* two comparisons: it may change in between.
CheckApproved(r) ==
  /\ pc[r] = "check"
  /\ pc' = [pc EXCEPT ![r] = IF oldState[r] # "CREATED" THEN "over"
                             ELSE IF allExpense = "APPROVED" THEN "report" ELSE "recheck"]
  /\ UNCHANGED <<serverVars, type, oldState, reported, token, workflowVars, faults>>

\* Mutant of CheckRejected: the second comparison repeats the first.
CheckRejectedForApproval(r) ==
  /\ pc[r] = "recheck"
  /\ pc' = [pc EXCEPT ![r] = IF allExpense = "APPROVED" THEN "report" ELSE "over"]
  /\ UNCHANGED <<serverVars, type, oldState, reported, token, workflowVars, faults>>

CheckRejected(r) ==
  /\ pc[r] = "recheck"
  /\ pc' = [pc EXCEPT ![r] = IF allExpense = "REJECTED" THEN "report" ELSE "over"]
  /\ UNCHANGED <<serverVars, type, oldState, reported, token, workflowVars, faults>>

\* The state is read again, to be reported.
ReadToReport(r) ==
  /\ pc[r] = "report"
  /\ reported' = [reported EXCEPT ![r] = allExpense]
  /\ pc' = [pc EXCEPT ![r] = "lookup"]
  /\ UNCHANGED <<serverVars, type, oldState, token, workflowVars, faults>>

\* notifyExpenseStateChange looks the token up.
LookUpToken(r) ==
  /\ pc[r] = "lookup"
  /\ token' = [token EXCEPT ![r] = tokenMap]
  /\ pc' = [pc EXCEPT ![r] = IF tokenMap = 0 THEN "over" ELSE "notify"]
  /\ UNCHANGED <<serverVars, type, oldState, reported, workflowVars, faults>>

\* Mutant of Told: the workflow goes on to the payment whatever the status is.
ToldAnything(state) == "pay"

\* What the workflow does with the status it is told.
Told(state) == IF state = "APPROVED" THEN "pay" ELSE "ended"

\* CompleteActivity completes the attempt that waits, if the token is its own.
Notify(r) ==
  /\ pc[r] = "notify"
  /\ pc' = [pc EXCEPT ![r] = "over"]
  /\ \/ /\ step = "wait" /\ token[r] = waiting
        /\ status' = reported[r]
        /\ step' = Told(reported[r])
        /\ waiting' = 0
        /\ NoFault
     \/ /\ step # "wait" \/ token[r] # waiting
        /\ UNCHANGED <<status, step, waiting>>
        /\ NoFault
     \/ /\ UNCHANGED <<status, step, waiting>>
        /\ Fault
  /\ UNCHANGED <<serverVars, type, oldState, reported, token, creates, attempts, payments>>

\* External: the server stops, and starts again with empty maps.
Restart ==
  /\ Fault
  /\ allExpense' = "none"
  /\ tokenMap' = 0
  /\ creating' = {} /\ registering' = {}
  /\ pc' = [r \in Requests |-> IF pc[r] \in {"idle", "over"} THEN pc[r]
                               ELSE IF pc[r] \in {"check", "recheck", "report", "lookup", "notify"} THEN "over"
                               ELSE "gone"]
  /\ waiting' = IF waiting \in registering THEN 0 ELSE waiting
  /\ UNCHANGED <<type, oldState, reported, token, creates, attempts, payments, step, status>>

\* A decision of people, up to the write.
Decide(d) ==
  /\ ReadState(d) \/ WriteState(d)
  /\ UNCHANGED <<workflowVars, faults>>

ActionHandler(r) ==
  CheckApproved(r) \/ CheckRejected(r) \/ ReadToReport(r) \/ LookUpToken(r) \/ Notify(r)
------------------------------------------------------------------------------
(***************************************************************************)
(* The workflow and its activities, with the handlers they call.           *)
(***************************************************************************)

\* An attempt of CreateExpenseActivity: createHandler finds no such expense.
FindNoExpense ==
  /\ step = "create"
  /\ allExpense = "none"
  /\ IF creates \in creating THEN Fault ELSE NoFault
  /\ creates' = creates + 1
  /\ creating' = creating \cup {creates'}
  /\ UNCHANGED <<allExpense, tokenMap, registering, handlerVars,
                 attempts, waiting, payments, step, status>>

\* createHandler writes the expense, and the answer reaches the workflow if
\* it is to its last attempt.
CreateExpense(c) ==
  /\ c \in creating
  /\ creating' = creating \ {c}
  /\ allExpense' = "CREATED"
  /\ IF step = "create" /\ c = creates
     THEN \/ step' = "wait" /\ NoFault
          \/ UNCHANGED step /\ Fault
     ELSE UNCHANGED step /\ NoFault
  /\ UNCHANGED <<tokenMap, registering, handlerVars,
                 creates, attempts, waiting, payments, status>>

\* An attempt of WaitForDecisionActivity: callbackHandler finds the expense
\* CREATED.  An attempt that does not fails, and the next one is made.
FindCreated ==
  /\ step = "wait" /\ waiting = 0
  /\ allExpense = "CREATED"
  /\ attempts' = attempts + 1
  /\ waiting' = attempts'
  /\ registering' = registering \cup {attempts'}
  /\ UNCHANGED <<allExpense, tokenMap, creating, handlerVars,
                 creates, payments, step, status, faults>>

\* callbackHandler stores the token.
StoreToken(a) ==
  /\ a \in registering
  /\ tokenMap' = a
  /\ registering' = registering \ {a}
  /\ UNCHANGED <<allExpense, creating, handlerVars, workflowVars, faults>>

\* External: the attempt that waits times out, or does not get its answer.
AttemptFails ==
  /\ step = "wait" /\ waiting # 0
  /\ Fault
  /\ waiting' = 0
  /\ UNCHANGED <<serverVars, handlerVars, creates, attempts, payments, step, status>>

\* Mutant of StartPayment: only an APPROVED expense is paid.
StartPaymentOnce(p) ==
  /\ step = "pay" /\ p = payments + 1
  /\ allExpense = "APPROVED"
  /\ ReadState(p)
  /\ payments' = p
  /\ IF payments # 0 /\ pc[payments] = "write" THEN Fault ELSE NoFault
  /\ UNCHANGED <<creates, attempts, waiting, step, status>>

\* An attempt of PaymentActivity: its actionHandler finds the expense.  The
\* attempt before has failed, or times out.
StartPayment(p) ==
  /\ step = "pay" /\ p = payments + 1
  /\ allExpense # "none"
  /\ ReadState(p)
  /\ payments' = p
  /\ IF payments # 0 /\ pc[payments] = "write" THEN Fault ELSE NoFault
  /\ UNCHANGED <<creates, attempts, waiting, step, status>>

\* The state is set, and the answer reaches the workflow if it is to its
\* last attempt.
Pay(p) ==
  /\ WriteState(p)
  /\ IF step = "pay" /\ p = payments
     THEN \/ step' = "completed" /\ NoFault
          \/ UNCHANGED step /\ Fault
     ELSE UNCHANGED step /\ NoFault
  /\ UNCHANGED <<creates, attempts, waiting, payments, status>>

Activity ==
  \/ FindNoExpense \/ FindCreated
  \/ \E a \in Attempts : CreateExpense(a) \/ StoreToken(a) \/ StartPayment(a) \/ Pay(a)

Next ==
  \/ \E d \in Decisions : Decide(d)
  \/ \E r \in Requests : ActionHandler(r)
  \/ Activity
  \/ AttemptFails
  \/ Restart

Spec == Init /\ [][Next]_vars

\* Handlers and activities run; people decide in the end.
Fairness ==
  /\ \A d \in Decisions : WF_vars(Decide(d))
  /\ \A r \in Requests : WF_vars(ActionHandler(r))
  /\ WF_vars(FindNoExpense) /\ WF_vars(FindCreated)
  /\ \A a \in Attempts : /\ WF_vars(CreateExpense(a)) /\ WF_vars(StoreToken(a))
                         /\ WF_vars(StartPayment(a)) /\ WF_vars(Pay(a))

FairSpec == Spec /\ Fairness
------------------------------------------------------------------------------
\* Someone's approval has been written.
Approved == \E d \in Decisions : type[d] = "approve" /\ pc[d] \notin {"idle", "write", "gone"}

(***************************************************************************)
(* However the handlers of the server overlap, are repeated or are cut     *)
(* off, an expense is never completed, and the workflow never asks for its *)
(* payment, unless someone approved it and the workflow was told so        *)
(* (ui/main.go:99-102, workflow.go:42-48).                                 *)
(***************************************************************************)
PaidOnApproval ==
  /\ step \in {"pay", "completed"} => Approved /\ status = "APPROVED"
  /\ allExpense = "COMPLETED" => Approved /\ status = "APPROVED"

\* An attempt is only repeated when something has gone wrong.
RepeatedForFaults ==
  /\ creates <= faults + 1 /\ attempts <= faults + 1 /\ payments <= faults + 1
  /\ creates <= faults \/ creates \in creating \/ allExpense # "none" \/ step # "create"
  /\ attempts <= faults \/ waiting # 0 \/ step # "wait"
  /\ payments <= faults \/ payments = 0 \/ pc[payments] = "write" \/ step # "pay"
  /\ step = "create" => attempts = 0

\* An approval is nowhere before someone has made it.
ApprovalMade ==
  /\ allExpense = "APPROVED" => Approved
  /\ \A r \in Requests : reported[r] = "APPROVED" => Approved
  /\ status = "APPROVED" => Approved

\* No payment is under way before the workflow has been told of an approval.
PaymentAfterApproval ==
  /\ step \in {"create", "wait"} => status = "none"
  /\ step \in {"pay", "completed"} => status = "APPROVED"
  /\ allExpense = "COMPLETED" => status = "APPROVED"
  /\ payments # 0 => status = "APPROVED"
  /\ \A p \in Attempts : pc[p] # "idle" => status = "APPROVED"

TypeOfRequests == \A r \in Requests : type[r] = "payment" <=> r \in Attempts

(***************************************************************************)
(* The inductive invariant: attempts are only repeated for a fault, and an *)
(* approval or a payment that the server or the workflow knows of has been *)
(* made (ui/main.go:83-90, 98-101, workflow.go:37-48).                     *)
(***************************************************************************)
IInv == TypeOK /\ TypeOfRequests /\ RepeatedForFaults /\ ApprovalMade /\ PaymentAfterApproval

\* No handler is at work on the expense.
Quiet == creating = {} /\ registering = {} /\ \A r \in Requests : pc[r] \in {"idle", "over", "gone"}

\* The expense is CREATED, the token of the attempt that waits is stored, every
\* earlier handler is done, nothing more goes wrong, and people will decide.
Registered ==
  /\ step = "wait" /\ waiting # 0 /\ tokenMap = waiting
  /\ allExpense = "CREATED" /\ Quiet /\ faults = MaxFaults
  /\ \E d \in Decisions : pc[d] = "idle"

\* Someone found the expense decided and approves it again, when someone rejects it.
Overruled ==
  \E d, e \in Decisions :
    /\ type[d] = "approve" /\ oldState[d] \in {"APPROVED", "REJECTED"} /\ pc[d] \notin {"idle", "write", "gone"}
    /\ type[e] = "reject" /\ pc[e] \notin {"idle", "write", "gone"}

(***************************************************************************)
(* An expense that waits for a decision is decided, and the workflow told: *)
(* people who all found it CREATED may overlap and disagree, and whoever   *)
(* finds it decided may repeat the decision or reject it at any moment;    *)
(* only an approval by such a person can hide a rejection                  *)
(* (ui/main.go:78-101, 161-173).                                           *)
(***************************************************************************)
DecisionTold == Registered ~> (step # "wait" \/ Overruled)

(***************************************************************************)
(* The same without the exception: "You should see the workflow complete   *)
(* after you approve the expense. You can also reject the expense"         *)
(* (README.md:35).  It is false of the code.  Line 98 reads the state      *)
(* twice: a rejection is not "approved", the approval that overwrites it   *)
(* before the second read is not "rejected", and its own handler found a   *)
(* state that was not CREATED.  Neither notifies.                          *)
(***************************************************************************)
OverruledDecisionTold == Registered ~> (step # "wait")

(***************************************************************************)
(* A workflow that was told of the approval completes, however often its   *)
(* payment was repeated, unless the server has lost the expense or one     *)
(* more thing goes wrong (workflow.go:48-55).                              *)
(***************************************************************************)
PaymentCompletes ==
  (step = "pay" /\ allExpense # "none" /\ faults = MaxFaults) ~> (step = "completed")

(***************************************************************************)
(* "the CompleteActivity() method is called by our sample expense system   *)
(* when the expense is approved" (activities.go:40-41): the workflow of an *)
(* approved expense is told of it.  It is not, when the approval comes     *)
(* before the token is stored (ui/main.go:143-146, 161-166).               *)
(***************************************************************************)
ApprovalTold == allExpense = "APPROVED" ~> step # "wait"
==============================================================================
