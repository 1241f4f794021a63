------------------------------ MODULE ChildGuard ------------------------------
(* The interceptor of workflow-security-interceptor: a child workflow is started only     *)
(* after an activity has allowed its type, and the caller gets a future of its own that   *)
(* stands for the child's. The caller is a workflow that starts children one by one and   *)
(* may wait for the result or for the execution of a child, or signal it.                 *)
EXTENDS Naturals, Sequences

VARIABLES at,       \* the child the caller is at
          guard,    \* the validation and the coroutine that waits for it
          child,    \* the real child
          future,   \* of the caller: fResult, fExecution
          caller,   \* what the caller waits for
          signal    \* the coroutine of SignalChildWorkflow

vars == <<at, guard, child, future, caller, signal>>

(* The children of the sample's workflow, one after the other. *)
ChildTypes == <<"ChildWorkflow", "ProhibitedChildWorkflow">>
AllowedTypes == {"ChildWorkflow"}

NoChild == [type |-> "none", state |-> "none", signals |-> 0]
Pending == [result |-> "pending", execution |-> "pending"]

Init ==
  /\ at = 1 /\ guard = "none" /\ child = NoChild /\ future = Pending
  /\ caller = "starts" /\ signal = "none"

(* ExecuteChildWorkflow: the activity is started, and the future is returned at once.     *)
ExecuteChildWorkflow ==
  /\ caller = "starts" /\ at <= Len(ChildTypes)
  /\ guard' = "validating" /\ future' = Pending /\ child' = NoChild /\ signal' = "none"
  /\ \E wait \in {"result", "execution"} : caller' = wait
  /\ UNCHANGED at

(* Mutant of ValidateChildWorkflowTypeActivity: every type passes. *)
PassesAll(type) == TRUE

ValidateChildWorkflowTypeActivity(type) == type \in AllowedTypes

Validated ==
  /\ guard = "validating"
  /\ guard' = IF ValidateChildWorkflowTypeActivity(ChildTypes[at]) THEN "allowed" ELSE "refused"
  /\ UNCHANGED <<at, child, future, caller, signal>>

ValidationFails ==
  /\ guard = "validating"
  /\ guard' = "broken"
  /\ UNCHANGED <<at, child, future, caller, signal>>

(* The coroutine. Refused, only the result is settled: whoever waits for the execution of *)
(* the child waits for ever.                                                              *)
GuardedStart ==
  /\ guard \in {"allowed", "refused", "broken"}
  /\ guard' = "done"
  /\ IF guard = "allowed"
     THEN child' = [type |-> ChildTypes[at], state |-> "starting", signals |-> 0] /\ UNCHANGED future
     ELSE future' = [future EXCEPT !.result = "error"] /\ UNCHANGED child
  /\ UNCHANGED <<at, caller, signal>>

(* The futures of the child are chained to those of the caller. *)
ChildStarts(ok) ==
  /\ child.state = "starting"
  /\ child' = [child EXCEPT !.state = IF ok THEN "running" ELSE "failed"]
  /\ future' = IF ok THEN [future EXCEPT !.execution = "ok"] ELSE [result |-> "error", execution |-> "error"]
  /\ UNCHANGED <<at, guard, caller, signal>>

ChildEnds(ok) ==
  /\ child.state = "running"
  /\ child' = [child EXCEPT !.state = IF ok THEN "completed" ELSE "failed"]
  /\ future' = [future EXCEPT !.result = IF ok THEN "ok" ELSE "error"]
  /\ UNCHANGED <<at, guard, caller, signal>>

(* SignalChildWorkflow has a copy of the future, made when it is called: without the      *)
(* child, unless that has been started already. A call of nothing, or an error that is    *)
(* set and then set again, panics.                                                        *)
SignalChildWorkflow ==
  /\ caller \in {"result", "execution"} /\ signal = "none"
  /\ signal' = IF child.type = "none" THEN "without child" ELSE "with child"
  /\ UNCHANGED <<at, guard, child, future, caller>>

SignalGoesOut ==
  /\ signal \in {"without child", "with child"} /\ guard \notin {"none", "validating"}
  /\ signal' = IF signal = "with child" THEN "sent" ELSE "panicked"
  /\ child' = IF signal = "with child" THEN [child EXCEPT !.signals = @ + 1] ELSE child
  /\ caller' = IF signal = "with child" THEN caller ELSE "panicking"
  /\ UNCHANGED <<at, guard, future>>

(* The caller goes on with the next child, or returns the error. *)
CallerGoesOn ==
  /\ caller \in {"result", "execution"} /\ future[caller] /= "pending"
  /\ IF future[caller] = "error" THEN caller' = "failed" /\ UNCHANGED at
     ELSE IF caller = "execution" THEN caller' = "result" /\ UNCHANGED at
     ELSE caller' = (IF at = Len(ChildTypes) THEN "returned" ELSE "starts") /\ at' = at + 1
  /\ UNCHANGED <<guard, child, future, signal>>

Progress ==
  \/ ExecuteChildWorkflow \/ Validated \/ GuardedStart \/ SignalGoesOut \/ CallerGoesOn
  \/ \E ok \in BOOLEAN : ChildStarts(ok) \/ ChildEnds(ok)
Next == Progress \/ ValidationFails \/ SignalChildWorkflow

----------------------------------------------------------------------------
(* No child of a type that is not allowed is ever started, and the future of the caller   *)
(* says of the child what is so.                                                          *)
OnlyAllowedChildren ==
  /\ child.type /= "none" => child.type \in AllowedTypes
  /\ future.result = "ok" => child.state = "completed"
  /\ future.execution = "ok" => child.state \in {"running", "completed", "failed"}
  /\ caller = "returned" => \A i \in DOMAIN ChildTypes : ChildTypes[i] \in AllowedTypes

(* A caller that waits for a result gets one. (One that waits for the execution of a      *)
(* child that is refused does not.)                                                       *)
ResultsCome == caller /= "result"

(* "wait for validation": a signal sent before the validation reaches the child.          *)
SignalsDelivered == signal /= "panicked"

(* The inductive invariant: while a type is validated, and when it is refused, there is   *)
(* no child; the second type of the sample never gets one.                                *)
TypeOK ==
  /\ at \in 1..2
  /\ guard \in {"none", "validating", "allowed", "refused", "broken", "done"}
  /\ child \in [type : {"none"} \union AllowedTypes, signals : Nat,
                state : {"none", "starting", "running", "completed", "failed"}]
  /\ future \in [result : {"pending", "ok", "error"}, execution : {"pending", "ok", "error"}]
  /\ caller \in {"starts", "result", "execution", "failed", "panicking"}

IInv ==
  /\ TypeOK
  /\ guard /= "done" => child.state = "none" /\ future = Pending
  /\ guard = "allowed" => ChildTypes[at] \in AllowedTypes
  /\ child.state = "none" => child.type = "none" /\ future.result /= "ok" /\ future.execution /= "ok"
  /\ at = 2 => child.state = "none" \/ caller \in {"starts", "panicking"}
  /\ caller = "starts" => guard \in {"none", "done"}
  /\ future.result = "ok" => child.state = "completed"
  /\ future.execution = "ok" => child.state \in {"running", "completed", "failed"}
===============================================================================
