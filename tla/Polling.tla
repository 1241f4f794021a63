-------------------------------- MODULE Polling --------------------------------
(* polling: three ways to ask a service until it answers. "frequent": one attempt of     *)
(* the activity asks again and again; "infrequent": each question is an attempt of its   *)
(* own, sixty seconds apart; "periodic": a child workflow asks, sleeps, and continues as *)
(* new after some questions. The service is an object of the worker process and answers  *)
(* one question in errorAttempts.                                                        *)
EXTENDS Naturals

CONSTANTS ErrorAttempts,   \* 5 in the code
          PollsPerRun,     \* 10 in the code
          MaxRestarts,     \* of the worker
          MaxLostAnswers   \* answers the server does not hear of

VARIABLES pattern, tries, poll, workflow, trouble

vars == <<pattern, tries, poll, workflow, trouble>>

(* poll: the activity; workflow: questions of this run of the child, runs, the result,   *)
(* and whether the service has ever answered (history).                                  *)
Init ==
  /\ pattern \in {"frequent", "infrequent", "periodic"}
  /\ tries = 0
  /\ poll = "scheduled"
  /\ workflow = [i |-> 0, runs |-> 1, at |-> "await", result |-> "none", answered |-> FALSE]
  /\ trouble = [restarts |-> 0, lost |-> 0]

(* tryAttempts, seen modulo errorAttempts. *)
Answers == (tries + 1) % ErrorAttempts = 0

StartPoll ==
  /\ workflow.at = "await" /\ poll = "scheduled"
  /\ poll' = "asking"
  /\ UNCHANGED <<pattern, tries, workflow, trouble>>

(* What becomes of an activity whose question failed: it asks once more after a pause   *)
(* (frequent), the server starts its next attempt (infrequent), or it has failed: one    *)
(* attempt only (periodic).                                                              *)
AfterError == CASE pattern = "frequent" -> "asking" [] pattern = "infrequent" -> "scheduled" [] OTHER -> "failed"
AfterLoss == IF pattern = "periodic" THEN "failed" ELSE "scheduled"

GetServiceResult ==
  /\ workflow.at = "await" /\ poll = "asking"
  /\ tries' = (tries + 1) % ErrorAttempts
  /\ poll' = IF Answers THEN "answered" ELSE AfterError
  /\ workflow' = [workflow EXCEPT !.answered = @ \/ Answers]
  /\ UNCHANGED <<pattern, trouble>>

(* The answer, or a time-out of the activity: it is asked for again if there are        *)
(* attempts left.                                                                        *)
AnswerLost ==
  /\ workflow.at = "await" /\ poll \in {"asking", "answered"}
  /\ trouble.lost < MaxLostAnswers
  /\ poll' = AfterLoss
  /\ trouble' = [trouble EXCEPT !.lost = @ + 1]
  /\ UNCHANGED <<pattern, tries, workflow>>

WorkerRestarts ==
  /\ workflow.at = "await"
  /\ trouble.restarts < MaxRestarts
  /\ tries' = 0
  /\ poll' = IF poll \in {"asking", "answered"} THEN AfterLoss ELSE poll
  /\ trouble' = [trouble EXCEPT !.restarts = @ + 1]
  /\ UNCHANGED <<pattern, workflow>>

(* The result of the activity, and of the child that of its parent. *)
ReturnResult ==
  /\ workflow.at = "await" /\ poll = "answered"
  /\ workflow' = [workflow EXCEPT !.at = "returned", !.result = "OK"]
  /\ UNCHANGED <<pattern, tries, poll, trouble>>

(* Mutant of RunIsOver: one question more in each run. *)
RunIsOverLater(i) == i > PollsPerRun

RunIsOver(i) == i >= PollsPerRun

(* The child sleeps after an error, then asks again in this run or in the next. *)
SleepAndRetry ==
  /\ pattern = "periodic" /\ workflow.at = "await" /\ poll = "failed"
  /\ poll' = "scheduled"
  /\ workflow' = IF RunIsOver(workflow.i + 1)
                 THEN [workflow EXCEPT !.i = 0, !.runs = 2]       \* the second run stands for all later ones
                 ELSE [workflow EXCEPT !.i = @ + 1]
  /\ UNCHANGED <<pattern, tries, trouble>>

----------------------------------------------------------------------------
Progress == StartPoll \/ GetServiceResult \/ ReturnResult \/ SleepAndRetry
Next == Progress \/ AnswerLost \/ WorkerRestarts

(* Every pattern ends with an answer the service has given, whatever was asked before,   *)
(* and no run of the child asks more often than it may.                                  *)
AnswerIsReal ==
  /\ workflow.at = "returned" => workflow.answered /\ workflow.result = "OK"
  /\ workflow.i < PollsPerRun
PollingEnds == workflow.at = "returned"

(* The inductive invariant. *)
Sizes == ErrorAttempts \in Nat \ {0} /\ PollsPerRun \in Nat \ {0} /\ MaxRestarts \in Nat /\ MaxLostAnswers \in Nat

TypeOK ==
  /\ pattern \in {"frequent", "infrequent", "periodic"} /\ tries \in Nat
  /\ poll \in {"scheduled", "asking", "answered", "failed"}
  /\ workflow \in [i : Nat, runs : {1, 2}, at : {"await", "returned"}, result : {"none", "OK"}, answered : BOOLEAN]
  /\ trouble \in [restarts : Nat, lost : Nat]

IInv ==
  /\ TypeOK /\ AnswerIsReal
  /\ poll = "answered" => workflow.answered
===============================================================================
