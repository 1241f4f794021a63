----------------------------- MODULE RetriedBatch -----------------------------
(* retryactivity: BatchProcessingActivity fails on purpose after a third of its batch,   *)
(* and its next attempt goes on from the progress it has reported. A heartbeat is sent    *)
(* now and then; the last one goes with the failure, but not with a worker that dies.     *)
EXTENDS Naturals

CONSTANTS BatchSize,      \* 20 in the code
          MaximumAttempts \* of the retry policy, 5 in the code

VARIABLES attempt, activity, heartbeat, processed, clean

vars == <<attempt, activity, heartbeat, processed, clean>>

(* firstTaskID is 0. heartbeat: the progress the server knows, 0 for none, i + 1 for     *)
(* completedIdx i.                                                                       *)
Tasks == 0..(BatchSize - 1)
Idle == [at |-> "scheduled", i |-> 0, inThisAttempt |-> 0]

Init ==
  /\ attempt = 1
  /\ activity = Idle
  /\ heartbeat = 0
  /\ processed = [t \in Tasks |-> 0]     \* how often each task was processed
  /\ clean = TRUE                        \* no worker has died so far

(* Mutant of ResumeFrom: the task after the next. *)
ResumeAfter == heartbeat + 1

(* completedIdx + 1, or the first task. *)
ResumeFrom == heartbeat

StartAttempt ==
  /\ activity.at = "scheduled"
  /\ activity' = [at |-> "running", i |-> ResumeFrom, inThisAttempt |-> 0]
  /\ UNCHANGED <<attempt, heartbeat, processed, clean>>

NextAttempt ==
  IF attempt < MaximumAttempts
  THEN activity' = Idle /\ attempt' = attempt + 1
  ELSE activity' = [activity EXCEPT !.at = "failed"] /\ attempt' = attempt

(* A task is processed and recorded; then it may be time to fail. *)
ProcessTask ==
  LET i == activity.i
      done == activity.inThisAttempt + 1
  IN /\ activity.at = "running" /\ i < BatchSize
     /\ processed' = [processed EXCEPT ![i] = @ + 1]
     /\ IF done >= BatchSize \div 3 /\ i < BatchSize - 1
        THEN heartbeat' = i + 1 /\ NextAttempt
        ELSE /\ activity' = [activity EXCEPT !.i = i + 1, !.inThisAttempt = done]
             /\ UNCHANGED <<attempt, heartbeat>>
     /\ UNCHANGED clean

HeartbeatSent ==
  /\ activity.at = "running" /\ activity.i > heartbeat
  /\ heartbeat' = activity.i
  /\ UNCHANGED <<attempt, activity, processed, clean>>

Succeed ==
  /\ activity.at = "running" /\ activity.i >= BatchSize
  /\ activity' = [activity EXCEPT !.at = "done"]
  /\ UNCHANGED <<attempt, heartbeat, processed, clean>>

(* No heartbeat for ten seconds. *)
WorkerDies ==
  /\ activity.at = "running"
  /\ clean' = FALSE
  /\ NextAttempt
  /\ UNCHANGED <<heartbeat, processed>>

----------------------------------------------------------------------------
Progress == StartAttempt \/ ProcessTask \/ Succeed
Next == Progress \/ HeartbeatSent \/ WorkerDies

(* No task is skipped, whichever attempt has got how far; and only a worker that has     *)
(* died makes a task be processed twice.                                                 *)
NoTaskSkipped ==
  /\ \A t \in Tasks : (activity.at = "done" \/ t < heartbeat \/ (activity.at = "running" /\ t < activity.i)) => processed[t] > 0
  /\ clean => \A t \in Tasks : processed[t] <= 1
  /\ activity.at = "failed" => ~clean

BatchEnds == activity.at \in {"done", "failed"}

(* The inductive invariant: what is reported has been processed, and each attempt of a    *)
(* worker that lives gets a third of the batch further.                                   *)
Sizes == BatchSize \in Nat /\ MaximumAttempts \in Nat /\ MaximumAttempts >= 5

TypeOK ==
  /\ attempt \in Nat /\ heartbeat \in Nat /\ clean \in BOOLEAN
  /\ activity \in [at : {"scheduled", "running", "done", "failed"}, i : Nat, inThisAttempt : Nat]
  /\ processed \in [Tasks -> Nat]

Reached == IF activity.at \in {"scheduled", "failed"} THEN heartbeat ELSE activity.i

Third == BatchSize \div 3
FarEnough ==
  /\ attempt \in 1..5
  /\ heartbeat >= (attempt - 1) /\ \/ attempt = 1
                                   \/ attempt = 2 /\ heartbeat >= Third
                                   \/ attempt = 3 /\ heartbeat >= 2 * Third
                                   \/ attempt = 4 /\ heartbeat >= 3 * Third
                                   \/ attempt = 5 /\ heartbeat >= 4 * Third
  /\ activity.at = "running" => activity.i >= activity.inThisAttempt
  /\ activity.at = "running" => \/ attempt = 1
                                \/ attempt = 2 /\ activity.i >= Third + activity.inThisAttempt
                                \/ attempt = 3 /\ activity.i >= 2 * Third + activity.inThisAttempt
                                \/ attempt = 4 /\ activity.i >= 3 * Third + activity.inThisAttempt
                                \/ attempt = 5 /\ activity.i >= 4 * Third + activity.inThisAttempt
  /\ activity.at = "running" => activity.i >= attempt - 1 + activity.inThisAttempt

IInv ==
  /\ TypeOK
  /\ heartbeat <= Reached /\ Reached <= BatchSize
  /\ \A t \in Tasks : t < Reached => processed[t] > 0
  /\ clean => \A t \in Tasks : processed[t] = IF t < Reached THEN 1 ELSE 0
  /\ activity.at = "done" => activity.i = BatchSize
  /\ activity.at = "failed" => ~clean
  /\ clean => FarEnough
===============================================================================
