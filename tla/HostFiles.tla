------------------------------- MODULE HostFiles -------------------------------
(* The samples whose activities must run on one host and are all repeated on another   *)
(* when that fails: worker-specific-task-queues ("queue"), fileprocessing ("files")     *)
(* and session-failure ("session"). One attempt follows the other; the host of an       *)
(* attempt may go down, and a result may be lost while the work is done.                *)
EXTENDS Naturals, Sequences, FiniteSets

CONSTANTS MaxAttempts,   \* attempts of the workflow (the code's 5, 4 and 10)
          MaxLostResults \* results lost on the way

VARIABLES sample, flow, host, lost, uploaded

vars == <<sample, flow, host, lost, uploaded>>

Samples == {"queue", "files", "session"}
StepsOf(s) == CASE s = "queue" -> <<"DownloadFile", "ProcessFile">>
                [] s = "files" -> <<"DownloadFileActivity", "ProcessFileActivity", "UploadFileActivity">>
                [] OTHER -> <<"PrepareWorkerActivity", "LongRunningActivity">>
Program == StepsOf(sample)

(* flow: where the attempt is, its steps known to be done, the error so far.            *)
(* host: that of the attempt, if it got one; whether the workflow knows its session has  *)
(* failed; the steps done on it, and the file that is there: that of the step with this  *)
(* number, 0 for none.                                                                   *)
NoHost == [held |-> FALSE, up |-> FALSE, failed |-> FALSE, file |-> 0, done |-> {}]

Init ==
  /\ sample \in Samples
  /\ flow = [at |-> "acquire", attempt |-> 1, step |-> 1, err |-> "none"]
  /\ host = NoHost
  /\ lost = 0
  /\ uploaded = FALSE

OnHost == flow.at = "step"
Settle(err) == flow' = [flow EXCEPT !.at = "settled", !.err = err]

(* GetWorkerSpecificTaskQueue, or CreateSession: nobody answers, or there is an error. *)
Acquire ==
  /\ flow.at = "acquire"
  /\ \/ /\ host' = [NoHost EXCEPT !.held = TRUE, !.up = TRUE]
        /\ flow' = [flow EXCEPT !.at = "step", !.step = 1, !.err = "none"]
     \/ /\ \E err \in {"timeout", "error"} : Settle(IF sample = "session" /\ err = "timeout" THEN "hostDown" ELSE err)
        /\ host' = NoHost
  /\ UNCHANGED <<sample, lost, uploaded>>

HostGoesDown ==
  /\ host.up /\ flow.at \in {"step", "delete", "settled"}
  /\ host' = [host EXCEPT !.up = FALSE]
  /\ UNCHANGED <<sample, flow, lost, uploaded>>

(* The session misses its heartbeats, or its time is over: the workflow gets to know. *)
SessionFails ==
  /\ sample = "session" /\ host.held /\ ~host.failed /\ flow.at \in {"step", "settled"}
  /\ host' = [host EXCEPT !.failed = TRUE]
  /\ UNCHANGED <<sample, flow, lost, uploaded>>

(* What the activity of this step finds, and what it leaves: the activities of          *)
(* fileprocessing remove the file they were given, the others do not.                   *)
HasInput == flow.step = 1 \/ sample = "session" \/ host.file = IF sample = "files" THEN flow.step - 1 ELSE 1
FileAfter == IF sample = "files" THEN (IF flow.step = 3 THEN 0 ELSE flow.step)
             ELSE IF flow.step = 1 THEN 1 ELSE host.file

Works ==
  /\ OnHost /\ host.up /\ HasInput
  /\ host' = [host EXCEPT !.file = FileAfter, !.done = @ \union {flow.step}]
  /\ uploaded' = (uploaded \/ (sample = "files" /\ flow.step = 3))

StepDone ==
  /\ Works
  /\ flow' = IF flow.step < Len(Program) THEN [flow EXCEPT !.step = @ + 1]
             ELSE [flow EXCEPT !.at = IF sample = "queue" THEN "delete" ELSE "settled"]
  /\ UNCHANGED <<sample, lost>>

(* The activity is repeated by the server. *)
ResultLost ==
  /\ Works
  /\ lost < MaxLostResults
  /\ lost' = lost + 1
  /\ UNCHANGED <<sample, flow>>

(* The host is down, what the activity was to read is gone, or the time is over; in     *)
(* session-failure the session has failed then, and cancels its activities.              *)
StepFails ==
  /\ OnHost
  /\ sample = "session" => host.failed
  /\ flow' = [flow EXCEPT !.at = IF sample = "queue" /\ flow.step = 2 THEN "delete" ELSE "settled", !.err = "failed"]
  /\ UNCHANGED <<sample, host, lost, uploaded>>

(* The deferred call assigns the error that is returned. *)
DeleteFile ==
  /\ flow.at = "delete"
  /\ \/ host.up /\ host.file = 1 /\ host' = [host EXCEPT !.file = 0] /\ Settle("none")
     \/ UNCHANGED host /\ Settle("failed")
  /\ UNCHANGED <<sample, lost, uploaded>>

(* Mutant of AttemptError: a failed session is not told from another error. *)
AttemptErrorKept == flow.err

(* session-failure looks at the session once more before it returns, and sees what the   *)
(* workflow knows: a host that is down may not be known to be.                            *)
AttemptError == IF sample = "session" /\ host.failed THEN "hostDown" ELSE flow.err

(* session-failure repeats for a lost host only, the others for any error. *)
Repeats == IF sample = "session" THEN AttemptError = "hostDown" ELSE AttemptError /= "none"

AttemptReturns ==
  /\ flow.at = "settled"
  /\ flow' = IF Repeats /\ flow.attempt < MaxAttempts
             THEN [flow EXCEPT !.at = "acquire", !.attempt = @ + 1, !.err = AttemptError]
             ELSE [flow EXCEPT !.at = "returned", !.err = AttemptError]
  /\ UNCHANGED <<sample, host, lost, uploaded>>

----------------------------------------------------------------------------
Progress == Acquire \/ SessionFails \/ StepDone \/ StepFails \/ DeleteFile \/ AttemptReturns
Next == Progress \/ HostGoesDown \/ ResultLost

Spec == Init /\ [][Next]_vars /\ WF_vars(Progress)

(* A workflow that returns without an error has done all its steps in one attempt, on    *)
(* one host; the worker-specific queues apart (see FileProcessed).                       *)
AllOnOneHost ==
  flow.at = "returned" /\ flow.err = "none" =>
    /\ sample /= "queue" => host.done = 1..Len(Program)
    /\ sample = "files" => uploaded
    /\ sample = "session" => ~host.failed
    /\ host.file = 0 \/ sample = "session"

AttemptsEnd == flow.at = "returned"

(* worker-specific-task-queues/workflow.go:15: "if a failure occurs, we want to retry    *)
(* all of the worker-specific logic". A failure of ProcessFile is forgotten when         *)
(* DeleteFile succeeds: the workflow is completed and the file was never processed.      *)
FileProcessed ==
  sample = "queue" /\ flow.at = "returned" /\ flow.err = "none" => 2 \in host.done

(* The inductive invariant: the steps before the one an attempt is at are done on its     *)
(* host, and an attempt that settles without an error has done them all.                  *)
TypeOK ==
  /\ sample \in Samples
  /\ flow \in [at : {"acquire", "step", "delete", "settled", "returned"}, attempt : Nat, step : 1..3,
              err : {"none", "timeout", "error", "failed", "hostDown"}]
  /\ host \in [held : BOOLEAN, up : BOOLEAN, failed : BOOLEAN, file : 0..3, done : SUBSET (1..3)]
  /\ lost \in Nat /\ uploaded \in BOOLEAN

StepsKept ==
  /\ host.done \subseteq 1..Len(Program)
  /\ sample = "files" /\ 3 \in host.done => uploaded
  /\ flow.at = "delete" => sample = "queue"
  /\ OnHost => flow.err = "none" /\ flow.step <= Len(Program) /\ 1..(flow.step - 1) \subseteq host.done
  /\ flow.at \in {"settled", "returned"} /\ flow.err = "none" =>
       /\ sample /= "queue" => host.done = 1..Len(Program)
       /\ host.file = 0 \/ sample = "session"
  /\ flow.at = "returned" /\ flow.err = "none" /\ sample = "session" => ~host.failed

IInv == TypeOK /\ StepsKept
===============================================================================
