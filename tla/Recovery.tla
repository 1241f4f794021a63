------------------------------- MODULE Recovery -------------------------------
(***************************************************************************)
(* RecoverWorkflow restarts every open TripWorkflow and replays the trip   *)
(* events of its last run (recovery/recovery_workflow.go, trip_workflow.go).*)
(*                                                                         *)
(* A trip is the index of its execution in the list of open executions.    *)
(* All events count alike, so a history is the number of its signals; the  *)
(* counter a run ends up with is base + signals.  Each attempt of the      *)
(* activity RecoverExecutions is a process of its own: after a time-out    *)
(* the server starts the next one while the last may still be at work.     *)
(***************************************************************************)
EXTENDS Integers

CONSTANTS
  MaxTrips,     \* bound: at most this many open executions
  Concurrency,  \* params.Concurrency
  RunLength,    \* signals of one run of TripWorkflow, 10 in the code
  MaxAttempts,  \* MaximumAttempts of the retry policy, 100 in the code
  MaxFaults,    \* bound: attempts that fail, time out or find no list
  MaxSent       \* bound: trip events that clients send to each trip

ASSUME RecoveryAssumption ==
  /\ MaxTrips \in Nat /\ Concurrency \in Int
  /\ MaxSent \in [0 .. MaxTrips - 1 -> Nat]
  /\ MaxFaults \in Nat
  /\ RunLength \in Nat \ {0} /\ MaxAttempts \in Nat \ {0}

VARIABLES
  count,      \* number of open executions, result.Count once they are listed
  base,       \* TripCounter in the input of each trip's current run
  signals,    \* number of trip events in the history of that run
  handle,     \* the attempts whose newRun is the current run of their trip
  open,       \* whether it is open
  sent,       \* history: trip events that the server took from clients
  wfPc,       \* where RecoverWorkflow is
  status,     \* what the server knows of each activity RecoverExecutions
  attempts,   \* how many attempts it started
  progress,   \* the index in its heartbeat details, -1 if there are none
  work,       \* what each attempt is doing and what it remembers
  faults,     \* how many attempts failed, timed out or found no list
  overdue,    \* history: activities of which an attempt went on after its time-out
  recovered   \* history: trips for which recoverSingleExecution returned nil

tripVars == <<count, base, signals, handle, open, sent>>
actVars == <<status, attempts, progress, work, faults, overdue, recovered>>
vars == <<count, base, signals, handle, open, sent, wfPc, status,
          attempts, progress, work, faults, overdue, recovered>>

Trips == 0 .. MaxTrips - 1

\* The number of activities: the parameter, 1 if it is not positive, and no
\* more than there are executions.
Wanted == IF Concurrency > 0 THEN Concurrency ELSE 1
Activities == 0 .. Wanted - 1
ActivityCount == IF count < Wanted THEN count ELSE Wanted

\* Mutant of BatchSize: the remainder is forgotten.
BatchSizeRoundedDown == count \div ActivityCount

\* batchSize: the quotient, rounded up.
BatchSize ==
  (count \div ActivityCount) + (IF count % ActivityCount # 0 THEN 1 ELSE 0)

StartIndex(i) == i * BatchSize

\* Mutant of EndIndex: endIndex belongs to the batch.
EndIndexInclusive(i) ==
  IF StartIndex(i) + BatchSize + 1 < count THEN StartIndex(i) + BatchSize + 1 ELSE count

\* The first index after the batch.
EndIndex(i) == IF StartIndex(i) + BatchSize < count THEN StartIndex(i) + BatchSize ELSE count
Batch(i) == IF i < ActivityCount THEN StartIndex(i) .. EndIndex(i) - 1 ELSE {}

Attempts == Activities \X (1 .. MaxAttempts)
Off == [pc |-> "off", index |-> 0, base |-> 0, signals |-> 0]
WorkPc == {"off", "read", "terminate", "start", "inject", "return"}
Work == [pc : WorkPc, index : Nat, base : Nat, signals : Nat]

TypeOK ==
  /\ count \in 0 .. MaxTrips
  /\ base \in [Trips -> Nat] /\ signals \in [Trips -> Nat] /\ sent \in [Trips -> Nat]
  /\ handle \subseteq Attempts
  /\ open \in [Trips -> BOOLEAN]
  /\ wfPc \in {"list", "wait", "completed", "panicked"}
  /\ status \in [Activities -> {"none", "scheduled", "running", "done", "failed"}]
  /\ attempts \in [Activities -> 0 .. MaxAttempts]
  /\ progress \in [Activities -> -1 .. MaxTrips - 1]
  /\ work \in [Attempts -> Work]
  /\ \A p \in Attempts : work[p].pc # "off" => work[p].index \in Batch(p[1])
  /\ faults \in Nat
  /\ overdue \subseteq Activities
  /\ recovered \subseteq Trips

Init ==
  /\ count \in 0 .. MaxTrips
  /\ base = [t \in Trips |-> 0] /\ signals = [t \in Trips |-> 0]
  /\ handle = {}
  /\ open = [t \in Trips |-> t < count]
  /\ sent = [t \in Trips |-> 0]
  /\ wfPc = "list"
  /\ status = [i \in Activities |-> "none"]
  /\ attempts = [i \in Activities |-> 0]
  /\ progress = [i \in Activities |-> -1]
  /\ work = [p \in Attempts |-> Off]
  /\ faults = 0
  /\ overdue = {}
  /\ recovered = {}
------------------------------------------------------------------------------
(***************************************************************************)
(* TripWorkflow and its clients.                                           *)
(***************************************************************************)

\* The server adds a signal to the history of an open run.
Signal(t) == signals' = [signals EXCEPT ![t] = @ + 1]

\* What is left of the handles when a new run of t opens.
HandlesOfOthers(t) == {p \in handle : work[p].index # t}

SendTrip(t) ==
  /\ open[t]
  /\ sent[t] < MaxSent[t]
  /\ sent' = [sent EXCEPT ![t] = @ + 1]
  /\ Signal(t)
  /\ UNCHANGED <<count, base, handle, open, wfPc, actVars>>

\* TripWorkflow has received RunLength signals and goes on in a new run.  The
\* signals it has not received are gone with the old one.
TripContinues(t) ==
  /\ open[t]
  /\ signals[t] >= RunLength
  /\ base' = [base EXCEPT ![t] = @ + RunLength]
  /\ signals' = [signals EXCEPT ![t] = 0]
  /\ handle' = HandlesOfOthers(t)
  /\ UNCHANGED <<count, open, sent, wfPc, actVars>>
------------------------------------------------------------------------------
(***************************************************************************)
(* RecoverWorkflow.                                                        *)
(***************************************************************************)

\* ListOpenExecutions has put the list into the cache of the worker it ran on,
\* and of no other; the workflow schedules the activities.
List ==
  /\ wfPc = "list"
  /\ count > 0
  /\ status' = [i \in Activities |-> IF i < ActivityCount THEN "scheduled" ELSE "none"]
  /\ wfPc' = "wait"
  /\ UNCHANGED <<tripVars, attempts, progress, work, faults, overdue, recovered>>

\* No execution is open: the number of activities is 0 and result.Count /
\* concurrency panics in every workflow task until the execution times out.
ListNothing ==
  /\ wfPc = "list"
  /\ count = 0
  /\ wfPc' = "panicked"
  /\ UNCHANGED <<tripVars, actVars>>

\* Mutant of CompleteRecover: an activity that fails sends nothing on doneCh.
CompleteIfAllDone ==
  /\ wfPc = "wait"
  /\ \A i \in Activities : status[i] \in {"none", "done"}
  /\ wfPc' = "completed"
  /\ UNCHANGED <<tripVars, actVars>>

\* Every activity has ended.  Their errors are logged.
CompleteRecover ==
  /\ wfPc = "wait"
  /\ \A i \in Activities : status[i] \in {"none", "done", "failed"}
  /\ wfPc' = "completed"
  /\ UNCHANGED <<tripVars, actVars>>
------------------------------------------------------------------------------
(***************************************************************************)
(* The attempts of RecoverExecutions.                                      *)
(***************************************************************************)

\* Mutant of ResumeIndex: the last index that was reported is done again.
ResumeAtReported(i) == IF progress[i] >= 0 THEN progress[i] ELSE StartIndex(i)

\* Where an attempt starts: after the last index that was reported.
ResumeIndex(i) == IF progress[i] >= 0 THEN progress[i] + 1 ELSE StartIndex(i)

\* The current attempt is over; the server retries it while the policy allows.
Retry(i) ==
  status' = [status EXCEPT ![i] = IF attempts[i] < MaxAttempts THEN "scheduled" ELSE "failed"]

Fault == faults < MaxFaults /\ faults' = faults + 1

\* Whether p is the attempt whose answers the server accepts.
Current(p) == status[p[1]] = "running" /\ attempts[p[1]] = p[2]

\* An attempt reaches the worker that holds the list; if nothing is left to do
\* it is done at once.
StartAttempt(i) ==
  LET p == <<i, attempts[i] + 1>> IN
  /\ status[i] = "scheduled"
  /\ attempts' = [attempts EXCEPT ![i] = @ + 1]
  /\ \/ /\ ResumeIndex(i) < EndIndex(i)
        /\ status' = [status EXCEPT ![i] = "running"]
        /\ work' = [work EXCEPT ![p] = [Off EXCEPT !.pc = "read", !.index = ResumeIndex(i)]]
     \/ /\ ResumeIndex(i) >= EndIndex(i)
        /\ status' = [status EXCEPT ![i] = "done"]
        /\ UNCHANGED work
  /\ UNCHANGED <<tripVars, wfPc, progress, faults, overdue, recovered>>

\* It reaches another worker, or the one that did hold it but was restarted or
\* made room for other lists: the type assertion on nil panics.
AttemptWithoutList(i) ==
  /\ Fault
  /\ status[i] = "scheduled"
  /\ attempts' = [attempts EXCEPT ![i] = @ + 1]
  /\ status' = [status EXCEPT ![i] = IF attempts'[i] < MaxAttempts THEN "scheduled" ELSE "failed"]
  /\ UNCHANGED <<tripVars, wfPc, progress, work, overdue, recovered>>

\* Mutant of ReadHistory: a run that is completed needs no recovery.
SkipCompleted(p) ==
  LET t == work[p].index IN
  /\ work[p].pc = "read"
  /\ work' = [work EXCEPT ![p] = [@ EXCEPT !.pc = IF open[t] THEN "terminate" ELSE "inject",
                                           !.base = base[t],
                                           !.signals = IF open[t] THEN signals[t] ELSE 0]]
  /\ UNCHANGED <<tripVars, wfPc, status, attempts, progress, faults, overdue, recovered>>

\* getHistory of the current run, whichever that is.
ReadHistory(p) ==
  LET t == work[p].index IN
  /\ work[p].pc = "read"
  /\ work' = [work EXCEPT ![p] = [@ EXCEPT !.pc = IF open[t] THEN "terminate" ELSE "start",
                                           !.base = base[t], !.signals = signals[t]]]
  /\ UNCHANGED <<tripVars, wfPc, status, attempts, progress, faults, overdue, recovered>>

\* TerminateWorkflow, without a run ID: the run that is open now is closed.
Terminate(p) ==
  LET t == work[p].index IN
  /\ work[p].pc = "terminate"
  /\ open[t]
  /\ open' = [open EXCEPT ![t] = FALSE]
  /\ work' = [work EXCEPT ![p].pc = "start"]
  /\ UNCHANGED <<count, base, signals, handle, sent, wfPc, status, attempts,
                 progress, faults, overdue, recovered>>

\* Mutant of StartRun: the new run starts with the counter the old one had.
StartRunWithCounter(p) ==
  LET t == work[p].index IN
  /\ work[p].pc = "start"
  /\ ~open[t]
  /\ open' = [open EXCEPT ![t] = TRUE]
  /\ base' = [base EXCEPT ![t] = work[p].base + work[p].signals]
  /\ signals' = [signals EXCEPT ![t] = 0]
  /\ handle' = HandlesOfOthers(t) \cup {p}
  /\ work' = [work EXCEPT ![p].pc = "inject"]
  /\ UNCHANGED <<count, sent, wfPc, status, attempts, progress, faults, overdue, recovered>>

\* ExecuteWorkflow with the input of the first event.  If a run is open by now
\* it answers with that run.
StartRun(p) ==
  LET t == work[p].index IN
  /\ work[p].pc = "start"
  /\ \/ /\ ~open[t]
        /\ open' = [open EXCEPT ![t] = TRUE]
        /\ base' = [base EXCEPT ![t] = work[p].base]
        /\ signals' = [signals EXCEPT ![t] = 0]
        /\ handle' = HandlesOfOthers(t) \cup {p}
     \/ /\ open[t]
        /\ handle' = handle \cup {p}
        /\ UNCHANGED <<open, base, signals>>
  /\ work' = [work EXCEPT ![p].pc = "inject"]
  /\ UNCHANGED <<count, sent, wfPc, status, attempts, progress, faults, overdue, recovered>>

\* The next signal goes to newRun.  The error of SignalWorkflow is ignored; there
\* is one whenever that run is no longer the open one.
Inject(p) ==
  LET t == work[p].index IN
  /\ work[p].pc = "inject"
  /\ work[p].signals > 0
  /\ work' = [work EXCEPT ![p].signals = @ - 1]
  /\ \/ open[t] /\ p \in handle /\ Signal(t)
     \/ UNCHANGED signals
  /\ UNCHANGED <<count, base, handle, open, sent, wfPc, status, attempts,
                 progress, faults, overdue, recovered>>

\* The execution is recovered: heartbeat, and on to the next index.  The
\* heartbeat counts for the current attempt, and the client throttles it: the
\* server may not have it when the attempt fails.  It takes no result of an
\* attempt that timed out.
Recovered(p) ==
  LET t == work[p].index IN
  /\ work[p].pc = "inject"
  /\ work[p].signals = 0
  /\ recovered' = recovered \cup {t}
  /\ handle' = handle \ {p}
  /\ \/ Current(p) /\ progress' = [progress EXCEPT ![p[1]] = t]
     \/ UNCHANGED progress
  /\ work' = [work EXCEPT ![p] = IF t + 1 < EndIndex(p[1])
                                 THEN [Off EXCEPT !.pc = "read", !.index = t + 1]
                                 ELSE IF Current(p) THEN [Off EXCEPT !.pc = "return", !.index = t]
                                 ELSE Off]
  /\ UNCHANGED <<count, base, signals, open, sent, wfPc, status, attempts, faults, overdue>>

\* The loop is over and the activity done.
ReturnNil(p) ==
  /\ work[p].pc = "return"
  /\ Current(p)
  /\ work' = [work EXCEPT ![p] = Off]
  /\ status' = [status EXCEPT ![p[1]] = "done"]
  /\ UNCHANGED <<tripVars, wfPc, attempts, progress, faults, overdue, recovered>>

\* A call returns an error, or the worker stops: the attempt is over.  One that
\* had timed out needs no such step, nothing makes it go on.  TerminateWorkflow
\* is bound to fail when another attempt has closed the run.
AttemptFails(p) ==
  /\ Current(p)
  /\ \/ Fault
     \/ work[p].pc = "terminate" /\ ~open[work[p].index] /\ UNCHANGED faults
  /\ work' = [work EXCEPT ![p] = Off]
  /\ handle' = handle \ {p}
  /\ Retry(p[1])
  /\ UNCHANGED <<count, base, signals, open, sent, wfPc, attempts, progress, overdue, recovered>>

\* The server hears no heartbeat and gives the attempt up; the attempt goes on.
AttemptTimesOut(i) ==
  /\ Fault
  /\ status[i] = "running"
  /\ Retry(i)
  /\ overdue' = overdue \cup {i}
  /\ UNCHANGED <<tripVars, wfPc, attempts, progress, work, recovered>>
------------------------------------------------------------------------------
AttemptStep(p) ==
  \/ ReadHistory(p) \/ Terminate(p) \/ StartRun(p) \/ Inject(p)
  \/ Recovered(p) \/ ReturnNil(p) \/ AttemptFails(p)

\* What the server waits for: an attempt that it schedules, or the current one.
ActivityStep(i) ==
  \/ StartAttempt(i) \/ AttemptWithoutList(i)
  \/ \E p \in Attempts : p[1] = i /\ Current(p) /\ AttemptStep(p)

RecoverStep == List \/ ListNothing \/ CompleteRecover

Next ==
  \/ \E t \in Trips : SendTrip(t) \/ TripContinues(t)
  \/ RecoverStep
  \/ \E i \in Activities : StartAttempt(i) \/ AttemptWithoutList(i) \/ AttemptTimesOut(i)
  \/ \E p \in Attempts : AttemptStep(p)

Spec == Init /\ [][Next]_vars

\* A worker is up: the workflow and the activities take their steps.  Nothing is
\* assumed of an attempt that timed out.
Fairness ==
  /\ WF_vars(RecoverStep)
  /\ \A i \in Activities : WF_vars(ActivityStep(i))

FairSpec == Spec /\ Fairness
------------------------------------------------------------------------------
(***************************************************************************)
(* Properties.                                                             *)
(***************************************************************************)

\* A recovery that ends without a failed activity has recovered every execution
\* of the list: the batches cover it and no resumed attempt skips one.
AllRecovered ==
  wfPc = "completed" /\ (\A i \in Activities : status[i] # "failed")
    => 0 .. count - 1 \subseteq recovered

\* Two activities never work on the same trip: only attempts of one activity
\* can get into each other's way.
OneActivityPerTrip ==
  \A p, q \in Attempts :
    p[1] # q[1] /\ work[p].pc # "off" /\ work[q].pc # "off" => work[p].index # work[q].index

\* No trip event is counted twice, whatever fails and is tried again, unless an
\* attempt that had timed out was still at work.
NoEventTwice ==
  \A i \in Activities \ overdue : \A t \in Batch(i) : base[t] + signals[t] <= sent[t]

\* An activity that ends well leaves every execution of its batch open again,
\* unless an attempt that had timed out is still at work.
TripsOpenAgain ==
  \A i \in Activities \ overdue : status[i] = "done" => \A t \in Batch(i) : open[t]

\* RecoverWorkflow ends, whichever activities fail.
RecoverCompletes == wfPc = "wait" ~> wfPc = "completed"

\* README: recovery is "designed to restart all TripWorkflow executions ... and
\* replay all signals from previous run".  The run that is terminated has no
\* signal that was not read.
AllSignalsReplayed ==
  [][\A p \in Attempts :
       Terminate(p) => work[p].base + work[p].signals = base[work[p].index] + signals[work[p].index]]_vars
------------------------------------------------------------------------------
(***************************************************************************)
(* The inductive invariant.                                                *)
(***************************************************************************)

Active(p) == work[p].pc # "off"

\* Only the activities of the list are scheduled, and progress is in the batch.
Scheduling ==
  /\ wfPc = "list" => \A i \in Activities : status[i] = "none" /\ attempts[i] = 0
  /\ wfPc # "list" => \A i \in Activities : i < ActivityCount => status[i] # "none"
  /\ wfPc = "completed" => \A i \in Activities : status[i] \in {"none", "done", "failed"}
  /\ \A i \in Activities :
       /\ status[i] # "none" => i < ActivityCount
       /\ status[i] = "scheduled" => attempts[i] < MaxAttempts
       /\ progress[i] = -1 \/ progress[i] \in Batch(i)

\* No attempt but the current one is at work unless one timed out, and only the
\* attempts that inject hold a handle.
Alone ==
  /\ \A p \in Attempts : Active(p) =>
       p[2] <= attempts[p[1]] /\ (p[1] \in overdue \/ Current(p))
  /\ \A p \in handle : work[p].pc = "inject"

\* What lies before an attempt, and before what was reported, is recovered.
Covering ==
  /\ \A p \in Attempts : Active(p) =>
       /\ \A t \in Batch(p[1]) : t < work[p].index => t \in recovered
       /\ work[p].pc = "return" =>
            work[p].index \in recovered /\ EndIndex(p[1]) <= work[p].index + 1
  /\ \A i \in Activities : \A t \in Batch(i) :
       t <= progress[i] \/ status[i] = "done" => t \in recovered

\* A closed run is one that the activity is about to restart or has still to read.
ReopeningAt(i) ==
  /\ \A p \in Attempts : p[1] = i /\ Active(p) /\ work[p].pc # "return" =>
       progress[i] < work[p].index
  /\ \A t \in Batch(i) : ~open[t] =>
       /\ status[i] # "done"
       /\ progress[i] < t
       /\ \A p \in Attempts : p[1] = i /\ Active(p) =>
            \/ work[p].index < t
            \/ work[p].index = t /\ work[p].pc \in {"read", "start"}
Reopening == \A i \in Activities \ overdue : ReopeningAt(i)

\* What an attempt has read and not yet injected was sent once, and is not in the
\* run that it injects into.
Budget ==
  \A p \in Attempts : LET t == work[p].index IN p[1] \notin overdue =>
    /\ work[p].pc = "terminate" => work[p].base + work[p].signals <= sent[t]
    /\ work[p].pc = "start" => ~open[t] /\ work[p].base + work[p].signals <= sent[t]
    /\ p \in handle => base[t] + signals[t] + work[p].signals <= sent[t]

\* What every step preserves.
IInv == TypeOK /\ Scheduling /\ Alone /\ Covering /\ Reopening /\ Budget /\ NoEventTwice
==============================================================================
