------------------------------ MODULE MutexLock ------------------------------
(***************************************************************************)
(* The distributed lock of mutex/mutex_workflow.go on one resource.        *)
(*                                                                         *)
(* Two kinds of workflow exchange signals.  A sender                       *)
(* (SampleWorkflowWithMutex) asks for the lock through a local activity    *)
(* that calls SignalWithStart, blocks until "acquire-lock-event" comes,    *)
(* works, and signals the release channel.  MutexWorkflow, one execution   *)
(* per resource, takes the requests in turn: it tells the sender that it   *)
(* holds the lock and then waits for the release or for unlockTimeout.     *)
(*                                                                         *)
(* What the Temporal server does is external: a signal to a named or open  *)
(* run is buffered in order, a signal to a closed workflow is an error,    *)
(* and a run cannot complete over a signal it has not seen.  Time is not   *)
(* modelled: a timer may fire at any moment after it is set.               *)
(***************************************************************************)
EXTENDS Naturals, Sequences

CONSTANTS Senders,          \* workflow IDs of the SampleWorkflowWithMutex runs
          NoSender,
          MaximumAttempts   \* of the local activity's retry policy

ASSUME NoSenderIsNoSender == NoSender \notin Senders
ASSUME AttemptsAssumption == MaximumAttempts \in Nat \ {0}

VARIABLES
  senderPc,   \* where each sender is in SampleWorkflowWithMutex
  attempts,   \* attempts of the local activity each sender has made
  acquireCh,  \* number of buffered "acquire-lock-event" signals of each sender
  lockRun,    \* execution.RunID that each sender's unlockFunc will signal
  mutexPc,    \* where the open run of MutexWorkflow is, "closed" if none is
  run,        \* RunID of the last run of MutexWorkflow
  requestCh,  \* buffered "request-lock-event" signals of the open run
  holder,     \* senderWorkflowID the open run is serving
  releaseCh,  \* number of buffered "unlock-event-<sender>" signals of the open run
  overdue     \* history: senders whose last lease ended by unlockTimeout

senderVars == <<senderPc, attempts, acquireCh, lockRun>>
mutexVars == <<mutexPc, run, requestCh, holder, releaseCh, overdue>>
vars == <<senderPc, attempts, acquireCh, lockRun,
          mutexPc, run, requestCh, holder, releaseCh, overdue>>

SenderPc == {"requesting", "waiting", "critical", "unlocking", "finishing", "closed"}
MutexPc == {"closed", "receiving", "signalling", "signalled", "holding"}

TypeOK ==
  /\ senderPc \in [Senders -> SenderPc]
  /\ attempts \in [Senders -> 0 .. MaximumAttempts]
  /\ acquireCh \in [Senders -> Nat]
  /\ lockRun \in [Senders -> Nat]
  /\ mutexPc \in MutexPc
  /\ run \in Nat
  /\ requestCh \in Seq(Senders)
  /\ holder \in Senders \cup {NoSender}
  /\ holder = NoSender <=> mutexPc \in {"closed", "receiving"}
  /\ releaseCh \in [Senders -> Nat]
  /\ overdue \subseteq Senders

Init ==
  /\ senderPc = [s \in Senders |-> "requesting"]
  /\ attempts = [s \in Senders |-> 0]
  /\ acquireCh = [s \in Senders |-> 0]
  /\ lockRun = [s \in Senders |-> 0]
  /\ mutexPc = "closed"
  /\ run = 0
  /\ requestCh = <<>>
  /\ holder = NoSender
  /\ releaseCh = [s \in Senders |-> 0]
  /\ overdue = {}
------------------------------------------------------------------------------
(***************************************************************************)
(* The sender: Mutex.Lock, the critical section, unlockFunc.               *)
(***************************************************************************)

\* The server's part of SignalWithStartWorkflow: the request joins the open
\* run's channel, or opens a run whose channels hold nothing else.
SignalWithStart(s) ==
  IF mutexPc = "closed"
  THEN /\ run' = run + 1
       /\ mutexPc' = "receiving"
       /\ requestCh' = <<s>>
       /\ releaseCh' = [t \in Senders |-> 0]
  ELSE /\ requestCh' = Append(requestCh, s)
       /\ UNCHANGED <<run, mutexPc, releaseCh>>

\* One attempt of the local activity SignalWithStartMutexWorkflowActivity.
Attempt(s) ==
  /\ senderPc[s] = "requesting"
  /\ attempts[s] < MaximumAttempts
  /\ attempts' = [attempts EXCEPT ![s] = @ + 1]

\* The attempt succeeds: Lock keeps the execution it was told and waits.
RequestLock(s) ==
  /\ Attempt(s)
  /\ SignalWithStart(s)
  /\ lockRun' = [lockRun EXCEPT ![s] = run']
  /\ senderPc' = [senderPc EXCEPT ![s] = "waiting"]
  /\ UNCHANGED <<acquireCh, holder, overdue>>

\* The signal went through but the attempt's result was lost (an error or a
\* timeout after the call, a worker that stopped): the activity is retried
\* and the mutex workflow will serve this sender more than once.
RequestUnacknowledged(s) ==
  /\ Attempt(s)
  /\ SignalWithStart(s)
  /\ UNCHANGED <<senderPc, acquireCh, lockRun, holder, overdue>>

\* The call failed.  wr is nil then, and wr.GetID() panics: a failed attempt
\* whatever the activity's nil error says.
RequestFailed(s) ==
  /\ Attempt(s)
  /\ UNCHANGED <<senderPc, acquireCh, lockRun, mutexVars>>

\* No attempt or no time is left: Lock returns the error and the workflow fails.
LockFails(s) ==
  /\ senderPc[s] = "requesting"
  /\ attempts[s] > 0
  /\ senderPc' = [senderPc EXCEPT ![s] = "closed"]
  /\ UNCHANGED <<attempts, acquireCh, lockRun, mutexVars>>

\* Lock receives "acquire-lock-event"; the critical operation starts.
EnterCritical(s) ==
  /\ senderPc[s] = "waiting"
  /\ acquireCh[s] > 0
  /\ acquireCh' = [acquireCh EXCEPT ![s] = @ - 1]
  /\ senderPc' = [senderPc EXCEPT ![s] = "critical"]
  /\ UNCHANGED <<attempts, lockRun, mutexVars>>

\* The sleep ends; unlockFunc asks the server to signal the release channel.
LeaveCritical(s) ==
  /\ senderPc[s] = "critical"
  /\ senderPc' = [senderPc EXCEPT ![s] = "unlocking"]
  /\ UNCHANGED <<attempts, acquireCh, lockRun, mutexVars>>

\* The release is buffered if the very run the sender was told is still open;
\* otherwise unlockFunc gets an error, which the sender ignores.
Unlock(s) ==
  /\ senderPc[s] = "unlocking"
  /\ senderPc' = [senderPc EXCEPT ![s] = "finishing"]
  /\ releaseCh' = IF mutexPc # "closed" /\ run = lockRun[s]
                  THEN [releaseCh EXCEPT ![s] = @ + 1]
                  ELSE releaseCh
  /\ UNCHANGED <<attempts, acquireCh, lockRun, mutexPc, run, requestCh, holder, overdue>>

CompleteSender(s) ==
  /\ senderPc[s] = "finishing"
  /\ senderPc' = [senderPc EXCEPT ![s] = "closed"]
  /\ UNCHANGED <<attempts, acquireCh, lockRun, mutexVars>>

\* External: a sender is terminated, cancelled or timed out, wherever it is.
CloseSender(s) ==
  /\ senderPc[s] # "closed"
  /\ senderPc' = [senderPc EXCEPT ![s] = "closed"]
  /\ UNCHANGED <<attempts, acquireCh, lockRun, mutexVars>>
------------------------------------------------------------------------------
(***************************************************************************)
(* The loop of MutexWorkflow.                                              *)
(***************************************************************************)

\* ReceiveAsync takes the next request; the acquire signal is on its way.
ReceiveRequest ==
  /\ mutexPc = "receiving"
  /\ requestCh # <<>>
  /\ holder' = Head(requestCh)
  /\ requestCh' = Tail(requestCh)
  /\ mutexPc' = "signalling"
  /\ UNCHANGED <<senderVars, run, releaseCh, overdue>>

\* Mutant of CompleteMutex: the run returns without draining its channel.
CompleteMutexUndrained ==
  /\ mutexPc = "receiving"
  /\ mutexPc' = "closed"
  /\ UNCHANGED <<senderVars, run, requestCh, holder, releaseCh, overdue>>

\* ReceiveAsync finds nothing: the loop breaks and the run completes.  A request
\* that arrives meanwhile makes the server refuse the completion.
CompleteMutex ==
  /\ mutexPc = "receiving"
  /\ requestCh = <<>>
  /\ mutexPc' = "closed"
  /\ UNCHANGED <<senderVars, run, requestCh, holder, releaseCh, overdue>>

\* The server delivers "acquire-lock-event"; the mutex run does not know yet.
SignalAcquire ==
  /\ mutexPc = "signalling"
  /\ senderPc[holder] # "closed"
  /\ acquireCh' = [acquireCh EXCEPT ![holder] = @ + 1]
  /\ overdue' = overdue \ {holder}
  /\ mutexPc' = "signalled"
  /\ UNCHANGED <<senderPc, attempts, lockRun, run, requestCh, holder, releaseCh>>

\* Mutant of SignalAcquireFails: the error fails the mutex workflow.
SignalAcquireFailsMutex ==
  /\ mutexPc = "signalling"
  /\ senderPc[holder] = "closed"
  /\ holder' = NoSender
  /\ mutexPc' = "closed"
  /\ UNCHANGED <<senderVars, run, requestCh, releaseCh, overdue>>

\* The sender is closed: the error is logged and the next request is taken.
SignalAcquireFails ==
  /\ mutexPc = "signalling"
  /\ senderPc[holder] = "closed"
  /\ holder' = NoSender
  /\ mutexPc' = "receiving"
  /\ UNCHANGED <<senderVars, run, requestCh, releaseCh, overdue>>

\* Mutant of AwaitRelease: the next request is taken without waiting.
AwaitNothing ==
  /\ mutexPc = "signalled"
  /\ mutexPc' = "receiving"
  /\ holder' = NoSender
  /\ UNCHANGED <<senderVars, run, requestCh, releaseCh, overdue>>

\* Get returns; the timer is set and the selector waits.
AwaitRelease ==
  /\ mutexPc = "signalled"
  /\ mutexPc' = "holding"
  /\ UNCHANGED <<senderVars, run, requestCh, holder, releaseCh, overdue>>

\* Mutant of ReceiveRelease: all senders release on one channel name.
ReceiveReleaseOfAnyone ==
  /\ mutexPc = "holding"
  /\ \E s \in Senders :
       /\ releaseCh[s] > 0
       /\ releaseCh' = [releaseCh EXCEPT ![s] = @ - 1]
  /\ holder' = NoSender
  /\ mutexPc' = "receiving"
  /\ UNCHANGED <<senderVars, run, requestCh, overdue>>

\* The selector takes a signal from the channel named after the holder.
ReceiveRelease ==
  /\ mutexPc = "holding"
  /\ releaseCh[holder] > 0
  /\ releaseCh' = [releaseCh EXCEPT ![holder] = @ - 1]
  /\ holder' = NoSender
  /\ mutexPc' = "receiving"
  /\ UNCHANGED <<senderVars, run, requestCh, overdue>>

\* The selector takes the timer instead, even if a release is buffered.
UnlockTimeout ==
  /\ mutexPc = "holding"
  /\ overdue' = overdue \cup {holder}
  /\ holder' = NoSender
  /\ mutexPc' = "receiving"
  /\ UNCHANGED <<senderVars, run, requestCh, releaseCh>>
------------------------------------------------------------------------------
SenderStep(s) ==
  \/ RequestLock(s)
  \/ RequestUnacknowledged(s)
  \/ RequestFailed(s)
  \/ LockFails(s)
  \/ EnterCritical(s)
  \/ LeaveCritical(s)
  \/ Unlock(s)
  \/ CompleteSender(s)

MutexStep ==
  \/ ReceiveRequest
  \/ CompleteMutex
  \/ SignalAcquire
  \/ SignalAcquireFails
  \/ AwaitRelease
  \/ ReceiveRelease
  \/ UnlockTimeout

Next ==
  \/ MutexStep
  \/ \E s \in Senders : SenderStep(s) \/ CloseSender(s)

Spec == Init /\ [][Next]_vars

\* Workers are up and the server keeps timers and undelivered signals: whatever
\* run can take a step eventually takes one.  Nobody has to close a sender.
Fairness ==
  /\ WF_vars(MutexStep)
  /\ \A s \in Senders : WF_vars(SenderStep(s))

FairSpec == Spec /\ Fairness
------------------------------------------------------------------------------
(***************************************************************************)
(* Properties.                                                             *)
(***************************************************************************)

\* The open run has lent the lock to s and has not taken it back.
Serving(s) == holder = s /\ mutexPc \in {"signalled", "holding"}

\* Two senders are in their critical operation together only if the lease of
\* one of them was ended by unlockTimeout: neither a retried request, a
\* terminated sender, a stale release nor a new mutex run can overlap them.
MutualExclusion ==
  \A s, t \in Senders :
    s # t /\ senderPc[s] = "critical" /\ senderPc[t] = "critical"
      => s \in overdue \/ t \in overdue

\* A sender blocked in Lock is never forgotten: its request is buffered in the
\* open run, or that run is about to signal it, or the signal is buffered.
NoLostRequest ==
  \A s \in Senders :
    senderPc[s] = "waiting" =>
      \/ acquireCh[s] > 0
      \/ mutexPc = "signalling" /\ holder = s
      \/ mutexPc # "closed" /\ \E i \in DOMAIN requestCh : requestCh[i] = s

\* The abstract lock of module LeaseLock: the lease is lent when the acquire
\* signal is delivered and ends with the release or the timeout.
Lease == INSTANCE LeaseLock
         WITH owner <- IF mutexPc \in {"signalled", "holding"} THEN holder ELSE NoSender,
              inside <- {s \in Senders : senderPc[s] = "critical"}

\* The workflows implement the abstract lock, timeouts and duplicates included.
ImplementsLease == Lease!LeaseSpec

\* Every sender that blocks in Lock is let through or closed: a holder that died
\* without releasing, or whose release failed, does not block the others.
WaiterServed ==
  \A s \in Senders : senderPc[s] = "waiting" ~> senderPc[s] # "waiting"
------------------------------------------------------------------------------
(***************************************************************************)
(* The inductive invariant behind MutualExclusion.                         *)
(***************************************************************************)

\* A sender that is in, or has a signal that lets it in, is the one being
\* served unless its lease ran out.
Covered ==
  \A s \in Senders :
    \/ senderPc[s] = "critical"
    \/ senderPc[s] \in {"requesting", "waiting"} /\ acquireCh[s] > 0
    => s \in overdue \/ Serving(s)

\* No release of s is buffered before s has left its critical operation.
NoEarlyRelease ==
  \A s \in Senders :
    senderPc[s] \in {"requesting", "waiting", "critical", "unlocking"} => releaseCh[s] = 0

\* What every step preserves.
IInv == TypeOK /\ Covered /\ NoEarlyRelease
==============================================================================
