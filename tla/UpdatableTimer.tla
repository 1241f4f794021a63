---------------------------- MODULE UpdatableTimer ----------------------------
(* updatabletimer: a sleep whose end can be moved while it lasts. Time is counted in   *)
(* units of ten seconds; the worker may be late, so that a fired timer and an update    *)
(* may reach the workflow in one task.                                                  *)
EXTENDS Naturals, Sequences

CONSTANTS MaxClock,      \* when the clock stops
          MaxUpdates     \* updates sent

VARIABLES now,
          timer,     \* u.wakeUpTime, when the outstanding timer fires, whether it has fired
          channel,   \* the updates sent and not received
          sleep,     \* how SleepUntil goes: sleeping, woken, canceled
          sent       \* updates sent so far

vars == <<now, timer, channel, sleep, sent>>

(* The starter: a wake-up in thirty seconds. *)
Init ==
  /\ now = 0
  /\ timer = [wakeUpTime |-> 3, due |-> 3, fired |-> FALSE]
  /\ channel = <<>>
  /\ sleep = "sleeping"
  /\ sent = 0

(* The updater of the sample moves it to twenty seconds from now; any time may be sent. *)
SignalUpdate(wakeUpTime) ==
  /\ sleep = "sleeping" /\ sent < MaxUpdates /\ wakeUpTime <= MaxClock
  /\ channel' = Append(channel, wakeUpTime)
  /\ sent' = sent + 1
  /\ UNCHANGED <<now, timer, sleep>>

CancelSleep ==
  /\ sleep = "sleeping"
  /\ sleep' = "canceled"
  /\ UNCHANGED <<now, timer, channel, sent>>

TimerFires ==
  /\ sleep = "sleeping" /\ ~timer.fired /\ timer.due <= now
  /\ timer' = [timer EXCEPT !.fired = TRUE]
  /\ UNCHANGED <<now, channel, sleep, sent>>

Tick ==
  /\ sleep = "sleeping" /\ now < MaxClock
  /\ now' = now + 1
  /\ UNCHANGED <<timer, channel, sleep, sent>>

----------------------------------------------------------------------------
(* Mutant of Rescheduled: the outstanding timer is kept. *)
KeepTimer(wakeUpTime) == [timer EXCEPT !.wakeUpTime = wakeUpTime]

(* A time that is past gives a timer that fires at once. *)
Rescheduled(wakeUpTime) == [wakeUpTime |-> wakeUpTime, due |-> wakeUpTime, fired |-> FALSE]

(* The selector looks at the timer first. *)
WakeUp ==
  /\ sleep = "sleeping" /\ timer.fired
  /\ sleep' = "woken"
  /\ UNCHANGED <<now, timer, channel, sent>>

ReceiveUpdate ==
  /\ sleep = "sleeping" /\ ~timer.fired /\ channel /= <<>>
  /\ timer' = Rescheduled(Head(channel))
  /\ channel' = Tail(channel)
  /\ UNCHANGED <<now, sleep, sent>>

----------------------------------------------------------------------------
Progress == TimerFires \/ WakeUp \/ ReceiveUpdate \/ Tick
Next == Progress \/ CancelSleep \/ \E t \in {now + 1, now + 2} : SignalUpdate(t)

(* It sleeps until the time a query would tell, neither shorter nor for a timer that     *)
(* was given up. An update that comes with the fired timer is not heard of.              *)
WokenOnTime ==
  /\ sleep = "woken" => now >= timer.wakeUpTime
  /\ sleep = "sleeping" => timer.due = timer.wakeUpTime

(* The inductive invariant: there is one timer, that of the wake-up time.                *)
TypeOK ==
  /\ now \in Nat /\ sent \in Nat
  /\ timer \in [wakeUpTime : Nat, due : Nat, fired : BOOLEAN]
  /\ channel \in Seq(Nat)
  /\ sleep \in {"sleeping", "woken", "canceled"}

IInv ==
  /\ TypeOK
  /\ timer.due = timer.wakeUpTime
  /\ timer.fired => timer.due <= now
  /\ sleep = "woken" => timer.fired

SleepEnds == sleep /= "sleeping"
===============================================================================
