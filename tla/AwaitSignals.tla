----------------------------- MODULE AwaitSignals -----------------------------
(* await-signals: three signals to be processed in order, whatever order they come    *)
(* in; Listen runs beside the workflow. Time is counted in units of ten seconds.      *)
(* The worker is up: no time passes while the workflow has something to do.           *)
EXTENDS Integers

CONSTANT MaxTime   \* when the clock stops

VARIABLES clock,
          signals,   \* what AwaitSignals knows: those received, when the first came
          main,      \* the signal waited for, until when, and how the workflow ended
          sender     \* the signals the starter has not sent yet

vars == <<clock, signals, main, sender>>

SignalToSignalTimeout == 3
FromFirstSignalTimeout == 6
NotYet == -1

Init ==
  /\ clock = 0
  /\ signals = [received |-> {}, first |-> NotYet]
  /\ main = [awaits |-> 1, until |-> MaxTime + 1, ended |-> "no"]
  /\ sender = 1..3

Open == main.ended = "no"

SendSignal(i) ==
  /\ Open /\ i \in sender
  /\ sender' = sender \ {i}
  /\ signals' = [received |-> signals.received \union {i},
                 first |-> IF signals.first = NotYet THEN clock ELSE signals.first]
  /\ UNCHANGED <<clock, main>>

MinOf(a, b) == IF a < b THEN a ELSE b
TotalLeft == FromFirstSignalTimeout - (clock - signals.first)

(* Mutant of GetNextTimeout: the total is not looked at. *)
SameTimeout == SignalToSignalTimeout

(* At most 0: no time is left. *)
GetNextTimeout == MinOf(SignalToSignalTimeout, TotalLeft)

ProcessSignal ==
  /\ Open /\ main.awaits \in signals.received
  /\ main' = IF main.awaits = 3 THEN [main EXCEPT !.ended = "done"]
             ELSE IF GetNextTimeout <= 0 THEN [main EXCEPT !.ended = "no time left"]
             ELSE [main EXCEPT !.awaits = @ + 1, !.until = clock + GetNextTimeout]
  /\ UNCHANGED <<clock, signals, sender>>

(* The condition of AwaitWithTimeout goes before its timer. *)
TimedOut ==
  /\ Open /\ clock >= main.until /\ main.awaits \notin signals.received
  /\ main' = [main EXCEPT !.ended = "timed out"]
  /\ UNCHANGED <<clock, signals, sender>>

Tick ==
  /\ Open /\ clock < MaxTime
  /\ main.awaits \notin signals.received /\ clock < main.until
  /\ clock' = clock + 1
  /\ UNCHANGED <<signals, main, sender>>

----------------------------------------------------------------------------
Progress == ProcessSignal \/ TimedOut
Next == Progress \/ Tick \/ \E i \in 1..3 : SendSignal(i)

Spec == Init /\ [][Next]_vars /\ WF_vars(Progress)

(* A workflow that is done has had all signals within sixty seconds of the first,       *)
(* whichever that was, and no wait of its outlasts them.                                *)
DoneInTime ==
  /\ main.ended = "done" => signals.received = 1..3 /\ TotalLeft >= 0
  /\ Open /\ main.awaits > 1 => clock <= main.until /\ TotalLeft >= 0

(* The inductive invariant: what is waited for has not been passed over, and from the   *)
(* second signal on every wait is over when the sixty seconds are.                       *)
Sizes == MaxTime \in Nat

TypeOK ==
  /\ clock \in Nat
  /\ sender \in SUBSET (1..3)
  /\ signals \in [received : SUBSET (1..3), first : Nat \union {NotYet}]
  /\ main \in [awaits : 1..3, until : Int, ended : {"no", "done", "no time left", "timed out"}]

IInv ==
  /\ TypeOK
  /\ signals.received /= {} => signals.first /= NotYet
  /\ \A i \in 1..3 : i < main.awaits \/ main.ended = "done" => i \in signals.received
  /\ Open /\ main.awaits > 1 => clock <= main.until /\ main.until <= signals.first + FromFirstSignalTimeout
  /\ main.ended = "done" => TotalLeft >= 0

(* Comment of line 129, where Signal1 has been processed: "No time left. At this point   *)
(* this cannot really happen." It does: nothing limits the wait for Signal1, and         *)
(* another signal may have come first.                                                   *)
TimeLeftForSignal2 == main.ended = "no time left" => main.awaits > 1
===============================================================================
