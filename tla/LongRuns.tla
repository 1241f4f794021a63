------------------------------- MODULE LongRuns -------------------------------
(* Workflows that live on through runs and long waits: child-workflow-continue-as-new    *)
(* ("child"), cron, sleep-for-days ("sleep") and the Counter of update ("counter").      *)
EXTENDS Integers, Sequences

CONSTANTS RunCount,      \* of the child, 5 in the code
          MaxClock,      \* cron runs, and emails sent
          MaxUpdates     \* updates of the counter

VARIABLES sample, clock, state, main, history

vars == <<sample, clock, state, main, history>>

Init ==
  /\ sample \in {"child", "cron", "sleep", "counter"}
  /\ clock = 1
  (* What one run hands on or keeps: totalCount and runCount; the last completion        *)
  (* result of the cron; the counter.                                                    *)
  /\ state = [total |-> 0, runs |-> RunCount, last |-> 0, counter |-> 0]
  /\ main = [at |-> "start", complete |-> FALSE, this |-> 0]
  /\ history = <<>>      \* what was done: intervals, emails, answered updates

Open == main.at /= "returned"
Is(s) == sample = s

(* child: each run counts itself, the last one tells the parent. *)
ChildRun ==
  /\ Is("child") /\ Open
  /\ state' = [state EXCEPT !.total = @ + 1, !.runs = @ - 1]
  /\ main' = IF state.runs = 1 THEN [main EXCEPT !.at = "returned"] ELSE main
  /\ UNCHANGED <<sample, clock, history>>

(* Mutant of LastRunTime: the time of the run before, whatever became of it. *)
LastRunTimeTried == clock - 1

(* cron: the result of the last run that completed; 0 if there is none. *)
LastRunTime == state.last

CronRun ==
  /\ Is("cron") /\ main.at = "start" /\ clock < MaxClock
  /\ main' = [main EXCEPT !.at = "work", !.this = clock]
  /\ UNCHANGED <<sample, clock, state, history>>

(* The next run is scheduled whether DoSomething has succeeded or not. *)
DoSomething(succeeds) ==
  /\ Is("cron") /\ main.at = "work"
  /\ history' = IF succeeds THEN Append(history, <<LastRunTime, main.this>>) ELSE history
  /\ state' = IF succeeds THEN [state EXCEPT !.last = main.this] ELSE state
  /\ main' = [main EXCEPT !.at = "start"]
  /\ clock' = clock + 1
  /\ UNCHANGED sample

(* sleep-for-days: an email, then thirty days or the signal. *)
SendEmail ==
  /\ Is("sleep") /\ main.at = "start"
  /\ history' = Append(history, <<clock, clock>>)
  /\ main' = [main EXCEPT !.at = "sleep"]
  /\ UNCHANGED <<sample, clock, state>>

SignalComplete ==
  /\ Is("sleep") /\ Open /\ ~main.complete
  /\ main' = [main EXCEPT !.complete = TRUE]
  /\ UNCHANGED <<sample, clock, state, history>>

MonthIsOver ==
  /\ Is("sleep") /\ main.at = "sleep" /\ clock < MaxClock
  /\ clock' = clock + 1
  /\ main' = [main EXCEPT !.at = "awake"]
  /\ UNCHANGED <<sample, state, history>>

(* The selector looks at the timer first; the signal is there in the next round. *)
GoOnOrReturn ==
  /\ Is("sleep")
  /\ \/ main.at = "awake" /\ main' = [main EXCEPT !.at = "start"]
     \/ main.at = "sleep" /\ main.complete /\ main' = [main EXCEPT !.at = "returned"]
  /\ UNCHANGED <<sample, clock, state, history>>

(* counter: the validator refuses what is negative; the answer is the old value. *)
nonNegative(i) == i >= 0

FetchAndAdd(i) ==
  /\ Is("counter") /\ Open /\ Len(history) < MaxUpdates
  /\ nonNegative(i)
  /\ history' = Append(history, <<state.counter, i>>)
  /\ state' = [state EXCEPT !.counter = @ + i]
  /\ UNCHANGED <<sample, clock, main>>

Done ==
  /\ Is("counter") /\ Open
  /\ main' = [main EXCEPT !.at = "returned"]
  /\ UNCHANGED <<sample, clock, state, history>>

----------------------------------------------------------------------------
Progress ==
  \/ ChildRun \/ CronRun \/ SendEmail \/ MonthIsOver \/ GoOnOrReturn
  \/ \E succeeds \in BOOLEAN : DoSomething(succeeds)
Next == Progress \/ SignalComplete \/ Done \/ \E i \in {-1, 0, 2} : FetchAndAdd(i)

(* What the runs did fits together: the intervals of the cron leave no gap and do not    *)
(* overlap, however many runs failed between them; the answers of the counter are those   *)
(* of its updates one after the other; the child tells the number of its runs; and an     *)
(* email goes out for every month that begins.                                           *)
HistoryFits ==
  /\ Is("cron") => \A i \in DOMAIN history : history[i][1] = IF i = 1 THEN 0 ELSE history[i - 1][2]
  /\ Is("counter") => \A i \in DOMAIN history : history[i][1] = IF i = 1 THEN 0 ELSE history[i - 1][1] + history[i - 1][2]
  /\ Is("child") => state.total + state.runs = RunCount /\ (~Open => state.total = RunCount)
  /\ Is("sleep") /\ main.at = "sleep" => Len(history) = clock

(* The inductive invariant: what a run hands on is what the history ends with.           *)
Sizes == RunCount \in Nat \ {0}

TypeOK ==
  /\ clock \in Nat
  /\ state \in [total : Nat, runs : Nat, last : Nat, counter : Nat]
  /\ main \in [at : {"start", "work", "sleep", "awake", "returned"}, complete : BOOLEAN, this : Nat]
  /\ history \in Seq(Nat \X Nat)

IInv ==
  /\ TypeOK
  /\ HistoryFits
  /\ Is("cron") => state.last = IF history = <<>> THEN 0 ELSE history[Len(history)][2]
  /\ Is("counter") => state.counter = IF history = <<>> THEN 0 ELSE history[Len(history)][1] + history[Len(history)][2]
  /\ Is("child") => (Open <=> state.runs > 0)
  /\ Is("sleep") /\ main.at \in {"start", "awake"} => Len(history) = clock - 1
===============================================================================
