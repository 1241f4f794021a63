------------------------------ MODULE Schedules ------------------------------
(* The program of schedule/starter: a schedule without times is created and triggered     *)
(* once by hand, then changed to run every few seconds, paused and limited to some        *)
(* actions, then unpaused; when no actions remain it is deleted. Runs overlap only when    *)
(* triggered so; a time that comes while a run is open is skipped.                         *)
EXTENDS Naturals

CONSTANT RemainingActions   \* 10

VARIABLES step,      \* of the client
          schedule,  \* on the server
          open,      \* open runs of SampleScheduleWorkflow
          started    \* runs started: by hand, by the clock

vars == <<step, schedule, open, started>>

Init ==
  /\ step = "create"
  /\ schedule = [exists |-> FALSE, times |-> FALSE, paused |-> FALSE, limited |-> FALSE, remaining |-> 0]
  /\ open = 0 /\ started = [hand |-> 0, clock |-> 0]

Create ==
  /\ step = "create" /\ step' = "trigger"
  /\ schedule' = [schedule EXCEPT !.exists = TRUE]
  /\ UNCHANGED <<open, started>>

Trigger ==
  /\ step = "trigger" /\ step' = "update"
  /\ open' = open + 1 /\ started' = [started EXCEPT !.hand = @ + 1]
  /\ UNCHANGED schedule

(* Mutant of Update: the actions are counted and not limited. *)
UpdateUnlimited ==
  /\ step = "update" /\ step' = "unpause"
  /\ schedule' = [schedule EXCEPT !.times = TRUE, !.paused = TRUE, !.remaining = RemainingActions]
  /\ UNCHANGED <<open, started>>

(* The times, the pause and the limit come in one update. *)
Update ==
  /\ step = "update" /\ step' = "unpause"
  /\ schedule' = [schedule EXCEPT !.times = TRUE, !.paused = TRUE, !.limited = TRUE, !.remaining = RemainingActions]
  /\ UNCHANGED <<open, started>>

Unpause ==
  /\ step = "unpause" /\ step' = "wait"
  /\ schedule' = [schedule EXCEPT !.paused = FALSE]
  /\ UNCHANGED <<open, started>>

(* Describe, every five seconds, until nothing remains; the deferred Delete follows.       *)
Describe ==
  /\ step = "wait" /\ schedule.remaining = 0
  /\ step' = "delete"
  /\ UNCHANGED <<schedule, open, started>>

Delete ==
  /\ step = "delete" /\ step' = "done"
  /\ schedule' = [schedule EXCEPT !.exists = FALSE]
  /\ UNCHANGED <<open, started>>

(* A call fails: log.Fatalln ends the process, and deferred calls with it.                 *)
CallFails ==
  /\ step \notin {"done", "dead"}
  /\ step' = "dead"
  /\ UNCHANGED <<schedule, open, started>>

ClockStarts ==
  /\ schedule.exists /\ schedule.times /\ ~schedule.paused /\ open = 0
  /\ schedule.limited => schedule.remaining > 0
  /\ started.clock <= RemainingActions
  /\ open' = 1 /\ started' = [started EXCEPT !.clock = @ + 1]
  /\ schedule' = [schedule EXCEPT !.remaining = IF @ > 0 THEN @ - 1 ELSE 0]
  /\ UNCHANGED step

SampleScheduleWorkflow ==
  /\ open > 0
  /\ open' = open - 1
  /\ UNCHANGED <<step, schedule, started>>

Progress == Create \/ Trigger \/ Update \/ Unpause \/ Describe \/ Delete \/ ClockStarts \/ SampleScheduleWorkflow
Next == Progress \/ CallFails

----------------------------------------------------------------------------
(* The schedule never starts more runs than were asked for, also when the program dies    *)
(* and leaves it behind; a program that goes through to its end deletes it only after all  *)
(* of them have started.                                                                   *)
ActionsLimited ==
  /\ started.hand <= 1 /\ started.clock <= RemainingActions
  /\ step = "done" => ~schedule.exists /\ started.clock = RemainingActions

(* The inductive invariant: what was started by the clock and what remains make the      *)
(* limit from the update on, and nothing has been started before it.                       *)
Sizes == RemainingActions \in Nat

Steps == {"create", "trigger", "update", "unpause", "wait", "delete", "done", "dead"}

TypeOK ==
  /\ step \in Steps
  /\ schedule \in [exists : BOOLEAN, times : BOOLEAN, paused : BOOLEAN, limited : BOOLEAN, remaining : Nat]
  /\ open \in Nat
  /\ started \in [hand : Nat, clock : Nat]

IInv ==
  /\ TypeOK
  /\ started.hand <= (IF step \in {"create", "trigger"} THEN 0 ELSE 1)
  /\ step \in {"create", "trigger", "update"} => ~schedule.times
  /\ step \in {"unpause", "wait", "delete", "done"} => schedule.times
  /\ ~schedule.times => started.clock = 0
  /\ schedule.times => schedule.limited /\ started.clock + schedule.remaining = RemainingActions
  /\ step \in {"delete", "done"} => schedule.remaining = 0
  /\ step = "done" => ~schedule.exists

ScheduleEnds == step \in {"done", "dead"}
===============================================================================
