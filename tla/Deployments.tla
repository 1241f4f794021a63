------------------------------ MODULE Deployments ------------------------------
(* worker-versioning: workers of versions 1.0, 1.1 and 2.0 come up in any order, the     *)
(* application makes each the current one in its turn and drives two workflows with      *)
(* signals meanwhile. An auto-upgrading run takes its next task on the current version,  *)
(* which replays the commands in its history with its own code; a pinned run stays where *)
(* its first task was. Each version holds different code for the same workflow types.    *)
EXTENDS Naturals, Sequences

CONSTANT Signals   \* the signals of advanceWorkflows

VARIABLES up,       \* versions with a worker
          current,  \* the current version of the deployment (0: none)
          app,      \* position of the application
          run       \* auto, pinned, pinned2 -> see NotStarted

vars == <<up, current, app, run>>

Versions == {1, 2, 3}        \* 1.0, 1.1, 2.0
Runs == {"auto", "pinned", "pinned2"}
NotStarted == [status |-> "none", version |-> 0,       \* of its first task
               inbox |-> 0, conclude |-> FALSE,        \* signals sent and not received
               history |-> <<>>,                       \* commands
               waits |-> FALSE]                        \* for the activity of the last command

Init ==
  /\ up = {} /\ current = 0 /\ app = 1
  /\ run = [r \in Runs |-> NotStarted]

----------------------------------------------------------------------------
(* The code: the commands of n activities asked for by signal, given what the history    *)
(* says of the change marker, and the commands of a pinned run.                          *)
Activities(kind, n) == [i \in 1..n |-> kind]

AutoUpgradingWorkflowV1(n) == Activities("SomeActivity", n)

(* Mutant of AutoUpgradingWorkflowV1b: the new activity without GetVersion. *)
ChangedWithoutVersion(marked, n) == Activities("SomeIncompatibleActivity", n)

AutoUpgradingWorkflowV1b(marked, n) ==
  IF n = 0 THEN <<>>
  ELSE IF marked THEN <<"marker">> \o Activities("SomeIncompatibleActivity", n)
  ELSE Activities("SomeActivity", n)

PinnedWorkflowV1(concluded) == IF concluded THEN <<"SomeActivity">> ELSE <<>>
PinnedWorkflowV2(concluded) == IF concluded THEN <<"SomeActivity", "SomeIncompatibleActivity">> ELSE <<"SomeActivity">>

(* What is registered with the worker of each version. *)
AutoCode(v, marked, n) == IF v = 1 THEN AutoUpgradingWorkflowV1(n) ELSE AutoUpgradingWorkflowV1b(marked, n)
PinnedCode(v, concluded) == IF v = 1 THEN PinnedWorkflowV1(concluded) ELSE PinnedWorkflowV2(concluded)

TaskVersion(r) == IF r = "auto" THEN current ELSE run[r].version

(* The marker, if there is one, comes first. *)
HasMarker(r) == run[r].history /= <<>> /\ run[r].history[1] = "marker"
Asked(r) == Len(run[r].history) - (IF HasMarker(r) THEN 1 ELSE 0)

(* GetVersion: where a replay finds no marker at its first call the old branch is taken, *)
(* now and for the rest of the run; a first call that is no replay writes the marker.    *)
Marked(r) == run[r].history = <<>> \/ HasMarker(r)

(* The commands a replay has to come to are those of the history.                        *)
Replays(r, v) ==
  run[r].history = IF r = "auto" THEN AutoCode(v, Marked(r), Asked(r))
                   ELSE PinnedCode(v, run[r].status = "concluding" \/ run[r].status = "done")

----------------------------------------------------------------------------
(* The workers and the server. *)

WorkerStarts(v) ==
  /\ v \notin up
  /\ up' = up \union {v}
  /\ UNCHANGED <<current, app, run>>

(* The first task of a run: it waits for a signal, or, version 2 of the pinned workflow, *)
(* starts its first activity.                                                            *)
FirstTask(r) ==
  /\ run[r].status = "started" /\ current \in up
  /\ LET h == IF r = "auto" THEN <<>> ELSE PinnedCode(current, FALSE)
     IN run' = [run EXCEPT ![r] = [@ EXCEPT !.status = "running", !.version = current, !.history = h,
                                            !.waits = h /= <<>>]]
  /\ UNCHANGED <<up, current, app>>

(* A signal is received: an auto-upgrading run starts an activity for each of them.      *)
ReceiveSignal(r) ==
  /\ run[r].status = "running" /\ ~run[r].waits /\ run[r].inbox > 0 /\ TaskVersion(r) \in up
  /\ Replays(r, TaskVersion(r))
  /\ LET h == IF r = "auto" THEN AutoCode(TaskVersion(r), Marked(r), Asked(r) + 1) ELSE run[r].history
     IN run' = [run EXCEPT ![r] = [@ EXCEPT !.inbox = run[r].inbox - 1, !.waits = r = "auto", !.history = h]]
  /\ UNCHANGED <<up, current, app>>

(* The last signal: the auto-upgrading run is done, a pinned one starts its last activity. *)
ReceiveConclude(r) ==
  /\ run[r].status = "running" /\ ~run[r].waits /\ run[r].inbox = 0 /\ run[r].conclude /\ TaskVersion(r) \in up
  /\ Replays(r, TaskVersion(r))
  /\ LET h == IF r = "auto" THEN run[r].history ELSE PinnedCode(run[r].version, TRUE)
     IN run' = [run EXCEPT ![r] = [@ EXCEPT !.conclude = FALSE, !.waits = r /= "auto", !.history = h,
                                            !.status = IF r = "auto" THEN "done" ELSE "concluding"]]
  /\ UNCHANGED <<up, current, app>>

ActivityCompletes(r) ==
  /\ run[r].waits /\ TaskVersion(r) \in up
  /\ Replays(r, TaskVersion(r))
  /\ run' = [run EXCEPT ![r] = [@ EXCEPT !.waits = FALSE,
                                   !.status = IF run[r].status = "concluding" THEN "done" ELSE run[r].status]]
  /\ UNCHANGED <<up, current, app>>

----------------------------------------------------------------------------
(* The application. *)

(* It waits for a worker of the version and makes the version current. *)
waitForWorkerAndMakeCurrent(v) ==
  /\ app = <<1, 4, 6>>[v] /\ v \in up
  /\ current' = v /\ app' = app + 1
  /\ UNCHANGED <<up, run>>

StartRuns(R, at) ==
  /\ app = at /\ app' = at + 1
  /\ run' = [r \in Runs |-> IF r \in R THEN [run[r] EXCEPT !.status = "started"] ELSE run[r]]
  /\ UNCHANGED <<up, current>>

(* The signals go to both runs in turn; they are sent here in one step, and received one  *)
(* by one.                                                                               *)
advanceWorkflows ==
  /\ app \in {3, 5} /\ app' = IF app = 3 THEN 4 ELSE 6
  /\ run' = [r \in Runs |-> IF r = "pinned2" THEN run[r] ELSE [run[r] EXCEPT !.inbox = @ + Signals]]
  /\ UNCHANGED <<up, current>>

(* One run after the other is concluded and waited for. *)
Conclude(r) ==
  /\ app = CASE r = "auto" -> 8 [] r = "pinned" -> 9 [] OTHER -> 10
  /\ r /= "auto" => run[IF r = "pinned" THEN "auto" ELSE "pinned"].status = "done"
  /\ run' = [run EXCEPT ![r].conclude = TRUE]
  /\ app' = app + 1
  /\ UNCHANGED <<up, current>>

ServerStep == \E r \in Runs : FirstTask(r) \/ ReceiveSignal(r) \/ ReceiveConclude(r) \/ ActivityCompletes(r)
AppStep ==
  \/ \E v \in Versions : waitForWorkerAndMakeCurrent(v)
  \/ StartRuns({"auto", "pinned"}, 2) \/ StartRuns({"pinned2"}, 7)
  \/ advanceWorkflows \/ \E r \in Runs : Conclude(r)
Progress == ServerStep \/ AppStep \/ \E v \in Versions : WorkerStarts(v)
Next == Progress

----------------------------------------------------------------------------
(* Whatever version takes the next task of a run, its code comes to the commands that    *)
(* are in the history: upgrades in the middle of a run are safe, and the runs whose code *)
(* changed without care are those that stay on their version.                            *)
UpgradesReplay ==
  \A r \in Runs : run[r].status \in {"running", "concluding"} => Replays(r, TaskVersion(r))

(* Every run is concluded. *)
RunsConclude == \A r \in Runs : run[r].status = "done"

(* The inductive invariant: the marker is in the history of the auto-upgrading run only   *)
(* when a version that knows it is the current one, which it stays.                       *)
Sizes == Signals \in Nat

TypeOK ==
  /\ up \subseteq Versions /\ current \in 0..3 /\ app \in 1..11
  /\ run \in [Runs -> [status : {"none", "started", "running", "concluding", "done"}, version : 0..3,
                       inbox : Nat, conclude : BOOLEAN, waits : BOOLEAN,
                       history : Seq({"marker", "SomeActivity", "SomeIncompatibleActivity"})]]

AutoHistory ==
  LET n == Asked("auto") IN
  \/ run["auto"].history = AutoUpgradingWorkflowV1(n)
  \/ current > 1 /\ n > 0 /\ run["auto"].history = AutoUpgradingWorkflowV1b(TRUE, n)

PinnedHistory(r) ==
  /\ run[r].status = "running" => run[r].history = PinnedCode(run[r].version, FALSE)
  /\ run[r].status \in {"concluding", "done"} => run[r].history = PinnedCode(run[r].version, TRUE)

IInv ==
  /\ TypeOK
  /\ app <= 4 => current <= 1
  /\ app <= 2 => run["auto"].status = "none"
  /\ AutoHistory
  /\ run["auto"].status /= "concluding"
  /\ run["auto"].status \in {"none", "started"} => run["auto"].history = <<>>
  /\ \A r \in Runs \ {"auto"} : PinnedHistory(r)
===============================================================================
