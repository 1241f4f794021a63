----------------------------- MODULE EarlyReturn -----------------------------
(* early-return: an update-with-start answers once the transaction is initialized, and   *)
(* the workflow goes on to complete or cancel it. Init is a local activity: what it has   *)
(* made is recorded, and the update answered, with the workflow task; a worker that       *)
(* stops before runs it again.                                                            *)
EXTENDS Naturals

CONSTANTS MaxInits,      \* transactions Init makes
          MaxAttempts    \* attempts of the second phase

VARIABLES phase,      \* of the workflow: init, complete, cancel, completed, failed
          made,       \* transactions Init has made
          init,       \* what the task under way has: nothing, an error, a transaction
          tx,         \* the transaction recorded
          effects,    \* transactions completed and cancelled
          client,     \* what it has been told: nothing yet, an error, a transaction
          attempts    \* of the activity of the second phase

vars == <<phase, made, init, tx, effects, client, attempts>>

Nothing == 0
Error == MaxInits + 1

Init ==
  /\ phase = "init"
  /\ made = 0 /\ init = Nothing /\ tx = Nothing
  /\ effects = [completed |-> {}, cancelled |-> {}]
  /\ client = Nothing
  /\ attempts = 0

(* A transaction request that is not valid, or five seconds over. *)
InitTransaction ==
  /\ phase = "init" /\ init = Nothing
  /\ \/ /\ made < MaxInits
        /\ made' = made + 1 /\ init' = made + 1
     \/ made' = made /\ init' = Error
  /\ UNCHANGED <<phase, tx, effects, client, attempts>>

WorkerStops ==
  /\ phase = "init" /\ init /= Nothing /\ made < MaxInits
  /\ init' = Nothing
  /\ UNCHANGED <<phase, made, tx, effects, client, attempts>>

(* Mutant of Answer: the handler does not wait for initDone. *)
AnswerAtOnce == Nothing

(* What the update handler returns: it waits for initDone. *)
Answer == init

(* The task ends: the client may have given up by then. *)
RecordInit(waits) ==
  /\ phase = "init" /\ init /= Nothing
  /\ tx' = IF init = Error THEN Nothing ELSE init
  /\ phase' = IF init = Error THEN "cancel" ELSE "complete"
  /\ client' = IF waits THEN Answer ELSE Error
  /\ UNCHANGED <<made, init, effects, attempts>>

(* The activity is repeated until its result is known. *)
SecondPhase(known) ==
  /\ phase \in {"complete", "cancel"}
  /\ known \/ attempts < MaxAttempts
  /\ attempts' = attempts + 1
  /\ effects' = IF phase = "complete" THEN [effects EXCEPT !.completed = @ \union {tx}]
                                      ELSE [effects EXCEPT !.cancelled = @ \union {tx}]
  /\ phase' = CASE ~known -> phase [] phase = "complete" -> "completed" [] OTHER -> "failed"
  /\ UNCHANGED <<made, init, tx, client>>

----------------------------------------------------------------------------
Progress == InitTransaction \/ (\E waits \in BOOLEAN : RecordInit(waits)) \/ SecondPhase(TRUE)
Next == Progress \/ WorkerStops \/ SecondPhase(FALSE)

(* A client that was told of a transaction was told of the one that is completed, and    *)
(* that one is never cancelled; no other is touched, however often Init has run.         *)
ToldTrue ==
  /\ client \in 1..MaxInits => tx = client /\ phase \in {"complete", "completed"} /\ effects.cancelled = {}
  /\ phase /= "init" => client /= Nothing
  /\ effects.completed \subseteq {tx} \ {Nothing}
  /\ effects.completed = {} \/ effects.cancelled = {}

(* The inductive invariant: before the task with Init ends nobody knows of anything, and *)
(* the phase that follows is the one its outcome calls for.                              *)
Sizes == MaxInits \in Nat

TypeOK ==
  /\ phase \in {"init", "complete", "cancel", "completed", "failed"}
  /\ made \in 0..MaxInits /\ init \in 0..Error /\ tx \in 0..MaxInits /\ client \in 0..Error
  /\ effects \in [completed : SUBSET (0..MaxInits), cancelled : SUBSET (0..MaxInits)]

IInv ==
  /\ TypeOK
  /\ phase = "init" => client = Nothing /\ effects.completed = {} /\ effects.cancelled = {}
  /\ phase /= "init" => client /= Nothing
  /\ phase \in {"complete", "completed"} =>
       tx /= Nothing /\ effects.completed \subseteq {tx} /\ effects.cancelled = {} /\ client \in {tx, Error}
  /\ phase \in {"cancel", "failed"} => effects.completed = {} /\ client = Error
===============================================================================
