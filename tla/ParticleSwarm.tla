----------------------------- MODULE ParticleSwarm -----------------------------
(* pso: PSOWorkflow makes a swarm of particles and lets a child workflow move them step   *)
(* by step, several runs of it after each other; it tries again with another swarm when   *)
(* the goal was not reached. A position is its fitness: the smaller the better.           *)
EXTENDS Naturals, FiniteSets, FiniteSetsExt

CONSTANTS Particles,            \* of a swarm
          SwarmSteps,           \* of the settings: 100000 in the code
          ContinueAsNewEvery,   \* 10 in the code
          NumberOfAttempts      \* 5 in the code

VARIABLES parent, child, swarm, task, best

vars == <<parent, child, swarm, task, best>>

Fitness == 0..2
Goal == 1                 \* reached below
Unknown == 3              \* 1e20

(* swarm: Gbest and the Pbest of each particle; task: activities under way, done, failed. *)
(* best: the best fitness any activity of this attempt has reported (history).            *)
NoSwarm == [gbest |-> Unknown, pbest |-> [p \in Particles |-> Unknown]]
NotStarted == [p \in Particles |-> "none"]

Init ==
  /\ parent = [at |-> "init", attempt |-> 1]
  /\ child = [at |-> "none", step |-> 0, moved |-> 0]
  /\ swarm = NoSwarm
  /\ task = NotStarted
  /\ best = Unknown

Gathering == parent.at = "init" \/ child.at = "moving"
MinOf(a, b) == IF a < b THEN a ELSE b

(* NewSwarm, and each iteration of Run: one activity per particle, all at once. *)
StartActivities ==
  /\ Gathering /\ task = NotStarted
  /\ task' = [p \in Particles |-> "running"]
  /\ UNCHANGED <<parent, child, swarm, best>>

(* InitParticleActivity and UpdateParticleActivity: the particle is put or moved         *)
(* somewhere, and remembers the best place it has been at.                                *)
UpdateFitness(p, fitness) ==
  /\ Gathering /\ task[p] = "running"
  /\ task' = [task EXCEPT ![p] = "done"]
  /\ swarm' = [swarm EXCEPT !.pbest[p] = MinOf(@, fitness)]
  /\ best' = MinOf(best, fitness)
  /\ UNCHANGED <<parent, child>>

(* The fifth attempt has failed. *)
ActivityFails(p) ==
  /\ Gathering /\ task[p] = "running"
  /\ task' = [task EXCEPT ![p] = "failed"]
  /\ UNCHANGED <<parent, child, swarm, best>>

(* The first error that comes through the channel is returned. *)
SwarmFails ==
  /\ Gathering /\ \E p \in Particles : task[p] = "failed"
  /\ parent' = [parent EXCEPT !.at = "failed"]
  /\ child' = [child EXCEPT !.at = IF @ = "moving" THEN "failed" ELSE @]
  /\ UNCHANGED <<swarm, task, best>>

AllReceived == \A p \in Particles : task[p] = "done"

(* Mutant of updateBest: the last particle, be it better or not. *)
updateBestLast == swarm.pbest[Max(Particles)]

updateBest == MinOf(swarm.gbest, Min({swarm.pbest[p] : p \in Particles}))

NewSwarm ==
  /\ parent.at = "init" /\ AllReceived
  /\ swarm' = [swarm EXCEPT !.gbest = updateBest]
  /\ task' = NotStarted
  /\ parent' = [parent EXCEPT !.at = "child"]
  /\ child' = [at |-> "moving", step |-> 1, moved |-> 0]
  /\ UNCHANGED best

(* Run, when all particles have moved: stop at the goal or at the last step, or go on in   *)
(* this run or, with the swarm and the next step as its input, in another.                 *)
Continues == child.step % ContinueAsNewEvery = 0

Iterate ==
  /\ child.at = "moving" /\ AllReceived
  /\ swarm' = [swarm EXCEPT !.gbest = updateBest]
  /\ task' = NotStarted
  /\ child' = [child EXCEPT !.moved = @ + 1,
                            !.at = IF updateBest < Goal \/ child.step = SwarmSteps THEN "returned"
                                   ELSE IF Continues THEN "continues" ELSE "moving",
                            !.step = IF updateBest < Goal \/ child.step = SwarmSteps \/ Continues THEN @ ELSE @ + 1]
  /\ UNCHANGED <<parent, best>>

ContinueAsNew ==
  /\ child.at = "continues"
  /\ child' = [child EXCEPT !.at = "moving", !.step = @ + 1]
  /\ UNCHANGED <<parent, swarm, task, best>>

(* A run of the child has one minute. *)
ChildTimesOut ==
  /\ child.at = "moving"
  /\ child' = [child EXCEPT !.at = "failed"]
  /\ parent' = [parent EXCEPT !.at = "failed"]
  /\ UNCHANGED <<swarm, task, best>>

Success == swarm.gbest < Goal

(* The loop starts at 1 and stops before NumberOfAttempts. *)
ChildReturns ==
  /\ parent.at = "child" /\ child.at = "returned"
  /\ IF Success \/ parent.attempt + 1 >= NumberOfAttempts
     THEN /\ parent' = [parent EXCEPT !.at = IF Success THEN "reached" ELSE "unable"]
          /\ UNCHANGED <<child, swarm, best>>
     ELSE /\ parent' = [at |-> "init", attempt |-> parent.attempt + 1]
          /\ child' = [child EXCEPT !.at = "none"]
          /\ swarm' = NoSwarm
          /\ best' = Unknown
  /\ UNCHANGED task

----------------------------------------------------------------------------
Progress ==
  \/ StartActivities \/ SwarmFails \/ NewSwarm \/ Iterate \/ ContinueAsNew \/ ChildReturns
  \/ \E p \in Particles : ActivityFails(p) \/ \E fitness \in Fitness : UpdateFitness(p, fitness)
Next == Progress \/ ChildTimesOut

(* The swarm forgets nothing, in whichever run its particles have moved: between two      *)
(* iterations Gbest is the best place any particle has ever reported. A child returns     *)
(* at once when that is good enough, and else has moved its particles SwarmSteps times.  *)
BestIsBest ==
  /\ parent.at \in {"child", "reached", "unable"} /\ task = NotStarted => swarm.gbest = best
  /\ child.at \in {"moving", "continues"} /\ task = NotStarted /\ child.moved > 0 => swarm.gbest >= Goal
  /\ child.at = "moving" => child.moved + 1 = child.step
  /\ child.at = "returned" => swarm.gbest < Goal \/ child.moved = SwarmSteps
  /\ parent.at = "reached" => Success
  /\ parent.at = "unable" => ~Success

SwarmEnds == parent.at \in {"reached", "unable", "failed"}

(* The inductive invariant: the best report is that of Gbest or of a particle.            *)
Sizes ==
  /\ Particles \subseteq Nat /\ Particles /= {}
  /\ SwarmSteps \in Nat /\ ContinueAsNewEvery \in Nat \ {0} /\ NumberOfAttempts \in Nat

Known == Fitness \union {Unknown}
TypeOK ==
  /\ parent \in [at : {"init", "child", "reached", "unable", "failed"}, attempt : Nat]
  /\ child \in [at : {"none", "moving", "continues", "returned", "failed"}, step : Nat, moved : Nat]
  /\ swarm \in [gbest : Known, pbest : [Particles -> Known]]
  /\ task \in [Particles -> {"none", "running", "done", "failed"}]
  /\ best \in Known

BestKept ==
  /\ best <= swarm.gbest /\ \A p \in Particles : best <= swarm.pbest[p]
  /\ best = swarm.gbest \/ \E p \in Particles : best = swarm.pbest[p]

IInv ==
  /\ TypeOK /\ BestKept /\ BestIsBest
  /\ parent.at = "init" => child.at = "none"
  /\ parent.at = "child" => child.at \in {"moving", "continues", "returned"}
  /\ parent.at \in {"reached", "unable"} => child.at = "returned"
  /\ child.at \in {"moving", "continues", "returned"} => parent.at \in {"child", "reached", "unable"}
  /\ child.at \in {"moving", "continues"} => parent.at = "child"
  /\ child.at \in {"continues", "returned"} => task = NotStarted
  /\ child.at = "continues" => child.moved = child.step
===============================================================================
