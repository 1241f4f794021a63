----------------------------- MODULE AgentApproval -----------------------------
(* googleadk/humanintheloop: passes of an agent whose tool deletes a resource only     *)
(* when a human has confirmed it. A pass ends with the calls of the tool that wait for *)
(* a confirmation; the workflow takes one decision from the signal channel, gives it   *)
(* to the first of them unless it names one, and runs the next pass with it.           *)
EXTENDS Naturals, Sequences, SequencesExt

CONSTANTS MaxCalls,      \* calls of delete_resource by the agent
          MaxDecisions   \* decisions signalled

VARIABLES pass,          \* the phase, the decision it answers and res.Approved
          pending,       \* calls that wait for a confirmation, in the order of their events
          decisions,     \* confirmation signals not yet received: [names, confirmed]
          made,          \* number of decisions signalled
          verdict        \* per call: "unasked", "asked", "deleted", "blocked"

vars == <<pass, pending, decisions, made, verdict>>

Calls == 1..MaxCalls
NoCall == 0

Init ==
  /\ pass = [phase |-> "run", answers |-> NoCall, confirmed |-> FALSE, approved |-> FALSE]
  /\ pending = <<>>
  /\ decisions = <<>>
  /\ made = 0
  /\ verdict = [c \in Calls |-> "unasked"]

(* The human may decide before the agent has asked, and name a call or none. *)
SignalDecision(names, confirmed) ==
  /\ pass.phase /= "returned"
  /\ made < MaxDecisions
  /\ names \in {NoCall} \union {c \in Calls : verdict[c] = "asked"}
  /\ made' = made + 1
  /\ decisions' = Append(decisions, [names |-> names, confirmed |-> confirmed])
  /\ UNCHANGED <<pass, pending, verdict>>

(* Mutant of deleteResource: it does not look for a ToolConfirmation. *)
deleteResourceUnasked(answered) == "deleted"

(* Without a ToolConfirmation the tool asks for one; with one, whatever it says, it   *)
(* deletes.                                                                          *)
deleteResource(answered) == IF answered THEN "deleted" ELSE "asked"

(* External: the agent library calls the tool again when the answer is a consent, and *)
(* blocks the call itself when it is a refusal.                                      *)
Redispatch(confirmed) == IF confirmed THEN deleteResource(TRUE) ELSE "blocked"

(* The calls of an agent are numbered in the order of their events. *)
InOrder(calls) == SetToSortSeq(calls, <)

(* One pass: the answered call is dispatched again, the agent may call the tool for  *)
(* more resources, and whatever waits surfaces again.                                *)
RunPass(asked) ==
  /\ pass.phase = "run"
  /\ \A c \in asked : verdict[c] = "unasked"
  /\ verdict' = [c \in Calls |->
                   IF c \in asked THEN deleteResource(FALSE)
                   ELSE IF c = pass.answers /\ verdict[c] = "asked" THEN Redispatch(pass.confirmed)
                   ELSE verdict[c]]
  /\ pending' = InOrder({c \in Calls : verdict'[c] = "asked"})
  /\ pass' = [pass EXCEPT !.phase = IF pending' = <<>> THEN "returned" ELSE "wait"]
  /\ UNCHANGED <<decisions, made>>

(* A failure of the model ends the workflow. *)
PassFails ==
  /\ pass.phase = "run"
  /\ pass' = [pass EXCEPT !.phase = "returned"]
  /\ UNCHANGED <<pending, decisions, made, verdict>>

ReceiveDecision ==
  /\ pass.phase = "wait"
  /\ decisions /= <<>>
  /\ LET decision == Head(decisions)
     IN pass' = [phase |-> "run",
                 answers |-> IF decision.names = NoCall THEN Head(pending) ELSE decision.names,
                 confirmed |-> decision.confirmed, approved |-> decision.confirmed]
  /\ decisions' = Tail(decisions)
  /\ UNCHANGED <<pending, made, verdict>>

Progress == ReceiveDecision \/ PassFails \/ \E asked \in SUBSET Calls : RunPass(asked)
Next == Progress \/ \E names \in Calls \union {NoCall}, confirmed \in BOOLEAN : SignalDecision(names, confirmed)

----------------------------------------------------------------------------
(* A resource is deleted or spared by the pass that answers its call, and one pass   *)
(* deletes at most one: each deletion has a confirmed decision of its own.           *)
DeletionConfirmed ==
  \A c \in Calls : verdict[c] /= "deleted" /\ verdict'[c] = "deleted"
                     => /\ verdict[c] = "asked" /\ pass.answers = c /\ pass.confirmed
                        /\ \A d \in Calls \ {c} : verdict'[d] = "deleted" => verdict[d] = "deleted"
==============================================================================
