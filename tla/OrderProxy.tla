------------------------------ MODULE OrderProxy ------------------------------
(* synchronous-proxy: a UI that asks for an email, a size and a color, one             *)
(* UpdateOrderWorkflow per answer typed, and the OrderWorkflow it sends it to and      *)
(* whose response it waits for. The order does not look at the key of a request: it    *)
(* takes it for whatever it asks at the moment. The UI may fail to hear of an update   *)
(* that was made (its call fails); it then asks the same again.                        *)
EXTENDS Naturals, Sequences

CONSTANTS MaxRequests,   \* answers typed
          MaxUnheard     \* updates the UI does not hear of

VARIABLES ui,            \* the stage it asks for, the request under way (0: none), unheard updates
          request,       \* per UpdateOrderWorkflow: where it is, its stage, and if its value suits that
          order,         \* OrderWorkflow: stage, where it is, the request it serves, the shipping
          inbox          \* proxy-request-signal: requests sent and not received

vars == <<ui, request, order, inbox>>

RegisterStage == 1
SizeStage == 2
ColorStage == 3
ShippingStage == 4
Requests == 1..MaxRequests

Init ==
  /\ ui = [stage |-> RegisterStage, waitsFor |-> 0, unheard |-> 0]
  /\ request = [r \in Requests |-> [at |-> "none", stage |-> RegisterStage, suits |-> TRUE]]
  /\ order = [at |-> "receive", stage |-> RegisterStage, serves |-> 0, filled |-> <<>>]
  /\ inbox = <<>>

(* A value is typed, one that suits the question or not; an update starts. *)
PromptAndReadInput(r, suits) ==
  /\ ui.stage < ShippingStage
  /\ ui.waitsFor = 0
  /\ request[r].at = "none" /\ \A p \in 1..(r - 1) : request[p].at /= "none"
  /\ ui' = [ui EXCEPT !.waitsFor = r]
  /\ request' = [request EXCEPT ![r] = [at |-> "send", stage |-> ui.stage, suits |-> suits]]
  /\ UNCHANGED <<order, inbox>>

(* SendRequest fails when the order is closed. *)
SendRequest(r) ==
  /\ request[r].at = "send"
  /\ IF order.at = "closed"
     THEN /\ request' = [request EXCEPT ![r].at = "failed"]
          /\ UNCHANGED inbox
     ELSE /\ request' = [request EXCEPT ![r].at = "wait"]
          /\ inbox' = Append(inbox, r)
  /\ UNCHANGED <<ui, order>>

(* The UI goes on to the next question when it hears of a success, and asks again   *)
(* on any error.                                                                    *)
UpdateOrderReturns(r) ==
  /\ ui.waitsFor = r
  /\ request[r].at \in {"done", "failed"}
  /\ ui' = [ui EXCEPT !.waitsFor = 0, !.stage = IF request[r].at = "done" THEN @ + 1 ELSE @]
  /\ UNCHANGED <<request, order, inbox>>

UpdateOrderUnheard(r) ==
  /\ ui.waitsFor = r
  /\ ui.unheard < MaxUnheard
  /\ ui' = [ui EXCEPT !.waitsFor = 0, !.unheard = @ + 1]
  /\ UNCHANGED <<request, order, inbox>>

ReceiveRequest ==
  /\ order.at = "receive"
  /\ inbox /= <<>>
  /\ order' = [order EXCEPT !.at = "validate", !.serves = Head(inbox)]
  /\ inbox' = Tail(inbox)
  /\ UNCHANGED <<ui, request>>

(* Mutant of Valid: the validation does not tell sizes from colors. *)
ValidWhateverStage(r) == order.stage = RegisterStage \/ request[r].suits

(* RegisterEmail takes anything; sizes and colors are told apart. *)
Valid(r) == order.stage = RegisterStage \/ (request[r].stage = order.stage /\ request[r].suits)

(* SendResponse: the next stage, and the loop of this one is left. *)
AcceptValue ==
  /\ order.at = "validate"
  /\ Valid(order.serves)
  /\ request' = [request EXCEPT ![order.serves].at = "done"]
  /\ order' = [order EXCEPT !.stage = @ + 1, !.filled = Append(@, request[order.serves].stage),
                            !.at = IF order.stage = ColorStage THEN "ship" ELSE "receive"]
  /\ UNCHANGED <<ui, inbox>>

(* SendErrorResponse. *)
RefuseValue ==
  /\ order.at = "validate"
  /\ ~Valid(order.serves)
  /\ request' = [request EXCEPT ![order.serves].at = "failed"]
  /\ order' = [order EXCEPT !.at = "receive"]
  /\ UNCHANGED <<ui, inbox>>

(* The child ShippingWorkflow has scheduled the delivery and sent the email. *)
ShippingReturns ==
  /\ order.at = "ship"
  /\ order' = [order EXCEPT !.at = "closed"]
  /\ UNCHANGED <<ui, request, inbox>>

Progress ==
  \/ \E r \in Requests : SendRequest(r) \/ UpdateOrderReturns(r)
  \/ ReceiveRequest \/ AcceptValue \/ RefuseValue \/ ShippingReturns
Next ==
  \/ Progress
  \/ \E r \in Requests : UpdateOrderUnheard(r) \/ \E suits \in BOOLEAN : PromptAndReadInput(r, suits)

----------------------------------------------------------------------------
(* The order is filled with the answers to its own questions, in their order,       *)
(* whatever requests were sent again; the UI is never ahead of it, and behind it    *)
(* only by what it did not hear of.                                                 *)
OrderInStep ==
  /\ \A s \in 1..Len(order.filled) : order.filled[s] = s
  /\ ui.stage <= order.stage
  /\ order.stage - ui.stage <= ui.unheard + (IF ui.waitsFor = 0 THEN 0 ELSE 1)

(* The UI is not left waiting, as long as it has heard of every update: what it       *)
(* asks again after an order went on may find the order shipping, where nobody        *)
(* receives, and an update waits for its response without a time-out.                 *)
UpdatesAnswered == ui.waitsFor = 0 \/ ui.unheard > 0

(* The inductive invariant: a request that the order has accepted was about the stage    *)
(* which the UI is at, so the order is one stage ahead at most, and then either the UI    *)
(* is about to hear of it or it has missed an answer before. A request is in the inbox    *)
(* or served once, and only while its workflow waits.                                    *)
Sizes == MaxRequests \in Nat

TypeOK ==
  /\ ui \in [stage : 1..4, waitsFor : 0..MaxRequests, unheard : Nat]
  /\ request \in [Requests -> [at : {"none", "send", "wait", "done", "failed"}, stage : 1..4, suits : BOOLEAN]]
  /\ order \in [at : {"receive", "validate", "ship", "closed"}, stage : 1..4, serves : 0..MaxRequests,
                filled : Seq(1..4)]
  /\ inbox \in Seq(Requests)

OrderFilled ==
  /\ Len(order.filled) = order.stage - 1
  /\ \A s \in 1..Len(order.filled) : order.filled[s] = s
  /\ order.at \in {"receive", "validate"} => order.stage < ShippingStage

Waiting(r) == request[r].at = "wait"
SentOnce ==
  /\ \A i \in 1..Len(inbox) : Waiting(inbox[i])
  /\ \A i, j \in 1..Len(inbox) : inbox[i] = inbox[j] => i = j
  /\ order.at = "validate" =>
       order.serves \in Requests /\ Waiting(order.serves) /\ \A i \in 1..Len(inbox) : inbox[i] /= order.serves

UIInStep ==
  /\ ui.stage <= order.stage /\ order.stage <= ui.stage + 1
  /\ \A r \in Requests :
       /\ request[r].stage <= ui.stage
       /\ request[r].at = "done" => request[r].stage < order.stage
       /\ request[r].at \in {"send", "wait"} => r = ui.waitsFor \/ ui.unheard > 0
  /\ ui.waitsFor /= 0 => request[ui.waitsFor].stage = ui.stage
  /\ order.stage > ui.stage => ui.unheard > 0 \/ (ui.waitsFor /= 0 /\ request[ui.waitsFor].at = "done")

IInv == TypeOK /\ OrderFilled /\ SentOnce /\ UIInStep
==============================================================================
