----------------------------- MODULE ShoppingCart -----------------------------
(* shoppingcart: the web shop of one session and the CartWorkflow behind it. Two      *)
(* browser requests may be under way at once. log.Fatalln ends the shop, not the cart. *)
EXTENDS Naturals, FiniteSets

CONSTANTS MaxActions,   \* adds and removes of the whole session
          MaxRuns       \* runs of CartWorkflow

VARIABLES run,          \* the workflow of the session; a checkout is in its channel
          cart,         \* the items of the open run
          request,      \* per request: what it is at
          shop,         \* it serves, and the actions it has had
          wanted        \* the items of all answered actions since the last checkout (history)

vars == <<run, cart, request, shop, wanted>>

Items == {"apple"}
Requests == {1, 2}
Kinds == {"add", "remove", "list", "checkout"}
NoCart == [i \in Items |-> 0]
Idle == [at |-> "idle", kind |-> "list", item |-> ""]

Init ==
  /\ run = [status |-> "absent", number |-> 0, suggested |-> FALSE, checkout |-> FALSE]
  /\ cart = NoCart
  /\ request = [r \in Requests |-> Idle]
  /\ shop = [serves |-> TRUE, actions |-> 0]
  /\ wanted = NoCart

Open == run.status = "open"

(* The page of an answered action lists the cart with an update of its own. *)
List(r) == [request EXCEPT ![r] = [at |-> "send", kind |-> "list", item |-> ""]]

actionHandler(r, kind, item) ==
  /\ shop.serves /\ request[r].at = "idle"
  /\ kind \in {"add", "remove"} => shop.actions < MaxActions
  /\ shop' = [shop EXCEPT !.actions = IF kind \in {"add", "remove"} THEN @ + 1 ELSE @]
  /\ request' = [request EXCEPT ![r] = [at |-> "send", kind |-> kind, item |-> item]]
  /\ UNCHANGED <<run, cart, wanted>>

(* A signal does not start a cart: without one the shop is over. *)
SignalCheckout(r) ==
  /\ shop.serves /\ request[r].at = "send" /\ request[r].kind = "checkout"
  /\ IF Open
     THEN /\ run' = [run EXCEPT !.checkout = TRUE]
          /\ request' = List(r)
          /\ UNCHANGED shop
     ELSE /\ shop' = [shop EXCEPT !.serves = FALSE]
          /\ UNCHANGED <<run, request>>
  /\ UNCHANGED <<cart, wanted>>

(* USE_EXISTING: the update goes to the open cart, or to a new one. *)
updateWithStartCart(r) ==
  /\ shop.serves /\ request[r].at = "send" /\ request[r].kind /= "checkout"
  /\ Open \/ run.number < MaxRuns
  /\ request' = [request EXCEPT ![r].at = "admitted"]
  /\ IF Open THEN UNCHANGED <<run, cart, wanted>>
     ELSE /\ run' = [status |-> "open", number |-> run.number + 1, suggested |-> FALSE, checkout |-> FALSE]
          /\ cart' = NoCart
          /\ wanted' = NoCart
  /\ UNCHANGED shop

----------------------------------------------------------------------------
(* The workflow. *)

Changed(items, kind, item) ==
  CASE kind = "add" -> [items EXCEPT ![item] = @ + 1]
    [] kind = "remove" -> [items EXCEPT ![item] = IF @ <= 1 THEN 0 ELSE @ - 1]
    [] OTHER -> items

Valid(r) == request[r].kind \in {"add", "remove"} => request[r].item /= ""

(* An update that the validator refuses ends the shop as well. *)
HandleUpdate(r) ==
  /\ Open /\ request[r].at = "admitted"
  /\ IF Valid(r)
     THEN /\ cart' = Changed(cart, request[r].kind, request[r].item)
          /\ wanted' = Changed(wanted, request[r].kind, request[r].item)
          /\ request' = IF request[r].kind = "list" THEN [request EXCEPT ![r] = Idle] ELSE List(r)
          /\ UNCHANGED shop
     ELSE /\ shop' = [shop EXCEPT !.serves = FALSE]
          /\ request' = [request EXCEPT ![r] = Idle]
          /\ UNCHANGED <<cart, wanted>>
  /\ UNCHANGED run

(* The server suggests to continue as new: main has evaluated its condition and       *)
(* waits in Receive.                                                                  *)
HistoryGrows ==
  /\ Open /\ ~run.suggested /\ run.number < MaxRuns
  /\ run' = [run EXCEPT !.suggested = TRUE]
  /\ UNCHANGED <<cart, request, shop, wanted>>

(* Mutant of PassedOn: the next run is given no cart. *)
PassedOnNothing(items) == NoCart

(* The input of the next run. *)
PassedOn(items) == items

(* Updates that were not delivered go to the next run. *)
ContinueAsNew ==
  /\ Open /\ run.checkout /\ run.suggested
  /\ run' = [run EXCEPT !.number = @ + 1, !.suggested = FALSE, !.checkout = FALSE]
  /\ cart' = PassedOn(cart)
  /\ UNCHANGED <<request, shop, wanted>>

(* They fail with a cart that is checked out. *)
CheckedOut ==
  /\ Open /\ run.checkout /\ ~run.suggested
  /\ run' = [run EXCEPT !.status = "closed", !.checkout = FALSE]
  /\ shop' = [shop EXCEPT !.serves = @ /\ \A r \in Requests : request[r].at /= "admitted"]
  /\ request' = [r \in Requests |-> IF request[r].at = "admitted" THEN Idle ELSE request[r]]
  /\ UNCHANGED <<cart, wanted>>

----------------------------------------------------------------------------
Progress ==
  \/ \E r \in Requests : SignalCheckout(r) \/ updateWithStartCart(r) \/ HandleUpdate(r)
  \/ ContinueAsNew \/ CheckedOut
Next ==
  \/ Progress \/ HistoryGrows
  \/ \E r \in Requests, kind \in Kinds, item \in Items \union {""} : actionHandler(r, kind, item)

Spec == Init /\ [][Next]_vars /\ WF_vars(Progress)

(* Continuing as new loses no item, and gains none: the cart holds what the answers     *)
(* told the shop, in whichever run the actions were taken.                              *)
CartKept == Open => cart = wanted

(* README.md: "when you checkout your cart, the workflow will complete": a checkout is   *)
(* taken from the channel only to close the cart. It is not when a continue-as-new has   *)
(* been suggested meanwhile: the next run opens with the same cart, and waits.           *)
CheckoutCompletes == [][run.checkout /\ ~run'.checkout => run'.status = "closed"]_vars

(* The inductive invariant is that with the type of the run. *)
TypeOK == run \in [status : {"absent", "open", "closed"}, number : Nat, suggested : BOOLEAN, checkout : BOOLEAN]

IInv == TypeOK /\ CartKept
===============================================================================
