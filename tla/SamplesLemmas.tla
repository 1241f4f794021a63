---------------------------- MODULE SamplesLemmas -----------------------------
(* Lemmas for SamplesProofs about the samples that talk with clients or humans (the cart, *)
(* the order proxy, the chat, the messages of one workflow, the deployments, the            *)
(* approvals), about those that are read (listings, payloads) and about the flows. The       *)
(* inductive invariant of a sample is IInv of its own module; here it is shown to hold at    *)
(* the start, to be kept by the steps, and to say what Samples asks.                         *)
EXTENDS Samples, SequenceTheorems, FiniteSetTheorems, WellFoundedInduction, TLAPS

--------------------------------------------------------------------------------
(* ShoppingCart: v1 is run, v2 cart, v3 request, v4 shop, v5 wanted. *)

LEMMA CartInit == Cart!Init => Cart!IInv
  BY DEF Cart!Init, Cart!IInv, Cart!TypeOK, Cart!CartKept, Cart!Open

LEMMA CartStep ==
  ASSUME Cart!IInv, [Cart!Next]_Cart!vars
  PROVE  Cart!IInv'
<1> DEFINE Runs == [status : {"absent", "open", "closed"}, number : Nat, suggested : BOOLEAN, checkout : BOOLEAN]
<1>0. v1 \in Runs /\ (v1.status = "open" => v2 = v5)
  BY DEF Cart!IInv, Cart!TypeOK, Cart!CartKept, Cart!Open
<1>r. ASSUME v1' \in Runs, v1'.status = "open" => v2' = v5' PROVE Cart!IInv'
  BY <1>r DEF Cart!IInv, Cart!TypeOK, Cart!CartKept, Cart!Open
<1>1. ASSUME NEW r \in Cart!Requests, NEW kind, NEW item, Cart!actionHandler(r, kind, item) PROVE Cart!IInv'
  BY <1>0, <1>1, <1>r DEF Cart!actionHandler
<1>2. ASSUME NEW r \in Cart!Requests, Cart!SignalCheckout(r) PROVE Cart!IInv'
  <2>1. v1' \in {v1, [v1 EXCEPT !.checkout = TRUE]} /\ v2' = v2 /\ v5' = v5
    BY <1>2 DEF Cart!SignalCheckout
  <2>2. CASE v1' = v1
    BY <1>0, <1>r, <2>1, <2>2
  <2>3. CASE v1' = [v1 EXCEPT !.checkout = TRUE]
    <3>1. v1' \in Runs
      BY <1>0, <2>3
    <3>2. v1'.status = v1.status
      BY <1>0, <2>3
    <3> QED
      BY <1>0, <1>r, <2>1, <3>1, <3>2
  <2> QED
    BY <2>1, <2>2, <2>3
<1>3. ASSUME NEW r \in Cart!Requests, Cart!updateWithStartCart(r) PROVE Cart!IInv'
  <2>1. CASE Cart!Open
    BY <1>0, <1>3, <1>r, <2>1 DEF Cart!updateWithStartCart
  <2>2. CASE ~Cart!Open
    <3>1. /\ v1' = [status |-> "open", number |-> v1.number + 1, suggested |-> FALSE, checkout |-> FALSE]
          /\ v2' = v5'
      BY <1>3, <2>2 DEF Cart!updateWithStartCart
    <3>2. v1' \in Runs
      BY <1>0, <3>1
    <3> QED
      BY <1>r, <3>1, <3>2
  <2> QED
    BY <2>1, <2>2
<1>4. ASSUME NEW r \in Cart!Requests, Cart!HandleUpdate(r) PROVE Cart!IInv'
  <2>1. v1' = v1 /\ v2 = v5
    BY <1>0, <1>4 DEF Cart!HandleUpdate, Cart!Open
  <2>2. v2' = v5'
    BY <1>4, <2>1 DEF Cart!HandleUpdate
  <2> QED
    BY <1>0, <1>r, <2>1, <2>2
<1>5. CASE Cart!HistoryGrows
  <2>1. v1' = [v1 EXCEPT !.suggested = TRUE] /\ v2' = v2 /\ v5' = v5
    BY <1>5 DEF Cart!HistoryGrows
  <2>2. v1' \in Runs
    BY <1>0, <2>1
  <2>3. v1'.status = v1.status
    BY <1>0, <2>1
  <2> QED
    BY <1>0, <1>r, <2>1, <2>2, <2>3
<1>6. CASE Cart!ContinueAsNew
  <2>1. v1' = [v1 EXCEPT !.number = @ + 1, !.suggested = FALSE, !.checkout = FALSE] /\ v2' = v2 /\ v5' = v5
    BY <1>6 DEF Cart!ContinueAsNew, Cart!PassedOn
  <2>2. v1' \in Runs
    <3>1. v1' = [status |-> v1.status, number |-> v1.number + 1, suggested |-> FALSE, checkout |-> FALSE]
      BY <1>0, <2>1
    <3>2. v1.status \in {"absent", "open", "closed"} /\ v1.number + 1 \in Nat
      BY <1>0
    <3> QED
      BY <3>1, <3>2
  <2>3. v1'.status = v1.status
    BY <1>0, <2>1
  <2> QED
    BY <1>0, <1>r, <2>1, <2>2, <2>3
<1>7. CASE Cart!CheckedOut
  <2>1. v1' = [v1 EXCEPT !.status = "closed", !.checkout = FALSE]
    BY <1>7 DEF Cart!CheckedOut
  <2>2. v1' \in Runs /\ v1'.status = "closed"
    BY <1>0, <2>1
  <2> QED
    BY <1>r, <2>2
<1>8. CASE UNCHANGED Cart!vars
  BY <1>0, <1>8, <1>r DEF Cart!vars
<1> QED
  BY <1>1, <1>2, <1>3, <1>4, <1>5, <1>6, <1>7, <1>8 DEF Cart!Next, Cart!Progress

--------------------------------------------------------------------------------
(* OrderProxy: v1 is ui, v2 request, v3 order, v4 inbox. *)

LEMMA ProxyInit == Proxy!Init => Proxy!IInv
  BY SamplesAssumption DEF Proxy!Sizes, Proxy!Init, Proxy!IInv, Proxy!TypeOK, Proxy!OrderFilled, Proxy!SentOnce,
     Proxy!UIInStep, Proxy!Waiting, Proxy!Requests, Proxy!RegisterStage, Proxy!ShippingStage

LEMMA ProxyPrompt ==
  ASSUME Proxy!IInv, NEW r \in Proxy!Requests, NEW suits \in BOOLEAN, Proxy!PromptAndReadInput(r, suits)
  PROVE  Proxy!IInv'
<1>1. /\ v1 \in [stage : 1..4, waitsFor : 0..MaxRequests, unheard : Nat] /\ r \in 1..MaxRequests
      /\ v2 \in [Proxy!Requests -> [at : {"none", "send", "wait", "done", "failed"}, stage : 1..4, suits : BOOLEAN]]
      /\ v4 \in Seq(Proxy!Requests) /\ v3.serves \in 0..MaxRequests /\ v3.stage \in 1..4 /\ MaxRequests \in Nat
  BY SamplesAssumption DEF Proxy!IInv, Proxy!TypeOK, Proxy!Sizes, Proxy!Requests
<1> DEFINE q == [at |-> "send", stage |-> v1.stage, suits |-> suits]
<1>2. /\ v1' = [v1 EXCEPT !.waitsFor = r] /\ v2' = [v2 EXCEPT ![r] = q] /\ v3' = v3 /\ v4' = v4
      /\ v1.waitsFor = 0 /\ v2[r].at = "none"
  BY DEF Proxy!PromptAndReadInput
<1>3. v1' = [stage |-> v1.stage, waitsFor |-> r, unheard |-> v1.unheard]
  BY <1>1, <1>2
<1>4. v1.stage \in 1..4 /\ v1.unheard \in Nat /\ r /= 0
  BY <1>1
<1>5. q \in [at : {"none", "send", "wait", "done", "failed"}, stage : 1..4, suits : BOOLEAN]
  BY <1>4
<1>6. v2'[r] = q /\ \A p \in Proxy!Requests : p /= r => v2'[p] = v2[p]
  BY <1>1, <1>2
<1>7. Proxy!TypeOK'
  <2>1. v2' \in [Proxy!Requests -> [at : {"none", "send", "wait", "done", "failed"}, stage : 1..4, suits : BOOLEAN]]
    BY ONLY <1>1, <1>2, <1>5
  <2>2. v1' \in [stage : 1..4, waitsFor : 0..MaxRequests, unheard : Nat]
    BY <1>1, <1>3, <1>4
  <2> QED
    BY <1>2, <2>1, <2>2 DEF Proxy!IInv, Proxy!TypeOK
<1>8. Proxy!OrderFilled'
  BY <1>2 DEF Proxy!IInv, Proxy!OrderFilled
<1>9. Proxy!SentOnce'
  <2>1. \A i \in 1..Len(v4) : v4[i] \in Proxy!Requests
    BY <1>1
  <2> QED
    BY <1>2, <1>6, <2>1 DEF Proxy!IInv, Proxy!SentOnce, Proxy!Waiting
<1>10. Proxy!UIInStep'
  <2>1. /\ v1.stage <= v3.stage /\ v3.stage <= v1.stage + 1
        /\ v3.stage > v1.stage => v1.unheard > 0
    BY <1>2 DEF Proxy!IInv, Proxy!UIInStep
  <2>2. ASSUME NEW p \in Proxy!Requests
        PROVE /\ v2'[p].stage <= v1'.stage
              /\ v2'[p].at = "done" => v2'[p].stage < v3'.stage
              /\ v2'[p].at \in {"send", "wait"} => p = v1'.waitsFor \/ v1'.unheard > 0
    <3>1. CASE p = r
      BY <1>2, <1>3, <1>4, <1>6, <3>1
    <3>2. CASE p /= r
      <4>1. v2'[p] = v2[p] /\ p /= 0
        BY <1>1, <1>6, <3>2 DEF Proxy!Requests
      <4> QED
        BY <1>2, <1>3, <4>1 DEF Proxy!IInv, Proxy!UIInStep
    <3> QED
      BY <3>1, <3>2
  <2>3. v2'[v1'.waitsFor].stage = v1'.stage
    BY <1>3, <1>6
  <2> QED
    BY <1>2, <1>3, <2>1, <2>2, <2>3 DEF Proxy!UIInStep
<1> QED
  BY <1>7, <1>8, <1>9, <1>10 DEF Proxy!IInv

LEMMA ProxySend ==
  ASSUME Proxy!IInv, NEW r \in Proxy!Requests, Proxy!SendRequest(r)
  PROVE  Proxy!IInv'
<1> DEFINE Reqs == [at : {"none", "send", "wait", "done", "failed"}, stage : 1..4, suits : BOOLEAN]
<1>1. /\ v2 \in [Proxy!Requests -> Reqs] /\ v4 \in Seq(Proxy!Requests) /\ v1' = v1 /\ v3' = v3 /\ v2[r].at = "send"
  BY DEF Proxy!IInv, Proxy!TypeOK, Proxy!SendRequest
<1>2. v2[r] \in Reqs
  BY <1>1
<1>3. PICK at \in {"wait", "failed"} :
        /\ v2' = [v2 EXCEPT ![r].at = at]
        /\ v4' = v4 \/ (at = "wait" /\ v4' = Append(v4, r))
  BY DEF Proxy!SendRequest
<1>4. /\ v2'[r].at = at /\ v2'[r].stage = v2[r].stage
      /\ \A p \in Proxy!Requests : p /= r => v2'[p] = v2[p]
  BY <1>1, <1>2, <1>3
<1>5. v2' \in [Proxy!Requests -> Reqs]
  <2>1. [v2[r] EXCEPT !.at = at] \in Reqs
    BY <1>2, <1>3
  <2>2. v2' = [v2 EXCEPT ![r] = [v2[r] EXCEPT !.at = at]]
    BY <1>3
  <2> QED
    BY ONLY <1>1, <2>1, <2>2
<1>6. v4' \in Seq(Proxy!Requests) /\ \A i \in 1..Len(v4) : v4[i] \in Proxy!Requests /\ v4[i] /= r
  <2>1. \A i \in 1..Len(v4) : v4[i] \in Proxy!Requests
    BY <1>1
  <2>2. v4' \in Seq(Proxy!Requests)
    BY <1>1, <1>3
  <2> QED
    BY <1>1, <2>1, <2>2 DEF Proxy!IInv, Proxy!SentOnce, Proxy!Waiting
<1>7. Proxy!TypeOK' /\ Proxy!OrderFilled'
  BY <1>1, <1>5, <1>6 DEF Proxy!IInv, Proxy!TypeOK, Proxy!OrderFilled
<1>8. Proxy!SentOnce'
  <2>0. Proxy!SentOnce
    BY DEF Proxy!IInv
  <2>1. v3.at = "validate" => v3.serves \in Proxy!Requests /\ v3.serves /= r /\ v2'[v3.serves] = v2[v3.serves]
    BY <1>1, <1>4, <2>0 DEF Proxy!SentOnce, Proxy!Waiting
  <2>2. CASE v4' = v4
    BY <1>1, <1>4, <1>6, <2>0, <2>1, <2>2 DEF Proxy!SentOnce, Proxy!Waiting
  <2>3. CASE at = "wait" /\ v4' = Append(v4, r)
    <3>1. /\ Len(v4') = Len(v4) + 1 /\ v4'[Len(v4) + 1] = r /\ Len(v4) \in Nat
          /\ \A i \in 1..Len(v4) : v4'[i] = v4[i]
      BY <1>1, <2>3
    <3>2. \A i \in 1..Len(v4') : i \in 1..Len(v4) \/ i = Len(v4) + 1
      BY <3>1
    <3>3. \A i \in 1..Len(v4') : v2'[v4'[i]].at = "wait"
      BY <1>4, <1>6, <2>0, <2>3, <3>1, <3>2 DEF Proxy!SentOnce, Proxy!Waiting
    <3>4. \A i, j \in 1..Len(v4') : v4'[i] = v4'[j] => i = j
      BY <1>6, <2>0, <3>1, <3>2 DEF Proxy!SentOnce
    <3>5. v3.at = "validate" => \A i \in 1..Len(v4') : v4'[i] /= v3.serves
      BY <1>6, <2>0, <2>1, <3>1, <3>2 DEF Proxy!SentOnce
    <3> QED
      BY <1>1, <2>0, <2>1, <3>3, <3>4, <3>5 DEF Proxy!SentOnce, Proxy!Waiting
  <2> QED
    BY <1>3, <2>2, <2>3
<1>9. Proxy!UIInStep'
  <2>0. Proxy!UIInStep
    BY DEF Proxy!IInv
  <2>1. ASSUME NEW p \in Proxy!Requests
        PROVE /\ v2'[p].stage = v2[p].stage
              /\ v2'[p].at = "done" <=> v2[p].at = "done"
              /\ v2'[p].at \in {"send", "wait"} => v2[p].at \in {"send", "wait"}
    BY <1>1, <1>3, <1>4
  <2>2. v1.waitsFor /= 0 => v1.waitsFor \in Proxy!Requests
    BY SamplesAssumption DEF Proxy!IInv, Proxy!TypeOK, Proxy!Requests, Proxy!Sizes
  <2> QED
    BY <1>1, <2>0, <2>1, <2>2 DEF Proxy!UIInStep
<1> QED
  BY <1>7, <1>8, <1>9 DEF Proxy!IInv

(* What the UI hears of, or does not, is about the request it waits for. *)
LEMMA ProxyHears ==
  ASSUME Proxy!IInv, NEW r \in Proxy!Requests, Proxy!UpdateOrderReturns(r) \/ Proxy!UpdateOrderUnheard(r)
  PROVE  Proxy!IInv'
<1>1. /\ v1.waitsFor = r /\ v2' = v2 /\ v3' = v3 /\ v4' = v4
  BY DEF Proxy!UpdateOrderReturns, Proxy!UpdateOrderUnheard
<1>2. /\ v1 \in [stage : 1..4, waitsFor : 0..MaxRequests, unheard : Nat] /\ r \in 1..MaxRequests
      /\ v3.stage \in 1..4 /\ MaxRequests \in Nat /\ Proxy!UIInStep
  BY SamplesAssumption DEF Proxy!IInv, Proxy!TypeOK, Proxy!Sizes, Proxy!Requests
<1>3. v1.stage \in 1..4 /\ v1.unheard \in Nat /\ r /= 0
  BY <1>2
<1>4. v2[r].stage = v1.stage /\ v1.stage <= v3.stage /\ v3.stage <= v1.stage + 1
  BY <1>1, <1>2, <1>3 DEF Proxy!UIInStep
<1>5. PICK stage \in 1..4, unheard \in Nat :
        /\ v1' = [stage |-> stage, waitsFor |-> 0, unheard |-> unheard]
        /\ v1.stage <= stage /\ stage <= v3.stage /\ v3.stage <= stage + 1 /\ v1.unheard <= unheard
        /\ v3.stage > stage => unheard > 0
        /\ unheard = v1.unheard => v2[r].at \in {"done", "failed"}
  <2>1. CASE Proxy!UpdateOrderReturns(r) /\ v2[r].at = "done"
    <3>1. v2[r].stage < v3.stage
      BY <1>2, <2>1 DEF Proxy!UIInStep
    <3>2. v1' = [stage |-> v1.stage + 1, waitsFor |-> 0, unheard |-> v1.unheard]
      BY <1>2, <2>1 DEF Proxy!UpdateOrderReturns
    <3>3. v1.stage + 1 \in 1..4 /\ v1.stage + 1 = v3.stage
      BY <1>2, <1>3, <1>4, <3>1
    <3> QED
      BY <1>2, <1>3, <2>1, <3>2, <3>3
  <2>2. CASE Proxy!UpdateOrderReturns(r) /\ v2[r].at = "failed"
    <3>1. v1' = [stage |-> v1.stage, waitsFor |-> 0, unheard |-> v1.unheard]
      BY <1>2, <2>2 DEF Proxy!UpdateOrderReturns
    <3>2. v3.stage > v1.stage => v1.unheard > 0
      BY <1>1, <1>2, <2>2 DEF Proxy!UIInStep
    <3> QED
      BY <1>3, <1>4, <2>2, <3>1, <3>2
  <2>3. CASE Proxy!UpdateOrderUnheard(r)
    <3>1. v1' = [stage |-> v1.stage, waitsFor |-> 0, unheard |-> v1.unheard + 1]
      BY <1>2, <2>3 DEF Proxy!UpdateOrderUnheard
    <3>2. v1.unheard + 1 \in Nat /\ v1.unheard + 1 > 0 /\ v1.unheard <= v1.unheard + 1 /\ v1.unheard + 1 /= v1.unheard
      BY <1>3
    <3> QED
      BY <1>3, <1>4, <3>1, <3>2
  <2> QED
    BY <2>1, <2>2, <2>3 DEF Proxy!UpdateOrderReturns
<1>6. v1' \in [stage : 1..4, waitsFor : 0..MaxRequests, unheard : Nat]
  BY <1>2, <1>5
<1>7. ASSUME NEW p \in Proxy!Requests
      PROVE /\ v2[p].stage <= stage
            /\ v2[p].at \in {"send", "wait"} => unheard > 0
  <2>1. v2[p].stage <= v1.stage /\ v2[p].stage \in 1..4
    BY <1>2 DEF Proxy!UIInStep, Proxy!IInv, Proxy!TypeOK
  <2>2. v2[p].at \in {"send", "wait"} => p = r \/ v1.unheard > 0
    BY <1>1, <1>2 DEF Proxy!UIInStep
  <2> QED
    BY <1>3, <1>5, <2>1, <2>2
<1>8. Proxy!UIInStep'
  BY <1>1, <1>2, <1>5, <1>7 DEF Proxy!UIInStep
<1> QED
  BY <1>1, <1>6, <1>8 DEF Proxy!IInv, Proxy!TypeOK, Proxy!OrderFilled, Proxy!SentOnce, Proxy!Waiting

LEMMA ProxyReceive ==
  ASSUME Proxy!IInv, Proxy!ReceiveRequest
  PROVE  Proxy!IInv'
<1> DEFINE At == {"receive", "validate", "ship", "closed"}
           n == Len(v4)
<1>1. /\ v1' = v1 /\ v2' = v2 /\ v3.at = "receive" /\ v4 \in Seq(Proxy!Requests) /\ v4 /= <<>> /\ v4' = Tail(v4)
      /\ v3 \in [at : At, stage : 1..4, serves : 0..MaxRequests, filled : Seq(1..4)]
  BY DEF Proxy!IInv, Proxy!TypeOK, Proxy!ReceiveRequest
<1>2. n \in Nat /\ n > 0 /\ \A i \in 1..n : v4[i] \in Proxy!Requests
  BY <1>1
<1>3. v4' \in Seq(Proxy!Requests) /\ Len(v4') = n - 1 /\ \A i \in 1..(n - 1) : v4'[i] = v4[i + 1]
  BY <1>1, <1>2
<1>4. v3' = [at |-> "validate", stage |-> v3.stage, serves |-> v4[1], filled |-> v3.filled]
  <2>1. v3' = [v3 EXCEPT !.at = "validate", !.serves = Head(v4)]
    BY DEF Proxy!ReceiveRequest
  <2>2. Head(v4) = v4[1]
    BY <1>1
  <2> QED
    BY <1>1, <2>1, <2>2
<1>5. v4[1] \in Proxy!Requests /\ v4[1] \in 0..MaxRequests
  BY <1>2, SamplesAssumption DEF Proxy!Requests, Proxy!Sizes
<1>6. Proxy!TypeOK'
  <2>1. v3' \in [at : At, stage : 1..4, serves : 0..MaxRequests, filled : Seq(1..4)]
    BY <1>1, <1>4, <1>5
  <2> QED
    BY <1>1, <1>3, <2>1 DEF Proxy!IInv, Proxy!TypeOK
<1>7. Proxy!OrderFilled' /\ Proxy!UIInStep'
  BY <1>1, <1>4 DEF Proxy!IInv, Proxy!OrderFilled, Proxy!UIInStep
<1>8. Proxy!SentOnce'
  <2>0. Proxy!SentOnce
    BY DEF Proxy!IInv
  <2>1. \A i \in 1..(n - 1) : i + 1 \in 1..n /\ i + 1 /= 1
    BY <1>2
  <2>2. \A i, j \in 1..n : v4[i] = v4[j] => i = j
    BY <2>0 DEF Proxy!SentOnce
  <2>3. \A i, j \in 1..(n - 1) : v4'[i] = v4'[j] => i = j
    <3>1. SUFFICES ASSUME NEW i \in 1..(n - 1), NEW j \in 1..(n - 1), v4'[i] = v4'[j] PROVE i = j
      OBVIOUS
    <3>2. v4[i + 1] = v4[j + 1] /\ i + 1 \in 1..n /\ j + 1 \in 1..n
      BY <1>3, <2>1, <3>1
    <3>3. i + 1 = j + 1
      BY <2>2, <3>2
    <3> QED
      BY <1>2, <3>3
  <2>4. \A i \in 1..(n - 1) : v4'[i] /= v4[1] /\ Proxy!Waiting(v4'[i])
    BY <1>2, <1>3, <2>0, <2>1 DEF Proxy!SentOnce
  <2>5. Proxy!Waiting(v4[1])
    BY <1>2, <2>0 DEF Proxy!SentOnce
  <2> QED
    BY <1>1, <1>3, <1>4, <1>5, <2>3, <2>4, <2>5 DEF Proxy!SentOnce, Proxy!Waiting
<1> QED
  BY <1>6, <1>7, <1>8 DEF Proxy!IInv

(* The request that is served gets its response, and is neither in the inbox nor waiting *)
(* any more.                                                                             *)
LEMMA ProxyAnswered ==
  ASSUME Proxy!IInv, v3.at = "validate", NEW at \in {"done", "failed"},
         v2' = [v2 EXCEPT ![v3.serves].at = at], v4' = v4
  PROVE  /\ v3.serves \in Proxy!Requests
         /\ v2' \in [Proxy!Requests -> [at : {"none", "send", "wait", "done", "failed"}, stage : 1..4, suits : BOOLEAN]]
         /\ v2'[v3.serves].at = at /\ v2'[v3.serves].stage = v2[v3.serves].stage
         /\ \A p \in Proxy!Requests : p /= v3.serves => v2'[p] = v2[p]
         /\ \A i \in 1..Len(v4) : v2'[v4[i]].at = "wait"
<1> DEFINE Reqs == [at : {"none", "send", "wait", "done", "failed"}, stage : 1..4, suits : BOOLEAN]
           r == v3.serves
<1>1. r \in Proxy!Requests /\ v2 \in [Proxy!Requests -> Reqs] /\ v4 \in Seq(Proxy!Requests)
  BY DEF Proxy!IInv, Proxy!TypeOK, Proxy!SentOnce
<1>2. v2[r] \in Reqs
  BY <1>1
<1>3. [v2[r] EXCEPT !.at = at] \in Reqs /\ v2' = [v2 EXCEPT ![r] = [v2[r] EXCEPT !.at = at]]
  BY <1>2
<1>4. v2' \in [Proxy!Requests -> Reqs]
  BY ONLY <1>1, <1>3
<1>5. v2'[r].at = at /\ v2'[r].stage = v2[r].stage /\ \A p \in Proxy!Requests : p /= r => v2'[p] = v2[p]
  BY <1>1, <1>2
<1>6. \A i \in 1..Len(v4) : v4[i] \in Proxy!Requests /\ v4[i] /= r /\ v2[v4[i]].at = "wait"
  BY <1>1 DEF Proxy!IInv, Proxy!SentOnce, Proxy!Waiting
<1> QED
  BY <1>1, <1>4, <1>5, <1>6

LEMMA ProxyRefuse ==
  ASSUME Proxy!IInv, Proxy!RefuseValue
  PROVE  Proxy!IInv'
<1>1. /\ v1' = v1 /\ v4' = v4 /\ v3.at = "validate" /\ v3' = [v3 EXCEPT !.at = "receive"]
      /\ v2' = [v2 EXCEPT ![v3.serves].at = "failed"]
  BY DEF Proxy!RefuseValue
<1>2. /\ v3.serves \in Proxy!Requests
      /\ v2' \in [Proxy!Requests -> [at : {"none", "send", "wait", "done", "failed"}, stage : 1..4, suits : BOOLEAN]]
      /\ v2'[v3.serves].at = "failed" /\ v2'[v3.serves].stage = v2[v3.serves].stage
      /\ \A p \in Proxy!Requests : p /= v3.serves => v2'[p] = v2[p]
      /\ \A i \in 1..Len(v4) : v2'[v4[i]].at = "wait"
  BY <1>1, ProxyAnswered
<1>3. v3 \in [at : {"receive", "validate", "ship", "closed"}, stage : 1..4, serves : 0..MaxRequests, filled : Seq(1..4)]
  BY DEF Proxy!IInv, Proxy!TypeOK
<1>4. v3' = [at |-> "receive", stage |-> v3.stage, serves |-> v3.serves, filled |-> v3.filled]
  BY <1>1, <1>3
<1>5. v3' \in [at : {"receive", "validate", "ship", "closed"}, stage : 1..4, serves : 0..MaxRequests, filled : Seq(1..4)]
  BY <1>1, <1>3
<1>6. Proxy!TypeOK' /\ Proxy!OrderFilled'
  BY <1>1, <1>2, <1>4, <1>5 DEF Proxy!IInv, Proxy!TypeOK, Proxy!OrderFilled
<1>7. Proxy!SentOnce'
  BY <1>1, <1>2, <1>4 DEF Proxy!IInv, Proxy!SentOnce, Proxy!Waiting
<1>8. Proxy!UIInStep'
  <2>0. Proxy!UIInStep
    BY DEF Proxy!IInv
  <2>1. ASSUME NEW p \in Proxy!Requests
        PROVE /\ v2'[p].stage = v2[p].stage
              /\ v2'[p].at = "done" => v2[p].at = "done"
              /\ v2'[p].at \in {"send", "wait"} => v2[p].at \in {"send", "wait"}
    BY <1>2
  <2>2. v1.waitsFor /= 0 => v1.waitsFor \in Proxy!Requests
    BY SamplesAssumption DEF Proxy!IInv, Proxy!TypeOK, Proxy!Requests, Proxy!Sizes
  <2>3. v2[v3.serves].at = "wait"
    BY <1>1 DEF Proxy!IInv, Proxy!SentOnce, Proxy!Waiting
  <2>4. v3.stage > v1.stage => v1.unheard > 0 \/ (v1.waitsFor /= 0 /\ v2'[v1.waitsFor].at = "done")
    BY <1>2, <2>0, <2>2, <2>3 DEF Proxy!UIInStep
  <2> QED
    BY <1>1, <1>4, <2>0, <2>1, <2>2, <2>4 DEF Proxy!UIInStep
<1> QED
  BY <1>6, <1>7, <1>8 DEF Proxy!IInv

(* The request accepted is about the stage that both are at: the order goes one ahead. *)
LEMMA ProxyAccept ==
  ASSUME Proxy!IInv, Proxy!AcceptValue
  PROVE  Proxy!IInv'
<1> DEFINE r == v3.serves
           st == v2[v3.serves].stage
           at == IF v3.stage = Proxy!ColorStage THEN "ship" ELSE "receive"
<1>1. /\ v1' = v1 /\ v4' = v4 /\ v3.at = "validate" /\ Proxy!Valid(r)
      /\ v2' = [v2 EXCEPT ![v3.serves].at = "done"]
      /\ v3' = [v3 EXCEPT !.stage = @ + 1, !.filled = Append(@, st), !.at = at]
  BY DEF Proxy!AcceptValue
<1>2. /\ r \in Proxy!Requests
      /\ v2' \in [Proxy!Requests -> [at : {"none", "send", "wait", "done", "failed"}, stage : 1..4, suits : BOOLEAN]]
      /\ v2'[r].at = "done" /\ v2'[r].stage = st
      /\ \A p \in Proxy!Requests : p /= r => v2'[p] = v2[p]
      /\ \A i \in 1..Len(v4) : v2'[v4[i]].at = "wait"
  BY <1>1, ProxyAnswered
<1>3. /\ v3 \in [at : {"receive", "validate", "ship", "closed"}, stage : 1..4, serves : 0..MaxRequests, filled : Seq(1..4)]
      /\ v1.stage \in 1..4 /\ v1.unheard \in Nat /\ st \in 1..4
  BY <1>2 DEF Proxy!IInv, Proxy!TypeOK
<1>4. v3.stage \in 1..3 /\ v3.filled \in Seq(1..4) /\ v3.serves \in 0..MaxRequests
  BY <1>1, <1>3 DEF Proxy!IInv, Proxy!OrderFilled, Proxy!ShippingStage
<1>5. st = v3.stage /\ v3.stage = v1.stage
  <2>1. st <= v1.stage /\ v1.stage <= v3.stage
    BY <1>2 DEF Proxy!IInv, Proxy!UIInStep
  <2>2. v3.stage = 1 \/ st = v3.stage
    BY <1>1 DEF Proxy!Valid, Proxy!RegisterStage
  <2> QED
    BY <1>3, <1>4, <2>1, <2>2
<1>6. v3' = [at |-> at, stage |-> v3.stage + 1, serves |-> v3.serves, filled |-> Append(v3.filled, st)]
  BY <1>1, <1>3
<1>7. at \in {"receive", "ship"} /\ (at = "receive" => v3.stage + 1 < 4)
  BY <1>4 DEF Proxy!ColorStage
<1> HIDE DEF at
<1>8. /\ Append(v3.filled, st) \in Seq(1..4) /\ Len(Append(v3.filled, st)) = Len(v3.filled) + 1
      /\ Append(v3.filled, st)[Len(v3.filled) + 1] = st
      /\ \A s \in 1..Len(v3.filled) : Append(v3.filled, st)[s] = v3.filled[s]
  BY <1>3, <1>4
<1>9. Proxy!TypeOK'
  <2>1. v3' \in [at : {"receive", "validate", "ship", "closed"}, stage : 1..4, serves : 0..MaxRequests, filled : Seq(1..4)]
    BY <1>4, <1>6, <1>7, <1>8
  <2> QED
    BY <1>1, <1>2, <2>1 DEF Proxy!IInv, Proxy!TypeOK
<1>10. Proxy!OrderFilled'
  <2>1. Len(v3.filled) = v3.stage - 1 /\ \A s \in 1..Len(v3.filled) : v3.filled[s] = s
    BY DEF Proxy!IInv, Proxy!OrderFilled
  <2>2. \A s \in 1..(Len(v3.filled) + 1) : s \in 1..Len(v3.filled) \/ s = Len(v3.filled) + 1
    BY <1>4, <2>1
  <2>3. \A s \in 1..v3.stage : Append(v3.filled, st)[s] = s
    BY <1>4, <1>5, <1>8, <2>1, <2>2
  <2>4. v3'.filled = Append(v3.filled, st) /\ v3'.stage = v3.stage + 1 /\ v3'.at = at
    BY <1>6
  <2>5. Len(v3'.filled) = v3.stage /\ v3'.stage - 1 = v3.stage
    BY <1>4, <1>8, <2>1, <2>4
  <2>6. v3'.at \in {"receive", "validate"} => v3'.stage < 4
    BY <1>7, <2>4
  <2> QED
    BY <2>3, <2>4, <2>5, <2>6 DEF Proxy!OrderFilled, Proxy!ShippingStage
<1>11. Proxy!SentOnce'
  BY <1>1, <1>2, <1>6, <1>7 DEF Proxy!IInv, Proxy!SentOnce, Proxy!Waiting
<1>12. Proxy!UIInStep'
  <2>0. Proxy!UIInStep
    BY DEF Proxy!IInv
  <2>1. ASSUME NEW p \in Proxy!Requests
        PROVE /\ v2'[p].stage <= v1.stage
              /\ v2'[p].at = "done" => v2'[p].stage < v3.stage + 1
              /\ v2'[p].at \in {"send", "wait"} => p = v1.waitsFor \/ v1.unheard > 0
    <3>1. CASE p = r
      BY <1>2, <1>4, <1>5, <3>1
    <3>2. CASE p /= r
      <4>1. v2'[p] = v2[p] /\ v2[p].stage \in 1..4
        BY <1>2, <3>2 DEF Proxy!IInv, Proxy!TypeOK
      <4> QED
        BY <1>4, <2>0, <4>1 DEF Proxy!UIInStep
    <3> QED
      BY <3>1, <3>2
  <2>2. r = v1.waitsFor \/ v1.unheard > 0
    BY <1>1, <1>2, <2>0 DEF Proxy!UIInStep, Proxy!IInv, Proxy!SentOnce, Proxy!Waiting
  <2>3. v1.waitsFor /= 0 => v2'[v1.waitsFor].stage = v1.stage
    <3>1. v1.waitsFor /= 0 => v1.waitsFor \in Proxy!Requests
      BY SamplesAssumption DEF Proxy!IInv, Proxy!TypeOK, Proxy!Requests, Proxy!Sizes
    <3> QED
      BY <1>2, <2>0, <3>1 DEF Proxy!UIInStep
  <2>4. v1.unheard > 0 \/ (v1.waitsFor /= 0 /\ v2'[v1.waitsFor].at = "done")
    BY <1>2, <2>2, SamplesAssumption DEF Proxy!Requests, Proxy!Sizes
  <2>5. v1.stage <= v3.stage + 1 /\ v3.stage + 1 <= v1.stage + 1
    BY <1>4, <1>5
  <2> QED
    BY <1>1, <1>6, <2>1, <2>3, <2>4, <2>5 DEF Proxy!UIInStep
<1> QED
  BY <1>9, <1>10, <1>11, <1>12 DEF Proxy!IInv

LEMMA ProxyStep ==
  ASSUME Proxy!IInv, [Proxy!Next]_Proxy!vars
  PROVE  Proxy!IInv'
<1>1. CASE Proxy!ShippingReturns
  <2>1. v1' = v1 /\ v2' = v2 /\ v4' = v4 /\ v3.at = "ship" /\ v3' = [v3 EXCEPT !.at = "closed"]
    BY <1>1 DEF Proxy!ShippingReturns
  <2>2. v3 \in [at : {"receive", "validate", "ship", "closed"}, stage : 1..4, serves : 0..MaxRequests, filled : Seq(1..4)]
    BY DEF Proxy!IInv, Proxy!TypeOK
  <2>3. v3' \in [at : {"receive", "validate", "ship", "closed"}, stage : 1..4, serves : 0..MaxRequests, filled : Seq(1..4)]
    BY <2>1, <2>2
  <2>4. v3' = [at |-> "closed", stage |-> v3.stage, serves |-> v3.serves, filled |-> v3.filled]
    BY <2>1, <2>2
  <2> QED
    BY <2>1, <2>3, <2>4 DEF Proxy!IInv, Proxy!TypeOK, Proxy!OrderFilled, Proxy!SentOnce, Proxy!UIInStep, Proxy!Waiting
<1>2. CASE UNCHANGED Proxy!vars
  BY <1>2 DEF Proxy!vars, Proxy!IInv, Proxy!TypeOK, Proxy!OrderFilled, Proxy!SentOnce, Proxy!UIInStep, Proxy!Waiting
<1> QED
  BY <1>1, <1>2, ProxyPrompt, ProxySend, ProxyHears, ProxyReceive, ProxyAccept, ProxyRefuse
  DEF Proxy!Next, Proxy!Progress

LEMMA ProxySafe == Proxy!IInv => Proxy!OrderInStep
<1> SUFFICES ASSUME Proxy!IInv PROVE Proxy!OrderInStep
  OBVIOUS
<1>1. v1.stage \in 1..4 /\ v3.stage \in 1..4 /\ v1.unheard \in Nat
  BY DEF Proxy!IInv, Proxy!TypeOK
<1>2. /\ v1.stage <= v3.stage /\ v3.stage <= v1.stage + 1
      /\ v3.stage > v1.stage => v1.unheard > 0 \/ v1.waitsFor /= 0
  BY DEF Proxy!IInv, Proxy!UIInStep
<1> QED
  BY <1>1, <1>2 DEF Proxy!IInv, Proxy!OrderFilled, Proxy!OrderInStep

--------------------------------------------------------------------------------
(* AgentChat: v1 is chat, v2 message, v3 transcript. *)

LEMMA ChatInit == Chat!Init => Chat!IInv
<1> SUFFICES ASSUME Chat!Init PROVE Chat!IInv
  OBVIOUS
<1>1. v2 = [m \in Chat!Messages |-> "none"] /\ v3 = <<>> /\ Len(v3) = 0 /\ v3 \in Seq({"user", "model"} \X Chat!Messages)
  BY DEF Chat!Init
<1>2. v1 \in [run : Nat, phase : {"serve", "drain"}, turns : Nat, busy : BOOLEAN, suggested : BOOLEAN]
  BY DEF Chat!Init, Chat!FreshChat
<1> QED
  BY <1>1, <1>2 DEF Chat!IInv, Chat!TypeOK, Chat!TurnsWhole

(* A turn begins when no other is under way: its message is the last of the session. *)
LEMMA ChatBegin ==
  ASSUME Chat!IInv, NEW m \in Chat!Messages, Chat!BeginTurn(m)
  PROVE  Chat!IInv'
<1> DEFINE n == Len(v3)
           Phases == {"none", "waiting", "turn", "answered", "failed"}
           Entries == {"user", "model"} \X Chat!Messages
           Chats == [run : Nat, phase : {"serve", "drain"}, turns : Nat, busy : BOOLEAN, suggested : BOOLEAN]
<1>1. /\ v2[m] = "waiting" /\ ~v1.busy /\ v2' = [v2 EXCEPT ![m] = "turn"] /\ v1' = [v1 EXCEPT !.busy = TRUE]
      /\ v3' = Append(v3, <<"user", m>>)
      /\ v2 \in [Chat!Messages -> Phases] /\ v3 \in Seq(Entries) /\ v1 \in Chats
  BY DEF Chat!BeginTurn, Chat!Idle, Chat!IInv, Chat!TypeOK
<1>2. v1' \in Chats /\ v1'.busy = TRUE /\ v2' \in [Chat!Messages -> Phases]
  BY <1>1
<1>3. /\ v3' \in Seq(Entries) /\ Len(v3') = n + 1 /\ n \in Nat /\ v3'[n + 1] = <<"user", m>>
      /\ \A i \in 1..n : v3'[i] = v3[i] /\ v3[i] \in Entries
  BY <1>1
<1>4. v2'[m] = "turn" /\ \A p \in Chat!Messages : p /= m => v2'[p] = v2[p] /\ v2[p] /= "turn"
  BY <1>1 DEF Chat!IInv
<1>5. Chat!TurnsWhole'
  <2>0. Chat!TurnsWhole
    BY DEF Chat!IInv
  <2>1. ASSUME NEW i \in 1..Len(v3')
        PROVE  IF v3'[i][1] = "user"
               THEN \/ i < Len(v3') /\ v3'[i + 1] = <<"model", v3'[i][2]>>
                    \/ v2'[v3'[i][2]] = "failed"
                    \/ i = Len(v3') /\ v2'[v3'[i][2]] = "turn"
               ELSE i > 1 /\ v3'[i - 1] = <<"user", v3'[i][2]>>
    <3>1. CASE i = n + 1
      BY <1>3, <1>4, <3>1
    <3>2. CASE i \in 1..n
      <4> DEFINE p == v3[i][2]
      <4>1. v3'[i] = v3[i] /\ p \in Chat!Messages /\ i \in Nat /\ (i > 1 => i - 1 \in 1..n)
        BY <1>3, <3>2
      <4>2. CASE v3[i][1] = "user"
        <5>1. \/ i < n /\ v3[i + 1] = <<"model", p>>
              \/ v2[p] = "failed"
              \/ i = n /\ v2[p] = "turn"
          BY <2>0, <3>2, <4>2 DEF Chat!TurnsWhole
        <5>2. ~(v2[p] = "turn") /\ (v2[p] = "failed" => v2'[p] = "failed")
          BY <1>1, <1>4, <4>1
        <5>3. i < n => i + 1 \in 1..n
          BY <1>3, <4>1
        <5> QED
          BY <1>3, <3>2, <4>1, <4>2, <5>1, <5>2, <5>3
      <4>3. CASE v3[i][1] /= "user"
        <5>1. i > 1 /\ v3[i - 1] = <<"user", p>>
          BY <2>0, <3>2, <4>3 DEF Chat!TurnsWhole
        <5> QED
          BY <1>3, <3>2, <4>1, <4>3, <5>1
      <4> QED
        BY <4>2, <4>3
    <3> QED
      BY <1>3, <3>1, <3>2
  <2>2. ASSUME NEW p \in Chat!Messages, v2'[p] = "answered"
        PROVE  \E i \in 1..Len(v3') : v3'[i] = <<"model", p>>
    <3>1. v2[p] = "answered"
      BY <1>4, <2>2
    <3>2. PICK i \in 1..n : v3[i] = <<"model", p>>
      BY <2>0, <3>1 DEF Chat!TurnsWhole
    <3> QED
      BY <1>3, <3>2
  <2> QED
    BY <2>1, <2>2 DEF Chat!TurnsWhole
<1>6. v3' /= <<>> /\ v3'[Len(v3')] = <<"user", m>>
  BY <1>3
<1>7. \A p \in Chat!Messages : v2'[p] = "turn" => p = m
  BY <1>4
<1> QED
  BY <1>2, <1>3, <1>5, <1>6, <1>7 DEF Chat!IInv, Chat!TypeOK

(* The answer follows its message. *)
LEMMA ChatAnswers ==
  ASSUME Chat!IInv, NEW m \in Chat!Messages, Chat!TurnAnswers(m)
  PROVE  Chat!IInv'
<1> DEFINE n == Len(v3)
           Phases == {"none", "waiting", "turn", "answered", "failed"}
           Entries == {"user", "model"} \X Chat!Messages
           Chats == [run : Nat, phase : {"serve", "drain"}, turns : Nat, busy : BOOLEAN, suggested : BOOLEAN]
<1>1. /\ v2[m] = "turn" /\ v2' = [v2 EXCEPT ![m] = "answered"] /\ v1' = [v1 EXCEPT !.busy = FALSE, !.turns = @ + 1]
      /\ v3' = Append(v3, <<"model", m>>)
      /\ v2 \in [Chat!Messages -> Phases] /\ v3 \in Seq(Entries) /\ v1 \in Chats
      /\ v3 /= <<>> /\ v3[n] = <<"user", m>>
  BY DEF Chat!TurnAnswers, Chat!IInv, Chat!TypeOK
<1>2. v1' \in Chats /\ v2' \in [Chat!Messages -> Phases]
  <2>1. v1' = [run |-> v1.run, phase |-> v1.phase, turns |-> v1.turns + 1, busy |-> FALSE, suggested |-> v1.suggested]
    BY <1>1
  <2>2. v1.run \in Nat /\ v1.phase \in {"serve", "drain"} /\ v1.turns + 1 \in Nat /\ v1.suggested \in BOOLEAN
    BY <1>1
  <2>3. v1' \in Chats
    BY <2>1, <2>2
  <2>4. v2' \in [Chat!Messages -> Phases]
    BY <1>1
  <2> QED
    BY <2>3, <2>4
<1>3. /\ v3' \in Seq(Entries) /\ Len(v3') = n + 1 /\ n \in Nat /\ v3'[n + 1] = <<"model", m>>
      /\ \A i \in 1..n : v3'[i] = v3[i] /\ v3[i] \in Entries
  BY <1>1
<1>a. n >= 1
  BY <1>1, <1>3
<1>4. v2'[m] = "answered" /\ \A p \in Chat!Messages : p /= m => v2'[p] = v2[p] /\ v2[p] /= "turn"
  BY <1>1 DEF Chat!IInv
<1>5. Chat!TurnsWhole'
  <2>0. Chat!TurnsWhole
    BY DEF Chat!IInv
  <2>1. ASSUME NEW i \in 1..Len(v3')
        PROVE  IF v3'[i][1] = "user"
               THEN \/ i < Len(v3') /\ v3'[i + 1] = <<"model", v3'[i][2]>>
                    \/ v2'[v3'[i][2]] = "failed"
                    \/ i = Len(v3') /\ v2'[v3'[i][2]] = "turn"
               ELSE i > 1 /\ v3'[i - 1] = <<"user", v3'[i][2]>>
    <3>1. CASE i = n + 1
      <4>1. v3'[i][1] = "model" /\ v3'[i][2] = m /\ n \in 1..n /\ i - 1 = n /\ i > 1
        BY <1>3, <1>a, <3>1
      <4> QED
        BY <1>1, <1>3, <4>1
    <3>2. CASE i \in 1..n
      <4> DEFINE p == v3[i][2]
      <4>1. v3'[i] = v3[i] /\ p \in Chat!Messages /\ i \in Nat /\ (i > 1 => i - 1 \in 1..n)
        BY <1>3, <3>2
      <4>2. CASE v3[i][1] = "user"
        <5>1. \/ i < n /\ v3[i + 1] = <<"model", p>>
              \/ v2[p] = "failed"
              \/ i = n /\ v2[p] = "turn"
          BY <2>0, <3>2, <4>2 DEF Chat!TurnsWhole
        <5>2. (v2[p] = "turn" => p = m) /\ (v2[p] = "failed" => v2'[p] = "failed")
          BY <1>1, <1>4, <4>1
        <5>3. i < n => i + 1 \in 1..n
          BY <1>3, <4>1
        <5> QED
          BY <1>3, <3>2, <4>1, <4>2, <5>1, <5>2, <5>3
      <4>3. CASE v3[i][1] /= "user"
        <5>1. i > 1 /\ v3[i - 1] = <<"user", p>>
          BY <2>0, <3>2, <4>3 DEF Chat!TurnsWhole
        <5> QED
          BY <1>3, <3>2, <4>1, <4>3, <5>1
      <4> QED
        BY <4>2, <4>3
    <3> QED
      BY <1>3, <3>1, <3>2
  <2>2. ASSUME NEW p \in Chat!Messages, v2'[p] = "answered"
        PROVE  \E i \in 1..Len(v3') : v3'[i] = <<"model", p>>
    <3>1. CASE p = m
      BY <1>3, <3>1
    <3>2. CASE p /= m
      <4>1. v2[p] = "answered"
        BY <1>4, <2>2, <3>2
      <4>2. PICK i \in 1..n : v3[i] = <<"model", p>>
        BY <2>0, <4>1 DEF Chat!TurnsWhole
      <4>3. i \in 1..Len(v3')
        BY <1>3, <4>2
      <4>4. v3'[i] = <<"model", p>>
        BY <1>3, <4>2
      <4> QED
        BY <4>3, <4>4
    <3> QED
      BY <3>1, <3>2
  <2> QED
    BY <2>1, <2>2 DEF Chat!TurnsWhole
<1>7. \A p \in Chat!Messages : v2'[p] /= "turn"
  BY <1>4
<1> QED
  BY <1>2, <1>3, <1>5, <1>7 DEF Chat!IInv, Chat!TypeOK

(* What else becomes of a message leaves the session as it is. *)
LEMMA ChatKept ==
  ASSUME Chat!IInv, v3' = v3, NEW m \in Chat!Messages,
         \/ v2[m] = "none" /\ v2' = [v2 EXCEPT ![m] = "waiting"] /\ v1' = v1
         \/ v2[m] = "turn" /\ v2' = [v2 EXCEPT ![m] = "failed"] /\ v1' = [v1 EXCEPT !.busy = FALSE]
  PROVE  Chat!IInv'
<1> DEFINE Phases == {"none", "waiting", "turn", "answered", "failed"}
           Entries == {"user", "model"} \X Chat!Messages
           Chats == [run : Nat, phase : {"serve", "drain"}, turns : Nat, busy : BOOLEAN, suggested : BOOLEAN]
<1>1. v2 \in [Chat!Messages -> Phases] /\ v3 \in Seq(Entries) /\ v1 \in Chats
  BY DEF Chat!IInv, Chat!TypeOK
<1>2. v1' \in Chats /\ v2' \in [Chat!Messages -> Phases]
  BY <1>1
<1>3. ASSUME NEW p \in Chat!Messages
      PROVE /\ v2'[p] = "answered" <=> v2[p] = "answered"
            /\ v2[p] = "failed" => v2'[p] = "failed"
            /\ v2[p] = "turn" => v2'[p] \in {"turn", "failed"}
            /\ v2'[p] = "turn" => v2[p] = "turn"
  BY <1>1
<1>4. \A i \in 1..Len(v3) : v3[i][2] \in Chat!Messages
  BY <1>1
<1>5. Chat!TurnsWhole'
  <2>0. Chat!TurnsWhole
    BY DEF Chat!IInv
  <2>1. ASSUME NEW i \in 1..Len(v3)
        PROVE  IF v3[i][1] = "user"
               THEN \/ i < Len(v3) /\ v3[i + 1] = <<"model", v3[i][2]>>
                    \/ v2'[v3[i][2]] = "failed"
                    \/ i = Len(v3) /\ v2'[v3[i][2]] = "turn"
               ELSE i > 1 /\ v3[i - 1] = <<"user", v3[i][2]>>
    BY <1>3, <1>4, <2>0 DEF Chat!TurnsWhole
  <2>2. \A p \in Chat!Messages : v2'[p] = "answered" => \E i \in 1..Len(v3) : v3[i] = <<"model", p>>
    BY <1>3, <2>0 DEF Chat!TurnsWhole
  <2> QED
    BY <2>1, <2>2 DEF Chat!TurnsWhole
<1>6. ASSUME NEW p \in Chat!Messages, v2'[p] = "turn" PROVE v1'.busy /\ v2[p] = "turn"
  <2>1. v2[p] = "turn" /\ v1.busy
    BY <1>3, <1>6 DEF Chat!IInv
  <2>2. ~(v2[m] = "turn" /\ v2' = [v2 EXCEPT ![m] = "failed"])
    <3>1. SUFFICES ASSUME v2[m] = "turn", v2' = [v2 EXCEPT ![m] = "failed"] PROVE FALSE
      OBVIOUS
    <3>2. v3[Len(v3)] = <<"user", m>> /\ v3[Len(v3)] = <<"user", p>>
      BY <2>1, <3>1 DEF Chat!IInv
    <3>3. m = p
      BY <3>2
    <3> QED
      BY <1>1, <1>6, <3>1, <3>3
  <2> QED
    BY <2>1, <2>2
<1> QED
  BY <1>1, <1>2, <1>5, <1>6 DEF Chat!IInv, Chat!TypeOK

LEMMA ChatStep ==
  ASSUME Chat!IInv, [Chat!Next]_Chat!vars
  PROVE  Chat!IInv'
<1> DEFINE Chats == [run : Nat, phase : {"serve", "drain"}, turns : Nat, busy : BOOLEAN, suggested : BOOLEAN]
<1>0. v1 \in Chats
  BY DEF Chat!IInv, Chat!TypeOK
<1>c. ASSUME v1' \in Chats, v1'.busy = v1.busy, v2' = v2, v3' = v3 PROVE Chat!IInv'
  BY <1>c DEF Chat!IInv, Chat!TypeOK, Chat!TurnsWhole
<1>1. ASSUME NEW m \in Chat!Messages, Chat!SendMessage(m) \/ Chat!TurnFails(m) PROVE Chat!IInv'
  BY <1>1, ChatKept DEF Chat!SendMessage, Chat!TurnFails
<1>2. CASE Chat!SuggestContinueAsNew
  <2>1. v1' \in Chats
    BY <1>0, <1>2 DEF Chat!SuggestContinueAsNew
  <2>2. v1'.busy = v1.busy
    BY <1>0, <1>2 DEF Chat!SuggestContinueAsNew
  <2> QED
    BY <1>2, <1>c, <2>1, <2>2 DEF Chat!SuggestContinueAsNew
<1>3. CASE Chat!StopServing
  <2>1. v1' \in Chats
    BY <1>0, <1>3 DEF Chat!StopServing
  <2>2. v1'.busy = v1.busy
    BY <1>0, <1>3 DEF Chat!StopServing
  <2> QED
    BY <1>3, <1>c, <2>1, <2>2 DEF Chat!StopServing
<1>4. CASE Chat!ContinueAsNew
  <2>1. v1' = [run |-> v1.run + 1, phase |-> "serve", turns |-> 0, busy |-> FALSE, suggested |-> FALSE]
    BY <1>4 DEF Chat!ContinueAsNew, Chat!FreshChat
  <2>2. v1.run + 1 \in Nat
    BY <1>0
  <2>3. v1' \in Chats
    BY <2>1, <2>2
  <2>4. \A m \in Chat!Messages : v2[m] \notin {"waiting", "turn"}
    BY <1>4 DEF Chat!ContinueAsNew, Chat!AllHandlersFinished
  <2>5. v2' = [m \in Chat!Messages |-> v2[m]] /\ v3' = v3
    BY <1>4, <2>4 DEF Chat!ContinueAsNew
  <2>6. v2' = v2
    BY <2>5 DEF Chat!IInv, Chat!TypeOK
  <2>7. Chat!TypeOK'
    BY <2>3, <2>5, <2>6 DEF Chat!IInv, Chat!TypeOK
  <2>8. Chat!TurnsWhole'
    BY <2>5, <2>6 DEF Chat!IInv, Chat!TurnsWhole
  <2> QED
    BY <2>4, <2>6, <2>7, <2>8 DEF Chat!IInv
<1>5. CASE UNCHANGED Chat!vars
  BY <1>5 DEF Chat!vars, Chat!IInv, Chat!TypeOK, Chat!TurnsWhole
<1> QED
  BY <1>1, <1>2, <1>3, <1>4, <1>5, ChatBegin, ChatAnswers DEF Chat!Next, Chat!Progress, Chat!Turn

LEMMA ChatSafe == Chat!IInv => Chat!TurnsWhole /\ Chat!NoMessageDropped
  BY DEF Chat!IInv, Chat!TypeOK, Chat!NoMessageDropped

--------------------------------------------------------------------------------
(* GreetingService: v1 is pattern, v2 flow, v3 update, v4 caller, v5 changes. *)

(* A chain that starts with start goes on with what answers its last link. *)
LEMMA Chained ==
  ASSUME NEW T, NEW s \in Seq(T), NEW e \in T, NEW start,
         \A i \in 1..Len(s) : s[i][1] = IF i = 1 THEN start ELSE s[i - 1][2],
         e[1] = IF s = <<>> THEN start ELSE s[Len(s)][2]
  PROVE  LET t == Append(s, e)
         IN /\ t \in Seq(T) /\ t /= <<>> /\ t[Len(t)] = e
            /\ \A i \in 1..Len(t) : t[i][1] = IF i = 1 THEN start ELSE t[i - 1][2]
<1> DEFINE t == Append(s, e)
           n == Len(s)
<1>1. /\ t \in Seq(T) /\ Len(t) = n + 1 /\ n \in Nat /\ t[n + 1] = e
      /\ \A i \in 1..n : t[i] = s[i]
  OBVIOUS
<1>2. t /= <<>>
  BY <1>1
<1>3. ASSUME NEW i \in 1..Len(t) PROVE t[i][1] = IF i = 1 THEN start ELSE t[i - 1][2]
  <2>1. CASE i = n + 1
    <3>1. CASE n = 0
      <4>1. s = <<>>
        BY <3>1
      <4> QED
        BY <1>1, <2>1, <3>1, <4>1
    <3>2. CASE n > 0
      <4>1. s /= <<>> /\ n \in 1..n /\ i - 1 = n /\ i /= 1
        BY <1>1, <2>1, <3>2
      <4> QED
        BY <1>1, <2>1, <4>1
    <3> QED
      BY <1>1, <3>1, <3>2
  <2>2. CASE i \in 1..n
    <3>1. i /= 1 => i - 1 \in 1..n
      BY <1>1, <2>2
    <3> QED
      BY <1>1, <2>2, <3>1
  <2> QED
    BY <1>1, <2>1, <2>2
<1> QED
  BY <1>1, <1>2, <1>3

LEMMA GreetingInit == Greeting!Init => Greeting!IInv
<1> SUFFICES ASSUME Greeting!Init PROVE Greeting!IInv
  OBVIOUS
<1>1. /\ v1 \in {"caller", "ondemand"}
      /\ v2 = [u \in Greeting!Users |-> Greeting!Absent]
      /\ v3 = [k \in Greeting!Updates |-> [at |-> "none", prev |-> "English"]]
      /\ v4 = [c \in Greeting!Callers |-> [step |-> 1, lost |-> 0, started |-> [u \in Greeting!Users |-> 0]]]
      /\ v5 = [u \in Greeting!Users |-> <<>>]
  BY DEF Greeting!Init, Greeting!NotYet
<1> DEFINE Flows == [status : {"absent", "open", "closed"}, run : Nat, language : Greeting!allLanguages,
                     greetings : {Greeting!initialGreetings, Greeting!allLanguages}, approved : BOOLEAN,
                     lock : {<<>>} \union Greeting!Updates]
<1>3. "English" \in Greeting!initialGreetings /\ "English" \in Greeting!allLanguages
  BY DEF Greeting!initialGreetings, Greeting!allLanguages
<1>2. /\ Greeting!Absent \in Flows /\ Greeting!Absent.language = "English"
      /\ Greeting!Absent.greetings = Greeting!initialGreetings
  <2>1. Greeting!Fresh(0) \in Flows
    BY <1>3 DEF Greeting!Fresh
  <2>2. [Greeting!Fresh(0) EXCEPT !.status = "absent"] \in Flows
    BY <2>1
  <2>3. Greeting!Absent.language = "English" /\ Greeting!Absent.greetings = Greeting!initialGreetings
    BY DEF Greeting!Fresh, Greeting!Absent
  <2> QED
    BY <2>2, <2>3 DEF Greeting!Absent
<1>4. 0 \in 0..MaxLost
  BY SamplesAssumption DEF Greeting!Sizes
<1>5. Greeting!TypeOK
  <2>1. v2 \in [Greeting!Users -> Flows]
    BY <1>1, <1>2
  <2>2. v3 \in [Greeting!Updates -> [at : {"none", "locking", "fetching", "done", "failed"}, prev : Greeting!allLanguages]]
    BY <1>1, <1>3
  <2>3. v4 \in [Greeting!Callers -> [step : Nat, lost : 0..MaxLost, started : [Greeting!Users -> Nat]]]
    BY <1>1, <1>4
  <2>4. v5 \in [Greeting!Users -> Seq(Greeting!allLanguages \X Greeting!allLanguages)]
    BY <1>1
  <2> QED
    BY <1>1, <2>1, <2>2, <2>3, <2>4 DEF Greeting!TypeOK
<1>6. Greeting!SwapsChained
  BY <1>1, <1>2, <1>3 DEF Greeting!SwapsChained
<1> QED
  BY <1>1, <1>5, <1>6 DEF Greeting!IInv, Greeting!AcceptedAnswered, Greeting!Fetching

(* What the program of a caller sets is a language that the activity knows. *)
LEMMA GreetingNew ==
  ASSUME Greeting!IInv, NEW c \in Greeting!Callers, Greeting!Asks(c, "set"), Greeting!Attempt(c) \in Greeting!Updates
  PROVE  Greeting!New(Greeting!Attempt(c)) \in Greeting!allLanguages
<1> DEFINE k == Greeting!Attempt(c)
           P == Greeting!Program
           Sets(i) == P[i].op = "set" /\ P[i].user = k[2]
<1>1. \A i \in 1..Len(P) : P[i].op = "set" => P[i].language \in Greeting!allLanguages
  <2>1. CASE v1 = "caller"
    <3>1. P = Greeting!CallerWorkflow
      BY <2>1 DEF Greeting!Program
    <3>2. Len(P) = 4 /\ \A i \in 1..4 : P[i].op = "set" => P[i].language = "Arabic"
      <4>1. P[1].op = "languages" /\ P[2].language = "Arabic" /\ P[3].op = "get" /\ P[4].op = "approve"
        BY <3>1 DEF Greeting!CallerWorkflow, Greeting!Ask
      <4>2. Len(P) = 4
        BY <3>1 DEF Greeting!CallerWorkflow
      <4>3. \A i \in 1..4 : i = 1 \/ i = 2 \/ i = 3 \/ i = 4
        OBVIOUS
      <4> QED
        BY <4>1, <4>2, <4>3
    <3> QED
      BY <3>2 DEF Greeting!allLanguages
  <2>2. CASE v1 /= "caller"
    <3>1. P = Greeting!CallerRemoteWorkflow
      BY <2>2 DEF Greeting!Program
    <3>2. Len(P) = 11 /\ \A i \in 1..11 : P[i].op = "set" => P[i].language \in {"French", "Spanish"}
      <4>1. /\ P[1].op = "start" /\ P[2].op = "languages" /\ P[3].op = "languages"
            /\ P[4].language = "French" /\ P[5].language = "Spanish"
        BY <3>1 DEF Greeting!CallerRemoteWorkflow, Greeting!Ask
      <4>2. /\ P[6].op = "get" /\ P[7].op = "get" /\ P[8].op = "approve" /\ P[9].op = "approve"
            /\ P[10].op = "result" /\ P[11].op = "result"
        BY <3>1 DEF Greeting!CallerRemoteWorkflow, Greeting!Ask
      <4>3. Len(P) = 11
        BY <3>1 DEF Greeting!CallerRemoteWorkflow
      <4>4. \A i \in 1..11 : i = 1 \/ i = 2 \/ i = 3 \/ i = 4 \/ i = 5 \/ i = 6 \/ i = 7 \/ i = 8 \/ i = 9 \/ i = 10 \/ i = 11
        OBVIOUS
      <4> HIDE DEF P
      <4> QED
        BY <4>1, <4>2, <4>3, <4>4
    <3> QED
      BY <3>2 DEF Greeting!allLanguages
  <2> QED
    BY <2>1, <2>2
<1>2. v4[c].step \in 1..Len(P) /\ P[v4[c].step].op = "set" /\ k[2] = P[v4[c].step].user
  BY DEF Greeting!Asks, Greeting!Running, Greeting!Attempt, Greeting!Asked
<1> HIDE DEF P, k
<1>3. PICK i \in 1..Len(P) : i = CHOOSE j \in 1..Len(P) : Sets(j)
  BY <1>2
<1>4. Sets(CHOOSE j \in 1..Len(P) : Sets(j)) /\ (CHOOSE j \in 1..Len(P) : Sets(j)) \in 1..Len(P)
  BY <1>2
<1>5. P[CHOOSE j \in 1..Len(P) : Sets(j)].language \in Greeting!allLanguages
  BY <1>1, <1>4
<1> QED
  BY <1>5 DEF Greeting!New, P, k

(* What only a caller does leaves the workflows as they are. *)
LEMMA GreetingCallers ==
  ASSUME Greeting!IInv, UNCHANGED <<v1, v2, v3, v5>>,
         v4' \in [Greeting!Callers -> [step : Nat, lost : 0..MaxLost, started : [Greeting!Users -> Nat]]]
  PROVE  Greeting!IInv'
<1>1. Greeting!TypeOK' /\ Greeting!SwapsChained' /\ Greeting!AcceptedAnswered'
  BY DEF Greeting!IInv, Greeting!TypeOK, Greeting!SwapsChained, Greeting!AcceptedAnswered
<1>2. \A k \in Greeting!Updates : Greeting!New(k)' = Greeting!New(k)
  BY DEF Greeting!New, Greeting!Program
<1> QED
  BY <1>1, <1>2 DEF Greeting!IInv, Greeting!Fetching

(* A caller goes on, fails, or loses an answer. *)
LEMMA GreetingCaller ==
  ASSUME Greeting!IInv, NEW c \in Greeting!Callers, Greeting!Advance(c) \/ Greeting!Fail(c) \/ Greeting!AnswerLost(c)
  PROVE  v4' \in [Greeting!Callers -> [step : Nat, lost : 0..MaxLost, started : [Greeting!Users -> Nat]]]
<1> DEFINE Callings == [step : Nat, lost : 0..MaxLost, started : [Greeting!Users -> Nat]]
<1>1. v4 \in [Greeting!Callers -> Callings] /\ v4[c] \in Callings /\ MaxLost \in Nat
  BY SamplesAssumption DEF Greeting!IInv, Greeting!TypeOK, Greeting!Sizes
<1>2. CASE Greeting!Advance(c)
  <2>1. [v4[c] EXCEPT !.step = v4[c].step + 1] \in Callings
    BY <1>1
  <2>2. v4' = [v4 EXCEPT ![c] = [v4[c] EXCEPT !.step = v4[c].step + 1]]
    BY <1>2 DEF Greeting!Advance
  <2> QED
    BY ONLY <1>1, <2>1, <2>2
<1>3. CASE Greeting!Fail(c)
  <2>1. [v4[c] EXCEPT !.step = 0] \in Callings
    BY <1>1
  <2>2. v4' = [v4 EXCEPT ![c] = [v4[c] EXCEPT !.step = 0]]
    BY <1>3 DEF Greeting!Fail
  <2> QED
    BY ONLY <1>1, <2>1, <2>2
<1>4. CASE Greeting!AnswerLost(c)
  <2>1. v4[c].lost + 1 \in 0..MaxLost
    BY <1>1, <1>4 DEF Greeting!AnswerLost
  <2>2. [v4[c] EXCEPT !.lost = v4[c].lost + 1] \in Callings
    BY <1>1, <2>1
  <2>3. v4' = [v4 EXCEPT ![c] = [v4[c] EXCEPT !.lost = v4[c].lost + 1]]
    BY <1>4 DEF Greeting!AnswerLost
  <2> QED
    BY ONLY <1>1, <2>2, <2>3
<1> QED
  BY <1>2, <1>3, <1>4

(* A workflow that was not open starts afresh: no handler is at work in it. *)
LEMMA GreetingStart ==
  ASSUME Greeting!IInv, NEW u \in Greeting!Users, v2[u].status /= "open", Greeting!StartWorkflow(u),
         UNCHANGED <<v1, v3>>,
         v4' \in [Greeting!Callers -> [step : Nat, lost : 0..MaxLost, started : [Greeting!Users -> Nat]]]
  PROVE  Greeting!IInv'
<1> DEFINE Flows == [status : {"absent", "open", "closed"}, run : Nat, language : Greeting!allLanguages,
                     greetings : {Greeting!initialGreetings, Greeting!allLanguages}, approved : BOOLEAN,
                     lock : {<<>>} \union Greeting!Updates]
           new == Greeting!Fresh(v2[u].run + 1)
<1>1. /\ v2 \in [Greeting!Users -> Flows] /\ v5 \in [Greeting!Users -> Seq(Greeting!allLanguages \X Greeting!allLanguages)]
      /\ v2' = [v2 EXCEPT ![u] = new] /\ v5' = [v5 EXCEPT ![u] = <<>>]
  BY DEF Greeting!IInv, Greeting!TypeOK, Greeting!StartWorkflow
<1>2. "English" \in Greeting!initialGreetings /\ "English" \in Greeting!allLanguages
  BY DEF Greeting!initialGreetings, Greeting!allLanguages
<1>3. new \in Flows /\ new.language = "English" /\ new.greetings = Greeting!initialGreetings
  <2>1. v2[u].run + 1 \in Nat
    BY <1>1
  <2> QED
    BY <1>2, <2>1 DEF Greeting!Fresh
<1> HIDE DEF new
<1>4. /\ v2'[u] = new /\ v5'[u] = <<>> /\ Len(v5'[u]) = 0
      /\ \A w \in Greeting!Users : w /= u => v2'[w] = v2[w] /\ v5'[w] = v5[w]
  BY <1>1
<1>5. Greeting!TypeOK'
  <2>1. v2' \in [Greeting!Users -> Flows]
    BY <1>1, <1>3
  <2>2. v5' \in [Greeting!Users -> Seq(Greeting!allLanguages \X Greeting!allLanguages)]
    BY <1>1
  <2> QED
    BY <2>1, <2>2 DEF Greeting!IInv, Greeting!TypeOK
<1>6. Greeting!SwapsChained'
  <2>1. ASSUME NEW w \in Greeting!Users
        PROVE /\ \A i \in 1..Len(v5'[w]) : v5'[w][i][1] = IF i = 1 THEN "English" ELSE v5'[w][i - 1][2]
              /\ v2'[w].language = IF v5'[w] = <<>> THEN "English" ELSE v5'[w][Len(v5'[w])][2]
              /\ v2'[w].language \in v2'[w].greetings
    <3>1. CASE w = u
      BY <1>2, <1>3, <1>4, <3>1
    <3>2. CASE w /= u
      BY <1>4, <3>2 DEF Greeting!IInv, Greeting!SwapsChained
    <3> QED
      BY <3>1, <3>2
  <2> QED
    BY <2>1 DEF Greeting!SwapsChained
<1>7. ASSUME NEW k \in Greeting!Updates, v3[k].at \in {"locking", "fetching"} PROVE k[2] /= u /\ k[2] \in Greeting!Users
  BY <1>7 DEF Greeting!IInv, Greeting!AcceptedAnswered, Greeting!Updates
<1>8. Greeting!AcceptedAnswered'
  BY <1>4, <1>7 DEF Greeting!IInv, Greeting!AcceptedAnswered
<1>9. \A k \in Greeting!Updates : Greeting!New(k)' = Greeting!New(k)
  BY DEF Greeting!New, Greeting!Program
<1>10. ASSUME NEW k \in Greeting!Updates
       PROVE Greeting!Fetching(k)' /\ (v3'[k].at /= "none" => Greeting!New(k)' \in Greeting!allLanguages)
  BY <1>4, <1>7, <1>9 DEF Greeting!IInv, Greeting!Fetching
<1> QED
  BY <1>5, <1>6, <1>8, <1>10 DEF Greeting!IInv

(* An update is accepted by an open workflow. *)
LEMMA GreetingAccept ==
  ASSUME Greeting!IInv, NEW c \in Greeting!Callers, Greeting!SetLanguage(c), v3' /= v3
  PROVE  Greeting!IInv'
<1> DEFINE k == Greeting!Attempt(c)
           u == Greeting!Asked(c).user
           Ups == [at : {"none", "locking", "fetching", "done", "failed"}, prev : Greeting!allLanguages]
<1>1. /\ UNCHANGED <<v1, v2, v4, v5>> /\ v2[u].status = "open" /\ Greeting!Asks(c, "set")
      /\ v3' = [v3 EXCEPT ![k].at = "locking"] /\ v3[k].at = "none" /\ v3 \in [Greeting!Updates -> Ups] /\ k[2] = u
  BY DEF Greeting!IInv, Greeting!TypeOK, Greeting!SetLanguage, Greeting!Fail, Greeting!Attempt
<1>2. k \in Greeting!Updates
  BY <1>1
<1>3. Greeting!New(k) \in Greeting!allLanguages
  BY <1>1, <1>2, GreetingNew
<1> HIDE DEF k, u
<1>4. v3[k] \in Ups
  BY <1>1, <1>2
<1>5. [v3[k] EXCEPT !.at = "locking"] \in Ups /\ v3' = [v3 EXCEPT ![k] = [v3[k] EXCEPT !.at = "locking"]]
  BY <1>1, <1>4
<1>6. v3' \in [Greeting!Updates -> Ups]
  BY ONLY <1>1, <1>5
<1>7. v3'[k].at = "locking" /\ \A j \in Greeting!Updates : j /= k => v3'[j] = v3[j]
  BY <1>1, <1>2, <1>4
<1>8. Greeting!TypeOK' /\ Greeting!SwapsChained'
  BY <1>1, <1>6 DEF Greeting!IInv, Greeting!TypeOK, Greeting!SwapsChained
<1>9. Greeting!AcceptedAnswered'
  BY <1>1, <1>7 DEF Greeting!IInv, Greeting!AcceptedAnswered
<1>10. \A j \in Greeting!Updates : Greeting!New(j)' = Greeting!New(j)
  BY <1>1 DEF Greeting!New, Greeting!Program
<1>11. ASSUME NEW j \in Greeting!Updates
       PROVE Greeting!Fetching(j)' /\ (v3'[j].at /= "none" => Greeting!New(j)' \in Greeting!allLanguages)
  <2>1. CASE j = k
    BY <1>2, <1>3, <1>7, <1>10, <2>1 DEF Greeting!Fetching
  <2>2. CASE j /= k
    BY <1>1, <1>7, <1>10, <2>2 DEF Greeting!IInv, Greeting!Fetching
  <2> QED
    BY <2>1, <2>2
<1> QED
  BY <1>8, <1>9, <1>11 DEF Greeting!IInv

(* Approval, and the end of a workflow whose handlers have finished. *)
LEMMA GreetingFlow ==
  ASSUME Greeting!IInv, NEW u \in Greeting!Users, UNCHANGED <<v1, v3, v5>>,
         v4' \in [Greeting!Callers -> [step : Nat, lost : 0..MaxLost, started : [Greeting!Users -> Nat]]],
         \/ v2' = [v2 EXCEPT ![u].approved = TRUE]
         \/ v2' = [v2 EXCEPT ![u].status = "closed"] /\ Greeting!AllHandlersFinished(u)
  PROVE  Greeting!IInv'
<1> DEFINE Flows == [status : {"absent", "open", "closed"}, run : Nat, language : Greeting!allLanguages,
                     greetings : {Greeting!initialGreetings, Greeting!allLanguages}, approved : BOOLEAN,
                     lock : {<<>>} \union Greeting!Updates]
<1>1. v2 \in [Greeting!Users -> Flows] /\ v2[u] \in Flows
  BY DEF Greeting!IInv, Greeting!TypeOK
<1>2. PICK f \in Flows :
        /\ v2' = [v2 EXCEPT ![u] = f] /\ f.language = v2[u].language /\ f.greetings = v2[u].greetings
        /\ f.lock = v2[u].lock /\ (f.status = v2[u].status \/ Greeting!AllHandlersFinished(u))
  <2>1. CASE v2' = [v2 EXCEPT ![u].approved = TRUE]
    <3> DEFINE f == [v2[u] EXCEPT !.approved = TRUE]
    <3>1. f \in Flows
      BY <1>1
    <3>2. f.language = v2[u].language /\ f.greetings = v2[u].greetings /\ f.lock = v2[u].lock /\ f.status = v2[u].status
      BY <1>1
    <3>3. v2' = [v2 EXCEPT ![u] = f]
      BY <2>1
    <3> QED
      BY <3>1, <3>2, <3>3
  <2>2. CASE v2' = [v2 EXCEPT ![u].status = "closed"] /\ Greeting!AllHandlersFinished(u)
    <3> DEFINE f == [v2[u] EXCEPT !.status = "closed"]
    <3>1. f \in Flows
      BY <1>1
    <3>2. f.language = v2[u].language /\ f.greetings = v2[u].greetings /\ f.lock = v2[u].lock
      BY <1>1
    <3>3. v2' = [v2 EXCEPT ![u] = f]
      BY <2>2
    <3> QED
      BY <2>2, <3>1, <3>2, <3>3
  <2> QED
    BY <2>1, <2>2
<1>3. v2'[u] = f /\ v2' \in [Greeting!Users -> Flows] /\ \A w \in Greeting!Users : w /= u => v2'[w] = v2[w]
  BY <1>1, <1>2
<1>4. Greeting!TypeOK'
  BY <1>3 DEF Greeting!IInv, Greeting!TypeOK
<1>5. \A w \in Greeting!Users : /\ v2'[w].language = v2[w].language /\ v2'[w].greetings = v2[w].greetings
                                /\ v2'[w].lock = v2[w].lock
  BY <1>2, <1>3
<1>6. Greeting!SwapsChained'
  BY <1>5 DEF Greeting!IInv, Greeting!SwapsChained
<1>7. \A k \in Greeting!Updates : k[2] \in Greeting!Users
  BY DEF Greeting!Updates
<1>8. Greeting!AcceptedAnswered'
  BY <1>2, <1>3, <1>7 DEF Greeting!IInv, Greeting!AcceptedAnswered, Greeting!AllHandlersFinished
<1>9. \A j \in Greeting!Updates : Greeting!New(j)' = Greeting!New(j)
  BY DEF Greeting!New, Greeting!Program
<1>10. ASSUME NEW k \in Greeting!Updates
       PROVE Greeting!Fetching(k)' /\ (v3'[k].at /= "none" => Greeting!New(k)' \in Greeting!allLanguages)
  <2>1. Greeting!Fetching(k) /\ (v3[k].at /= "none" => Greeting!New(k) \in Greeting!allLanguages)
    BY DEF Greeting!IInv
  <2>2. v2'[k[2]].lock = v2[k[2]].lock /\ v2'[k[2]].language = v2[k[2]].language
    BY <1>5, <1>7
  <2>3. Greeting!Fetching(k)'
    BY <2>1, <2>2 DEF Greeting!Fetching
  <2> QED
    BY <1>9, <2>1, <2>3
<1> QED
  BY <1>4, <1>6, <1>8, <1>10 DEF Greeting!IInv

(* An attempt is no empty lock. *)
LEMMA UpdatesAreNotEmpty == \A k \in Greeting!Updates : k /= <<>> /\ k[2] \in Greeting!Users
  BY DEF Greeting!Updates, Greeting!Callers, Greeting!Users

(* The holder of lock is the only one that fetches for its user. *)
LEMMA GreetingHolder ==
  ASSUME Greeting!IInv, NEW j \in Greeting!Updates, NEW k \in Greeting!Updates, v3[j].at = "fetching", j[2] = k[2]
  PROVE  v2[k[2]].lock /= <<>> /\ (v3[k].at = "fetching" => j = k)
  BY UpdatesAreNotEmpty DEF Greeting!IInv, Greeting!Fetching

(* The language is replaced: at once, or when the greeting has been fetched. *)
LEMMA GreetingSwap ==
  ASSUME Greeting!IInv, NEW k \in Greeting!Updates, UNCHANGED <<v1, v4>>,
         v3[k].at \in {"locking", "fetching"},
         \A j \in Greeting!Updates : v3[j].at = "fetching" /\ j[2] = k[2] => j = k,
         NEW f \in [status : {"absent", "open", "closed"}, run : Nat, language : Greeting!allLanguages,
                    greetings : {Greeting!initialGreetings, Greeting!allLanguages}, approved : BOOLEAN,
                    lock : {<<>>} \union Greeting!Updates],
         f.status = v2[k[2]].status, f.language = Greeting!New(k), f.language \in f.greetings,
         NEW p \in [at : {"none", "locking", "fetching", "done", "failed"}, prev : Greeting!allLanguages],
         p.at = "done",
         v2' = [v2 EXCEPT ![k[2]] = f],
         v3' = [v3 EXCEPT ![k] = p],
         v5' = [v5 EXCEPT ![k[2]] = Append(v5[k[2]], <<v2[k[2]].language, Greeting!New(k)>>)]
  PROVE  Greeting!IInv'
<1> DEFINE Flows == [status : {"absent", "open", "closed"}, run : Nat, language : Greeting!allLanguages,
                     greetings : {Greeting!initialGreetings, Greeting!allLanguages}, approved : BOOLEAN,
                     lock : {<<>>} \union Greeting!Updates]
           Ups == [at : {"none", "locking", "fetching", "done", "failed"}, prev : Greeting!allLanguages]
           Pairs == Greeting!allLanguages \X Greeting!allLanguages
           u == k[2]
           e == <<v2[u].language, Greeting!New(k)>>
<1>1. /\ v2 \in [Greeting!Users -> Flows] /\ v3 \in [Greeting!Updates -> Ups] /\ v5 \in [Greeting!Users -> Seq(Pairs)]
      /\ u \in Greeting!Users /\ v5[u] \in Seq(Pairs)
  BY UpdatesAreNotEmpty DEF Greeting!IInv, Greeting!TypeOK
<1>2. e \in Pairs /\ e[1] = v2[u].language /\ e[2] = f.language
  BY <1>1
<1>3. LET t == Append(v5[u], e)
      IN /\ t \in Seq(Pairs) /\ t /= <<>> /\ t[Len(t)] = e
         /\ \A i \in 1..Len(t) : t[i][1] = IF i = 1 THEN "English" ELSE t[i - 1][2]
  <2>1. /\ \A i \in 1..Len(v5[u]) : v5[u][i][1] = IF i = 1 THEN "English" ELSE v5[u][i - 1][2]
        /\ e[1] = IF v5[u] = <<>> THEN "English" ELSE v5[u][Len(v5[u])][2]
    BY <1>1, <1>2 DEF Greeting!IInv, Greeting!SwapsChained
  <2> HIDE DEF e, u, Pairs
  <2> QED
    BY ONLY <1>1, <1>2, <2>1, Chained
<1> HIDE DEF e
<1>4. /\ v2'[u] = f /\ v3'[k] = p /\ v5'[u] = Append(v5[u], e)
      /\ \A w \in Greeting!Users : w /= u => v2'[w] = v2[w] /\ v5'[w] = v5[w]
      /\ \A j \in Greeting!Updates : j /= k => v3'[j] = v3[j]
  BY <1>1 DEF e
<1>5. Greeting!TypeOK'
  <2>1. v2' \in [Greeting!Users -> Flows]
    BY ONLY <1>1, v2' = [v2 EXCEPT ![u] = f], f \in Flows
  <2>2. v3' \in [Greeting!Updates -> Ups]
    BY ONLY <1>1, v3' = [v3 EXCEPT ![k] = p], p \in Ups
  <2>3. v5' \in [Greeting!Users -> Seq(Pairs)]
    <3>1. Append(v5[u], e) \in Seq(Pairs) /\ v5' = [v5 EXCEPT ![u] = Append(v5[u], e)]
      BY <1>3 DEF e
    <3> QED
      BY ONLY <1>1, <3>1
  <2> QED
    BY <2>1, <2>2, <2>3 DEF Greeting!IInv, Greeting!TypeOK
<1>6. Greeting!SwapsChained'
  <2>1. ASSUME NEW w \in Greeting!Users
        PROVE /\ \A i \in 1..Len(v5'[w]) : v5'[w][i][1] = IF i = 1 THEN "English" ELSE v5'[w][i - 1][2]
              /\ v2'[w].language = IF v5'[w] = <<>> THEN "English" ELSE v5'[w][Len(v5'[w])][2]
              /\ v2'[w].language \in v2'[w].greetings
    <3>1. CASE w = u
      <4> DEFINE t == Append(v5[u], e)
      <4>1. /\ t /= <<>> /\ t[Len(t)][2] = f.language
            /\ \A i \in 1..Len(t) : t[i][1] = IF i = 1 THEN "English" ELSE t[i - 1][2]
        BY <1>2, <1>3
      <4>2. v5'[w] = t /\ v2'[w] = f
        BY <1>4, <3>1
      <4> HIDE DEF t
      <4>3. \A i \in 1..Len(v5'[w]) : v5'[w][i][1] = IF i = 1 THEN "English" ELSE v5'[w][i - 1][2]
        BY ONLY <4>1, <4>2
      <4>4. v2'[w].language = v5'[w][Len(v5'[w])][2] /\ v5'[w] /= <<>>
        BY ONLY <4>1, <4>2
      <4> QED
        BY <4>2, <4>3, <4>4
    <3>2. CASE w /= u
      BY <1>4, <3>2 DEF Greeting!IInv, Greeting!SwapsChained
    <3> QED
      BY <3>1, <3>2
  <2> QED
    BY <2>1 DEF Greeting!SwapsChained
<1>7. \A j \in Greeting!Updates : j[2] \in Greeting!Users
  BY UpdatesAreNotEmpty
<1>8. \A w \in Greeting!Users : v2'[w].status = v2[w].status
  BY <1>4
<1>9. Greeting!AcceptedAnswered'
  BY <1>4, <1>7, <1>8 DEF Greeting!IInv, Greeting!AcceptedAnswered
<1>10. \A j \in Greeting!Updates : Greeting!New(j)' = Greeting!New(j)
  BY DEF Greeting!New, Greeting!Program
<1>11. ASSUME NEW j \in Greeting!Updates
       PROVE Greeting!Fetching(j)' /\ (v3'[j].at /= "none" => Greeting!New(j)' \in Greeting!allLanguages)
  <2>1. CASE j = k
    BY <1>4, <1>10, <2>1 DEF Greeting!IInv, Greeting!Fetching
  <2>2. CASE j /= k
    <3>1. v3'[j] = v3[j] /\ (v3[j].at = "fetching" => j[2] /= u)
      BY <1>4, <2>2
    <3> QED
      BY <1>4, <1>7, <1>10, <3>1 DEF Greeting!IInv, Greeting!Fetching
  <2> QED
    BY <2>1, <2>2
<1> QED
  BY <1>5, <1>6, <1>9, <1>11 DEF Greeting!IInv

(* A handler that holds lock begins to fetch, or gives it up. *)
LEMMA GreetingLock ==
  ASSUME Greeting!IInv, NEW k \in Greeting!Updates, UNCHANGED <<v1, v4, v5>>,
         \A j \in Greeting!Updates : v3[j].at = "fetching" /\ j[2] = k[2] => j = k,
         v3[k].at \in {"locking", "fetching"},
         NEW l \in {<<>>} \union Greeting!Updates,
         NEW p \in [at : {"none", "locking", "fetching", "done", "failed"}, prev : Greeting!allLanguages],
         \/ p.at = "fetching" /\ p.prev = v2[k[2]].language /\ l = k
         \/ p.at = "failed",
         v2' = [v2 EXCEPT ![k[2]].lock = l],
         v3' = [v3 EXCEPT ![k] = p]
  PROVE  Greeting!IInv'
<1> DEFINE Flows == [status : {"absent", "open", "closed"}, run : Nat, language : Greeting!allLanguages,
                     greetings : {Greeting!initialGreetings, Greeting!allLanguages}, approved : BOOLEAN,
                     lock : {<<>>} \union Greeting!Updates]
           Ups == [at : {"none", "locking", "fetching", "done", "failed"}, prev : Greeting!allLanguages]
           u == k[2]
           f == [v2[u] EXCEPT !.lock = l]
<1>1. /\ v2 \in [Greeting!Users -> Flows] /\ v3 \in [Greeting!Updates -> Ups] /\ u \in Greeting!Users
  BY UpdatesAreNotEmpty DEF Greeting!IInv, Greeting!TypeOK
<1>2. v2[u] \in Flows
  BY <1>1
<1>3. f \in Flows /\ v2' = [v2 EXCEPT ![u] = f]
  BY <1>2
<1>4. f.lock = l /\ f.language = v2[u].language /\ f.greetings = v2[u].greetings /\ f.status = v2[u].status
  BY <1>2
<1> HIDE DEF f
<1>5. /\ v2'[u] = f /\ v3'[k] = p
      /\ \A w \in Greeting!Users : w /= u => v2'[w] = v2[w]
      /\ \A j \in Greeting!Updates : j /= k => v3'[j] = v3[j]
  BY <1>1, <1>3
<1>6. Greeting!TypeOK'
  <2>1. v2' \in [Greeting!Users -> Flows]
    BY ONLY <1>1, <1>3
  <2>2. v3' \in [Greeting!Updates -> Ups]
    BY ONLY <1>1, v3' = [v3 EXCEPT ![k] = p], p \in Ups
  <2> QED
    BY <2>1, <2>2 DEF Greeting!IInv, Greeting!TypeOK
<1>7. \A w \in Greeting!Users : /\ v2'[w].language = v2[w].language /\ v2'[w].greetings = v2[w].greetings
                                /\ v2'[w].status = v2[w].status
  BY <1>4, <1>5
<1>8. Greeting!SwapsChained'
  BY <1>7 DEF Greeting!IInv, Greeting!SwapsChained
<1>9. \A j \in Greeting!Updates : j[2] \in Greeting!Users
  BY UpdatesAreNotEmpty
<1>10. Greeting!AcceptedAnswered'
  BY <1>5, <1>7, <1>9 DEF Greeting!IInv, Greeting!AcceptedAnswered
<1>11. \A j \in Greeting!Updates : Greeting!New(j)' = Greeting!New(j)
  BY DEF Greeting!New, Greeting!Program
<1>12. ASSUME NEW j \in Greeting!Updates
       PROVE Greeting!Fetching(j)' /\ (v3'[j].at /= "none" => Greeting!New(j)' \in Greeting!allLanguages)
  <2>1. CASE j = k
    BY <1>4, <1>5, <1>11, <2>1 DEF Greeting!IInv, Greeting!Fetching
  <2>2. CASE j /= k
    <3>1. v3'[j] = v3[j] /\ (v3[j].at = "fetching" => j[2] /= u)
      BY <1>5, <2>2
    <3> QED
      BY <1>5, <1>9, <1>11, <3>1 DEF Greeting!IInv, Greeting!Fetching
  <2> QED
    BY <2>1, <2>2
<1> QED
  BY <1>6, <1>8, <1>10, <1>12 DEF Greeting!IInv

LEMMA GreetingLocked ==
  ASSUME Greeting!IInv, NEW k \in Greeting!Updates, Greeting!Locked(k)
  PROVE  Greeting!IInv'
<1> DEFINE Flows == [status : {"absent", "open", "closed"}, run : Nat, language : Greeting!allLanguages,
                     greetings : {Greeting!initialGreetings, Greeting!allLanguages}, approved : BOOLEAN,
                     lock : {<<>>} \union Greeting!Updates]
           Ups == [at : {"none", "locking", "fetching", "done", "failed"}, prev : Greeting!allLanguages]
           u == k[2]
<1>1. /\ v2 \in [Greeting!Users -> Flows] /\ v3 \in [Greeting!Updates -> Ups] /\ u \in Greeting!Users
      /\ Greeting!New(k) \in Greeting!allLanguages /\ v3[k].at = "locking" /\ v2[u].lock = <<>>
      /\ UNCHANGED <<v1, v4>>
  BY UpdatesAreNotEmpty DEF Greeting!IInv, Greeting!TypeOK, Greeting!Locked, Greeting!Free
<1>2. v2[u] \in Flows /\ v3[k] \in Ups /\ v2[u].language \in Greeting!allLanguages
  BY <1>1
<1>3. \A j \in Greeting!Updates : v3[j].at = "fetching" /\ j[2] = u => j = k
  BY <1>1, GreetingHolder
<1>4. CASE Greeting!New(k) \in v2[u].greetings
  <2> DEFINE f == [v2[u] EXCEPT !.language = Greeting!New(k)]
             p == [at |-> "done", prev |-> v2[u].language]
  <2>1. /\ v2' = [v2 EXCEPT ![u].language = Greeting!New(k)]
        /\ v3' = [v3 EXCEPT ![k] = p]
        /\ v5' = [v5 EXCEPT ![u] = Append(@, <<v2[u].language, Greeting!New(k)>>)]
    BY <1>4 DEF Greeting!Locked
  <2>2. v2' = [v2 EXCEPT ![u] = f] /\ f \in Flows
    BY <1>1, <1>2, <2>1
  <2>3. f.status = v2[u].status /\ f.language = Greeting!New(k) /\ f.language \in f.greetings
    BY <1>2, <1>4
  <2>4. v3' = [v3 EXCEPT ![k] = p] /\ p \in Ups /\ p.at = "done"
    BY <1>1, <1>2, <2>1
  <2>5. v5' = [v5 EXCEPT ![u] = Append(v5[u], <<v2[u].language, Greeting!New(k)>>)]
    BY <2>1
  <2> HIDE DEF f, p
  <2> QED
    BY <1>1, <1>3, <2>2, <2>3, <2>4, <2>5, GreetingSwap
<1>5. CASE Greeting!New(k) \notin v2[u].greetings
  <2> DEFINE p == [at |-> "fetching", prev |-> v2[u].language]
  <2>1. /\ v2' = [v2 EXCEPT ![u].lock = k] /\ v5' = v5
        /\ v3' = [v3 EXCEPT ![k] = p]
    BY <1>5 DEF Greeting!Locked
  <2>2. v3' = [v3 EXCEPT ![k] = p] /\ p \in Ups /\ p.at = "fetching" /\ p.prev = v2[u].language
    BY <1>1, <1>2, <2>1
  <2> HIDE DEF p
  <2> QED
    BY <1>1, <1>3, <2>1, <2>2, GreetingLock
<1> QED
  BY <1>4, <1>5

LEMMA GreetingFetched ==
  ASSUME Greeting!IInv, NEW k \in Greeting!Updates, Greeting!GreetingsFetched(k)
  PROVE  Greeting!IInv'
<1> DEFINE Flows == [status : {"absent", "open", "closed"}, run : Nat, language : Greeting!allLanguages,
                     greetings : {Greeting!initialGreetings, Greeting!allLanguages}, approved : BOOLEAN,
                     lock : {<<>>} \union Greeting!Updates]
           Ups == [at : {"none", "locking", "fetching", "done", "failed"}, prev : Greeting!allLanguages]
           u == k[2]
           f == [v2[u] EXCEPT !.greetings = Greeting!allLanguages, !.language = Greeting!New(k), !.lock = <<>>]
           p == [v3[k] EXCEPT !.at = "done"]
<1>1. /\ v2 \in [Greeting!Users -> Flows] /\ v3 \in [Greeting!Updates -> Ups] /\ u \in Greeting!Users
      /\ Greeting!New(k) \in Greeting!allLanguages /\ v3[k].at = "fetching" /\ UNCHANGED <<v1, v4>>
      /\ v3[k].prev = v2[u].language
  BY UpdatesAreNotEmpty DEF Greeting!IInv, Greeting!TypeOK, Greeting!GreetingsFetched, Greeting!Fetching
<1>2. v2[u] \in Flows /\ v3[k] \in Ups
  BY <1>1
<1>3. \A j \in Greeting!Updates : v3[j].at = "fetching" /\ j[2] = u => j = k
  BY <1>1, GreetingHolder
<1>4. /\ v2' = [v2 EXCEPT ![u] = f]
      /\ v3' = [v3 EXCEPT ![k].at = "done"]
      /\ v5' = [v5 EXCEPT ![u] = Append(@, <<v3[k].prev, Greeting!New(k)>>)]
  BY DEF Greeting!GreetingsFetched
<1>5. v2' = [v2 EXCEPT ![u] = f]
  BY <1>4
<1>6. f \in Flows /\ f.status = v2[u].status /\ f.language = Greeting!New(k) /\ f.language \in f.greetings
  BY <1>1, <1>2
<1>7. v3' = [v3 EXCEPT ![k] = p] /\ p \in Ups /\ p.at = "done"
  BY <1>1, <1>2, <1>4
<1>8. v5' = [v5 EXCEPT ![u] = Append(v5[u], <<v2[u].language, Greeting!New(k)>>)]
  BY <1>1, <1>4
<1> HIDE DEF f, p
<1> QED
  BY <1>1, <1>3, <1>5, <1>6, <1>7, <1>8, GreetingSwap

LEMMA GreetingFails ==
  ASSUME Greeting!IInv, NEW k \in Greeting!Updates, Greeting!GreetingActivityFails(k)
  PROVE  Greeting!IInv'
<1> DEFINE Ups == [at : {"none", "locking", "fetching", "done", "failed"}, prev : Greeting!allLanguages]
           u == k[2]
           p == [v3[k] EXCEPT !.at = "failed"]
<1>1. /\ v3 \in [Greeting!Updates -> Ups] /\ v3[k].at = "fetching" /\ UNCHANGED <<v1, v4, v5>>
      /\ v2' = [v2 EXCEPT ![u].lock = <<>>] /\ v3' = [v3 EXCEPT ![k].at = "failed"]
  BY DEF Greeting!IInv, Greeting!TypeOK, Greeting!GreetingActivityFails
<1>2. v3[k] \in Ups
  BY <1>1
<1>3. \A j \in Greeting!Updates : v3[j].at = "fetching" /\ j[2] = u => j = k
  BY <1>1, GreetingHolder
<1>4. v3' = [v3 EXCEPT ![k] = p] /\ p \in Ups /\ p.at = "failed"
  BY <1>1, <1>2
<1> HIDE DEF p
<1> QED
  BY <1>1, <1>3, <1>4, GreetingLock

LEMMA GreetingStep ==
  ASSUME Greeting!IInv, [Greeting!Next]_Greeting!vars
  PROVE  Greeting!IInv'
<1> DEFINE Callings == [Greeting!Callers -> [step : Nat, lost : 0..MaxLost, started : [Greeting!Users -> Nat]]]
<1>0. v4 \in Callings /\ v2 \in [Greeting!Users -> [status : {"absent", "open", "closed"}, run : Nat,
                     language : Greeting!allLanguages, greetings : {Greeting!initialGreetings, Greeting!allLanguages},
                     approved : BOOLEAN, lock : {<<>>} \union Greeting!Updates]]
  BY DEF Greeting!IInv, Greeting!TypeOK
<1>1. CASE Greeting!BootWorker
  <2>1. 1 \in Greeting!Users
    BY DEF Greeting!Users
  <2>2. v2[1].status /= "open" /\ Greeting!StartWorkflow(1) /\ UNCHANGED <<v1, v3>> /\ v4' \in Callings
    BY <1>0, <1>1 DEF Greeting!BootWorker
  <2> QED
    BY <2>1, <2>2, GreetingStart
<1>2. ASSUME NEW c \in Greeting!Callers, NEW u \in Greeting!Users, Greeting!RunFromRemote(c, u) PROVE Greeting!IInv'
  <2>0. ASSUME NEW n \in Nat, v4' = [v4 EXCEPT ![c].started[u] = n] PROVE v4' \in Callings
    <3>1. v4[c] \in [step : Nat, lost : 0..MaxLost, started : [Greeting!Users -> Nat]]
      BY <1>0
    <3>2. [v4[c].started EXCEPT ![u] = n] \in [Greeting!Users -> Nat]
      BY <3>1
    <3>3. [v4[c] EXCEPT !.started = [v4[c].started EXCEPT ![u] = n]]
          \in [step : Nat, lost : 0..MaxLost, started : [Greeting!Users -> Nat]]
      BY <3>1, <3>2
    <3>4. v4' = [v4 EXCEPT ![c] = [v4[c] EXCEPT !.started = [v4[c].started EXCEPT ![u] = n]]]
      BY <2>0
    <3> QED
      BY ONLY <1>0, <3>3, <3>4
  <2>1. CASE v2[u].status = "open"
    <3>1. v4' = [v4 EXCEPT ![c].started[u] = Greeting!Refused] /\ UNCHANGED <<v1, v2, v3, v5>>
      BY <1>2, <2>1 DEF Greeting!RunFromRemote
    <3>2. Greeting!Refused \in Nat
      BY SamplesAssumption DEF Greeting!Sizes, Greeting!Refused
    <3> QED
      BY <2>0, <3>1, <3>2, GreetingCallers
  <2>2. CASE v2[u].status /= "open"
    <3>1. v4' = [v4 EXCEPT ![c].started[u] = v2[u].run + 1] /\ Greeting!StartWorkflow(u) /\ UNCHANGED <<v1, v3>>
      BY <1>2, <2>2 DEF Greeting!RunFromRemote
    <3>2. v2[u].run + 1 \in Nat
      BY <1>0
    <3> QED
      BY <2>0, <2>2, <3>1, <3>2, GreetingStart
  <2> QED
    BY <2>1, <2>2
<1>3. ASSUME NEW c \in Greeting!Callers,
             \/ Greeting!BothStarted(c) \/ Greeting!GetLanguages(c) \/ Greeting!GetLanguage(c)
             \/ Greeting!GetUpdateResult(c) \/ Greeting!GetResult(c) \/ Greeting!RetrySetLanguage(c)
      PROVE  Greeting!IInv'
  <2>1. /\ Greeting!Advance(c) \/ Greeting!Fail(c) \/ Greeting!AnswerLost(c)
        /\ UNCHANGED <<v1, v2, v3, v5>>
    BY <1>3 DEF Greeting!BothStarted, Greeting!GetLanguages, Greeting!GetLanguage, Greeting!GetUpdateResult,
                Greeting!GetResult, Greeting!RetrySetLanguage
  <2> QED
    BY <2>1, GreetingCaller, GreetingCallers
<1>4. ASSUME NEW c \in Greeting!Callers, Greeting!SetLanguage(c) PROVE Greeting!IInv'
  <2>1. CASE v3' = v3
    <3>1. v4' = v4 \/ Greeting!Fail(c)
      BY <1>4 DEF Greeting!SetLanguage
    <3>2. v4' \in Callings /\ UNCHANGED <<v1, v2, v3, v5>>
      BY <1>0, <1>4, <2>1, <3>1, GreetingCaller DEF Greeting!SetLanguage
    <3> QED
      BY <3>2, GreetingCallers
  <2> QED
    BY <1>4, <2>1, GreetingAccept
<1>5. ASSUME NEW c \in Greeting!Callers, Greeting!Approve(c) PROVE Greeting!IInv'
  <2> DEFINE u == Greeting!Asked(c).user
  <2>1. CASE v2[u].status = "open"
    <3>1. /\ v2' = [v2 EXCEPT ![u].approved = TRUE] /\ UNCHANGED <<v1, v3, v5>>
          /\ Greeting!Advance(c) \/ Greeting!AnswerLost(c)
      BY <1>5, <2>1 DEF Greeting!Approve
    <3>2. v4' \in Callings
      BY <3>1, GreetingCaller
    <3>3. CASE u \in Greeting!Users
      BY <3>1, <3>2, <3>3, GreetingFlow
    <3>4. CASE u \notin Greeting!Users
      <4>1. v2' = v2
        BY <1>0, <3>1, <3>4
      <4> QED
        BY <3>1, <3>2, <4>1, GreetingCallers
    <3> QED
      BY <3>3, <3>4
  <2>2. CASE v2[u].status /= "open"
    BY <1>5, <2>2, GreetingCaller, GreetingCallers DEF Greeting!Approve
  <2> QED
    BY <2>1, <2>2
<1>6. ASSUME NEW u \in Greeting!Users, Greeting!GreetingWorkflowReturns(u) PROVE Greeting!IInv'
  BY <1>0, <1>6, GreetingFlow DEF Greeting!GreetingWorkflowReturns
<1>7. CASE UNCHANGED Greeting!vars
  BY <1>0, <1>7, GreetingCallers DEF Greeting!vars
<1> QED
  BY <1>1, <1>2, <1>3, <1>4, <1>5, <1>6, <1>7, GreetingLocked, GreetingFetched, GreetingFails
  DEF Greeting!Next, Greeting!Progress, Greeting!Operation, Greeting!Handler

LEMMA GreetingSafe == Greeting!IInv => Greeting!SwapsChained /\ Greeting!AcceptedAnswered
  BY DEF Greeting!IInv

--------------------------------------------------------------------------------
(* Deployments: v1 is up, v2 current, v3 app, v4 run. *)

LEMMA ActivityList ==
  ASSUME NEW kind \in {"SomeActivity", "SomeIncompatibleActivity"}, NEW n \in Nat
  PROVE  LET a == Version!Activities(kind, n)
         IN a \in Seq({"marker", "SomeActivity", "SomeIncompatibleActivity"}) /\ Len(a) = n /\ \A i \in 1..n : a[i] = kind
<1> DEFINE a == Version!Activities(kind, n)
<1>1. a = [i \in 1..n |-> kind]
  BY DEF Version!Activities
<1>2. a \in Seq({"marker", "SomeActivity", "SomeIncompatibleActivity"})
  BY <1>1
<1>3. DOMAIN a = 1..n
  BY <1>1
<1>4. Len(a) = n
  BY <1>2, <1>3
<1> QED
  BY <1>1, <1>2, <1>4

LEMMA MarkedList ==
  ASSUME NEW n \in Nat, n > 0
  PROVE  LET h == Version!AutoUpgradingWorkflowV1b(TRUE, n)
         IN /\ h \in Seq({"marker", "SomeActivity", "SomeIncompatibleActivity"}) /\ Len(h) = n + 1
            /\ h /= <<>> /\ h[1] = "marker"
<1> DEFINE a == Version!Activities("SomeIncompatibleActivity", n)
           Commands == {"marker", "SomeActivity", "SomeIncompatibleActivity"}
           h == <<"marker">> \o a
<1>1. Version!AutoUpgradingWorkflowV1b(TRUE, n) = h
  BY DEF Version!AutoUpgradingWorkflowV1b
<1>2. a \in Seq(Commands) /\ Len(a) = n
  BY ActivityList
<1>3. <<"marker">> \in Seq(Commands) /\ Len(<<"marker">>) = 1 /\ <<"marker">>[1] = "marker"
  OBVIOUS
<1> HIDE DEF a, Commands
<1>4. h \in Seq(Commands) /\ Len(h) = 1 + n /\ \A i \in 1..1 : h[i] = <<"marker">>[i]
  BY <1>2, <1>3
<1>5. h /= <<>> /\ h[1] = "marker"
  BY <1>3, <1>4
<1> HIDE DEF h
<1>6. Len(h) = n + 1
  BY <1>4
<1> QED
  BY <1>1, <1>4, <1>5, <1>6 DEF Commands

(* What the history of the auto-upgrading run says, whichever form it has. *)
LEMMA AutoForms ==
  ASSUME Version!IInv
  PROVE  LET n == Version!Asked("auto")
             h == v4["auto"].history
         IN /\ n \in Nat
            /\ \/ /\ h = Version!Activities("SomeActivity", n)
                  /\ ~Version!HasMarker("auto") /\ (Version!Marked("auto") <=> n = 0)
               \/ /\ v2 > 1 /\ n > 0 /\ h = Version!AutoUpgradingWorkflowV1b(TRUE, n)
                  /\ Version!HasMarker("auto") /\ Version!Marked("auto")
<1> DEFINE n == Version!Asked("auto")
           h == v4["auto"].history
<1>1. h \in Seq({"marker", "SomeActivity", "SomeIncompatibleActivity"}) /\ v2 \in 0..3
  BY DEF Version!IInv, Version!TypeOK, Version!Runs
<1>2. n = Len(h) - (IF Version!HasMarker("auto") THEN 1 ELSE 0)
  BY DEF Version!Asked
<1>3. Version!HasMarker("auto") <=> h /= <<>> /\ h[1] = "marker"
  BY DEF Version!HasMarker
<1>4. Len(h) \in Nat /\ (h /= <<>> => Len(h) > 0)
  BY <1>1
<1> HIDE DEF n, h
<1>5. n \in Nat
  BY <1>2, <1>3, <1>4
<1>6. CASE h = Version!Activities("SomeActivity", n)
  <2>1. Len(h) = n /\ \A i \in 1..n : h[i] = "SomeActivity"
    BY <1>5, <1>6, ActivityList
  <2>2. ~Version!HasMarker("auto")
    BY <1>3, <1>4, <2>1
  <2>3. Version!Marked("auto") <=> h = <<>>
    BY <2>2 DEF Version!Marked, h
  <2>4. h = <<>> <=> n = 0
    BY <1>1, <1>4, <2>1
  <2> QED
    BY <1>5, <1>6, <2>2, <2>3, <2>4 DEF n, h
<1>7. CASE v2 > 1 /\ n > 0 /\ h = Version!AutoUpgradingWorkflowV1b(TRUE, n)
  <2>1. Version!HasMarker("auto")
    BY <1>3, <1>5, <1>7, MarkedList
  <2> QED
    BY <1>5, <1>7, <2>1 DEF n, h, Version!Marked
<1> QED
  BY <1>6, <1>7 DEF Version!IInv, Version!AutoHistory, Version!AutoUpgradingWorkflowV1, n, h

LEMMA VersionInit == Version!Init => Version!IInv
<1> SUFFICES ASSUME Version!Init PROVE Version!IInv
  OBVIOUS
<1>1. /\ v1 = {} /\ v2 = 0 /\ v3 = 1
      /\ v4 = [r \in Version!Runs |-> [status |-> "none", version |-> 0, inbox |-> 0, conclude |-> FALSE,
                                       history |-> <<>>, waits |-> FALSE]]
  BY DEF Version!Init, Version!NotStarted
<1>2. "auto" \in Version!Runs
  BY DEF Version!Runs
<1>3. <<>> \in Seq({"marker", "SomeActivity", "SomeIncompatibleActivity"}) /\ Len(<<>>) = 0
  OBVIOUS
<1>4. Version!TypeOK
  <2>1. v4 \in [Version!Runs -> [status : {"none", "started", "running", "concluding", "done"}, version : 0..3,
                       inbox : Nat, conclude : BOOLEAN, waits : BOOLEAN,
                       history : Seq({"marker", "SomeActivity", "SomeIncompatibleActivity"})]]
    BY <1>1, <1>3
  <2> QED
    BY <1>1, <2>1 DEF Version!TypeOK
<1>5. v4["auto"].history = <<>> /\ v4["auto"].status = "none"
  BY <1>1, <1>2
<1>6. Version!Asked("auto") = 0
  BY <1>3, <1>5 DEF Version!Asked, Version!HasMarker
<1>7. Version!Activities("SomeActivity", 0) = <<>>
  BY ActivityList
<1>8. Version!AutoHistory
  BY <1>5, <1>6, <1>7 DEF Version!AutoHistory, Version!AutoUpgradingWorkflowV1
<1>9. \A r \in Version!Runs : v4[r].status = "none"
  BY <1>1
<1>10. \A r \in Version!Runs \ {"auto"} : Version!PinnedHistory(r)
  BY <1>9 DEF Version!PinnedHistory
<1>11. v3 <= 4 => v2 <= 1
  BY <1>1
<1> QED
  BY <1>4, <1>5, <1>8, <1>10, <1>11 DEF Version!IInv

LEMMA VersionSafe == Version!IInv => Version!UpgradesReplay
<1> SUFFICES ASSUME Version!IInv, NEW r \in Version!Runs, v4[r].status \in {"running", "concluding"}
             PROVE  Version!Replays(r, Version!TaskVersion(r))
  BY DEF Version!UpgradesReplay
<1>1. CASE r = "auto"
  <2> DEFINE n == Version!Asked("auto")
             h == v4["auto"].history
  <2>1. n \in Nat /\ v2 \in 0..3
    BY AutoForms DEF Version!IInv, Version!TypeOK
  <2>2. Version!AutoCode(v2, Version!Marked("auto"), n) = h
    <3>1. CASE h = Version!Activities("SomeActivity", n) /\ (Version!Marked("auto") <=> n = 0)
      <4>1. n = 0 => h = <<>>
        BY <3>1, ActivityList
      <4> QED
        BY <3>1, <4>1 DEF Version!AutoCode, Version!AutoUpgradingWorkflowV1, Version!AutoUpgradingWorkflowV1b
    <3>2. CASE v2 > 1 /\ n > 0 /\ h = Version!AutoUpgradingWorkflowV1b(TRUE, n) /\ Version!Marked("auto")
      BY <2>1, <3>2 DEF Version!AutoCode, Version!AutoUpgradingWorkflowV1b
    <3> QED
      BY <3>1, <3>2, AutoForms
  <2> QED
    BY <1>1, <2>2 DEF Version!Replays, Version!TaskVersion
<1>2. CASE r /= "auto"
  BY <1>2 DEF Version!IInv, Version!PinnedHistory, Version!Replays, Version!TaskVersion
<1> QED
  BY <1>1, <1>2

(* A history of the auto-upgrading run that is right stays so when the current version    *)
(* goes up.                                                                              *)
LEMMA AutoKept ==
  ASSUME Version!AutoHistory, v4'["auto"].history = v4["auto"].history, v2 > 1 => v2' > 1
  PROVE  Version!AutoHistory'
<1>1. Version!Asked("auto")' = Version!Asked("auto")
  BY DEF Version!Asked, Version!HasMarker
<1>2. \A n : /\ Version!AutoUpgradingWorkflowV1(n)' = Version!AutoUpgradingWorkflowV1(n)
             /\ Version!AutoUpgradingWorkflowV1b(TRUE, n)' = Version!AutoUpgradingWorkflowV1b(TRUE, n)
  BY DEF Version!AutoUpgradingWorkflowV1, Version!AutoUpgradingWorkflowV1b, Version!Activities
<1> QED
  BY <1>1, <1>2 DEF Version!AutoHistory

(* A step of one run: what it is left with. *)
LEMMA VersionRun ==
  ASSUME Version!IInv, NEW r \in Version!Runs, UNCHANGED <<v1, v2>>,
         v3' = v3 \/ v3' = v3 + 1, v3' \in 1..11, v3' <= 4 => v2 <= 1,
         NEW s \in [status : {"none", "started", "running", "concluding", "done"}, version : 0..3,
                    inbox : Nat, conclude : BOOLEAN, waits : BOOLEAN,
                    history : Seq({"marker", "SomeActivity", "SomeIncompatibleActivity"})],
         v4' = [v4 EXCEPT ![r] = s],
         r = "auto" => /\ Version!AutoHistory' /\ s.status /= "concluding"
                       /\ s.status \in {"none", "started"} => s.history = <<>>
                       /\ v3' <= 2 => s.status = "none",
         r /= "auto" =>
           /\ s.status = "running" => s.history = Version!PinnedCode(s.version, FALSE)
           /\ s.status \in {"concluding", "done"} => s.history = Version!PinnedCode(s.version, TRUE)
  PROVE  Version!IInv'
<1> DEFINE States == [status : {"none", "started", "running", "concluding", "done"}, version : 0..3,
                      inbox : Nat, conclude : BOOLEAN, waits : BOOLEAN,
                      history : Seq({"marker", "SomeActivity", "SomeIncompatibleActivity"})]
<1>1. v4 \in [Version!Runs -> States] /\ v3 \in 1..11
  BY DEF Version!IInv, Version!TypeOK
<1> HIDE DEF States
<1>2. /\ v4' \in [Version!Runs -> States] /\ v4'[r] = s
      /\ \A p \in Version!Runs : p /= r => v4'[p] = v4[p]
  BY <1>1 DEF States
<1>3. Version!TypeOK'
  BY <1>2 DEF Version!IInv, Version!TypeOK, States
<1>4. "auto" \in Version!Runs
  BY DEF Version!Runs
<1>5. Version!AutoHistory'
  <2>1. CASE r /= "auto"
    BY <1>2, <1>4, <2>1, AutoKept DEF Version!IInv
  <2> QED
    BY <2>1
<1>6. /\ v4'["auto"].status /= "concluding"
      /\ v4'["auto"].status \in {"none", "started"} => v4'["auto"].history = <<>>
      /\ v3' <= 2 => v4'["auto"].status = "none"
  <2>1. CASE r = "auto"
    BY <1>2, <2>1
  <2>2. CASE r /= "auto"
    <3>1. v4'["auto"] = v4["auto"] /\ (v3' <= 2 => v3 <= 2)
      BY <1>1, <1>2, <1>4, <2>2
    <3> QED
      BY <3>1 DEF Version!IInv
  <2> QED
    BY <2>1, <2>2
<1>7. ASSUME NEW p \in Version!Runs \ {"auto"} PROVE Version!PinnedHistory(p)'
  <2>1. \A v, c : Version!PinnedCode(v, c)' = Version!PinnedCode(v, c)
    BY DEF Version!PinnedCode, Version!PinnedWorkflowV1, Version!PinnedWorkflowV2
  <2>2. CASE p = r
    BY <1>2, <2>1, <2>2 DEF Version!PinnedHistory
  <2>3. CASE p /= r
    BY <1>2, <2>1, <2>3 DEF Version!IInv, Version!PinnedHistory
  <2> QED
    BY <2>2, <2>3
<1> QED
  BY <1>3, <1>5, <1>6, <1>7 DEF Version!IInv

(* The application starts runs, and sends signals to several of them. *)
LEMMA VersionQuiet ==
  ASSUME Version!IInv, UNCHANGED v1, v2 > 1 => v2' > 1, v2' \in 0..3, v3' \in 1..11, v3' <= 4 => v2' <= 1, v3' >= v3,
         v4' \in [Version!Runs -> [status : {"none", "started", "running", "concluding", "done"}, version : 0..3,
                    inbox : Nat, conclude : BOOLEAN, waits : BOOLEAN,
                    history : Seq({"marker", "SomeActivity", "SomeIncompatibleActivity"})]],
         \A p \in Version!Runs : /\ v4'[p].history = v4[p].history /\ v4'[p].version = v4[p].version
                                 /\ v4'[p].status = v4[p].status
                                      \/ (v4'[p].status = "started" /\ (p = "auto" => v3 <= 2 /\ v3' > 2))
  PROVE  Version!IInv'
<1>1. "auto" \in Version!Runs /\ v3 \in 1..11
  BY DEF Version!IInv, Version!TypeOK, Version!Runs
<1>2. Version!TypeOK'
  BY DEF Version!IInv, Version!TypeOK
<1>3. Version!AutoHistory'
  BY <1>1, AutoKept DEF Version!IInv
<1>4. /\ v4'["auto"].status /= "concluding"
      /\ v4'["auto"].status \in {"none", "started"} => v4'["auto"].history = <<>>
      /\ v3' <= 2 => v4'["auto"].status = "none"
  BY <1>1 DEF Version!IInv
<1>5. ASSUME NEW p \in Version!Runs \ {"auto"} PROVE Version!PinnedHistory(p)'
  <2>1. \A v, c : Version!PinnedCode(v, c)' = Version!PinnedCode(v, c)
    BY DEF Version!PinnedCode, Version!PinnedWorkflowV1, Version!PinnedWorkflowV2
  <2> QED
    BY <2>1 DEF Version!IInv, Version!PinnedHistory
<1> QED
  BY <1>2, <1>3, <1>4, <1>5 DEF Version!IInv

LEMMA PinnedList ==
  ASSUME NEW v, NEW c
  PROVE  Version!PinnedCode(v, c) \in Seq({"marker", "SomeActivity", "SomeIncompatibleActivity"})
<1>1. <<>> \in Seq({"marker", "SomeActivity", "SomeIncompatibleActivity"})
  OBVIOUS
<1>2. <<"SomeActivity">> \in Seq({"marker", "SomeActivity", "SomeIncompatibleActivity"})
  OBVIOUS
<1>3. <<"SomeActivity", "SomeIncompatibleActivity">> \in Seq({"marker", "SomeActivity", "SomeIncompatibleActivity"})
  OBVIOUS
<1> QED
  BY <1>1, <1>2, <1>3 DEF Version!PinnedCode, Version!PinnedWorkflowV1, Version!PinnedWorkflowV2

(* What a run is after some of its fields have changed. *)
LEMMA RunChanges ==
  ASSUME NEW A, NEW B, NEW C, NEW D, NEW E, NEW F,
         NEW r \in [status : A, version : B, inbox : C, conclude : D, waits : E, history : F],
         NEW a \in A, NEW b \in B, NEW c \in C, NEW d \in D, NEW w \in E, NEW h \in F
  PROVE  LET R == [status : A, version : B, inbox : C, conclude : D, waits : E, history : F]
             s1 == [r EXCEPT !.status = a, !.version = b, !.history = h, !.waits = w]
             s2 == [r EXCEPT !.inbox = c, !.waits = w, !.history = h]
             s3 == [r EXCEPT !.conclude = d, !.waits = w, !.history = h, !.status = a]
             s4 == [r EXCEPT !.waits = w, !.status = a]
         IN /\ s1 \in R /\ s1.status = a /\ s1.version = b /\ s1.history = h
            /\ s2 \in R /\ s2.status = r.status /\ s2.version = r.version /\ s2.history = h
            /\ s3 \in R /\ s3.status = a /\ s3.version = r.version /\ s3.history = h
            /\ s4 \in R /\ s4.status = a /\ s4.version = r.version /\ s4.history = r.history
<1> DEFINE R == [status : A, version : B, inbox : C, conclude : D, waits : E, history : F]
           s1 == [r EXCEPT !.status = a, !.version = b, !.history = h, !.waits = w]
           s2 == [r EXCEPT !.inbox = c, !.waits = w, !.history = h]
           s3 == [r EXCEPT !.conclude = d, !.waits = w, !.history = h, !.status = a]
           s4 == [r EXCEPT !.waits = w, !.status = a]
<1>1. s1 \in R /\ s1.status = a /\ s1.version = b /\ s1.history = h
  OBVIOUS
<1>2. s2 \in R /\ s2.status = r.status /\ s2.version = r.version /\ s2.history = h
  OBVIOUS
<1>3. s3 \in R /\ s3.status = a /\ s3.version = r.version /\ s3.history = h
  OBVIOUS
<1>4. s4 \in R /\ s4.status = a /\ s4.version = r.version /\ s4.history = r.history
  OBVIOUS
<1> QED
  BY <1>1, <1>2, <1>3, <1>4

LEMMA VersionFirst ==
  ASSUME Version!IInv, NEW r \in Version!Runs, Version!FirstTask(r)
  PROVE  Version!IInv'
<1> DEFINE Commands == Seq({"marker", "SomeActivity", "SomeIncompatibleActivity"})
           Statuses == {"none", "started", "running", "concluding", "done"}
           States == [status : Statuses, version : 0..3, inbox : Nat, conclude : BOOLEAN, waits : BOOLEAN,
                      history : Commands]
           h == IF r = "auto" THEN <<>> ELSE Version!PinnedCode(v2, FALSE)
           s == [v4[r] EXCEPT !.status = "running", !.version = v2, !.history = h, !.waits = h /= <<>>]
<1>1. v4 \in [Version!Runs -> States] /\ v3 \in 1..11 /\ v2 \in 0..3 /\ v4[r].status = "started"
      /\ UNCHANGED <<v1, v2, v3>> /\ v4' = [v4 EXCEPT ![r] = s] /\ (v3 <= 4 => v2 <= 1)
      /\ (v3 <= 2 => v4["auto"].status = "none")
  BY DEF Version!IInv, Version!TypeOK, Version!FirstTask
<1>2. h \in Commands
  <2>1. <<>> \in Commands
    OBVIOUS
  <2> QED
    BY <2>1, PinnedList
<1>3. s \in States /\ s.status = "running" /\ s.version = v2 /\ s.history = h
  <2>1. v4[r] \in States /\ "running" \in Statuses /\ (h /= <<>>) \in BOOLEAN
    BY <1>1
  <2> HIDE DEF h, Commands, Statuses
  <2> QED
    BY <1>1, <1>2, <2>1, RunChanges
<1>4. r = "auto" => Version!AutoHistory' /\ v3' > 2
  <2>1. SUFFICES ASSUME r = "auto" PROVE Version!AutoHistory' /\ v3' > 2
    OBVIOUS
  <2>2. v4'["auto"] = s /\ h = <<>> /\ v4["auto"].history = <<>>
    BY <1>1, <2>1 DEF Version!IInv
  <2>3. Version!AutoHistory
    BY DEF Version!IInv
  <2>4. v4'["auto"].history = v4["auto"].history /\ v2' = v2
    <3> HIDE DEF s, h
    <3> QED
      BY <1>1, <1>3, <2>2
  <2>5. Version!AutoHistory'
    BY <2>3, <2>4, AutoKept
  <2> QED
    BY <1>1, <2>1, <2>5
<1>5. r /= "auto" => s.history = Version!PinnedCode(s.version, FALSE)
  BY <1>3
<1> HIDE DEF h, s
<1> QED
  BY <1>1, <1>3, <1>4, <1>5, VersionRun

LEMMA VersionReceive ==
  ASSUME Version!IInv, NEW r \in Version!Runs, Version!ReceiveSignal(r)
  PROVE  Version!IInv'
<1> DEFINE Commands == Seq({"marker", "SomeActivity", "SomeIncompatibleActivity"})
           Statuses == {"none", "started", "running", "concluding", "done"}
           States == [status : Statuses, version : 0..3, inbox : Nat, conclude : BOOLEAN, waits : BOOLEAN,
                      history : Commands]
           n == Version!Asked("auto")
           h == IF r = "auto" THEN Version!AutoCode(v2, Version!Marked("auto"), n + 1) ELSE v4[r].history
           s == [v4[r] EXCEPT !.inbox = v4[r].inbox - 1, !.waits = r = "auto", !.history = h]
<1>1. v4 \in [Version!Runs -> States] /\ v3 \in 1..11 /\ v2 \in 0..3 /\ v4[r].status = "running"
      /\ UNCHANGED <<v1, v2, v3>> /\ (v3 <= 4 => v2 <= 1) /\ (v3 <= 2 => v4["auto"].status = "none")
      /\ v4[r].inbox > 0
  BY DEF Version!IInv, Version!TypeOK, Version!ReceiveSignal
<1>2. v4' = [v4 EXCEPT ![r] = s]
  <2> DEFINE h2 == IF r = "auto" THEN Version!AutoCode(Version!TaskVersion(r), Version!Marked(r), Version!Asked(r) + 1)
                   ELSE v4[r].history
  <2>1. h2 = h
    BY DEF Version!TaskVersion
  <2>2. v4' = [v4 EXCEPT ![r] = [v4[r] EXCEPT !.inbox = v4[r].inbox - 1, !.waits = r = "auto", !.history = h2]]
    BY DEF Version!ReceiveSignal
  <2> HIDE DEF h2, h
  <2> QED
    BY ONLY <2>1, <2>2
<1>3. r = "auto" => v2 \in 1..3
  BY DEF Version!ReceiveSignal, Version!TaskVersion, Version!IInv, Version!TypeOK, Version!Versions
<1>4. n \in Nat
  BY AutoForms
<1>5. r = "auto" =>
        \/ h = Version!Activities("SomeActivity", n + 1)
        \/ v2 > 1 /\ h = Version!AutoUpgradingWorkflowV1b(TRUE, n + 1)
  <2>1. SUFFICES ASSUME r = "auto"
                 PROVE  \/ h = Version!Activities("SomeActivity", n + 1)
                        \/ v2 > 1 /\ h = Version!AutoUpgradingWorkflowV1b(TRUE, n + 1)
    OBVIOUS
  <2>2. h = Version!AutoCode(v2, Version!Marked("auto"), n + 1) /\ v2 \in 1..3
    BY <1>3, <2>1
  <2>3. n + 1 /= 0
    BY <1>4
  <2> HIDE DEF h, n
  <2>4. CASE v2 = 1
    BY <2>2, <2>4 DEF Version!AutoCode, Version!AutoUpgradingWorkflowV1
  <2>5. CASE v2 > 1 /\ Version!Marked("auto")
    BY <2>2, <2>5 DEF Version!AutoCode, Version!AutoUpgradingWorkflowV1b
  <2>6. CASE v2 > 1 /\ ~Version!Marked("auto")
    <3>1. Version!AutoCode(v2, Version!Marked("auto"), n + 1) = Version!AutoUpgradingWorkflowV1b(FALSE, n + 1)
      BY <2>6 DEF Version!AutoCode, Version!AutoUpgradingWorkflowV1b
    <3>2. Version!AutoUpgradingWorkflowV1b(FALSE, n + 1) = Version!Activities("SomeActivity", n + 1)
      BY <2>3 DEF Version!AutoUpgradingWorkflowV1b
    <3> QED
      BY <2>2, <3>1, <3>2
  <2>7. v2 = 1 \/ v2 > 1
    BY <2>2
  <2> QED
    BY <2>4, <2>5, <2>6, <2>7
<1>6. h \in Commands
  <2>1. n + 1 \in Nat /\ n + 1 > 0
    BY <1>4
  <2>2. CASE r = "auto"
    <3> HIDE DEF h, n
    <3>1. Version!Activities("SomeActivity", n + 1) \in Commands
      BY <2>1, ActivityList
    <3>2. Version!AutoUpgradingWorkflowV1b(TRUE, n + 1) \in Commands
      BY <2>1, MarkedList
    <3> QED
      BY <1>5, <2>2, <3>1, <3>2
  <2>3. CASE r /= "auto"
    BY <1>1, <2>3
  <2> QED
    BY <2>2, <2>3
<1>7. s \in States /\ s.status = "running" /\ s.version = v4[r].version /\ s.history = h
  <2>1. v4[r] \in States /\ (r = "auto") \in BOOLEAN /\ v4[r].inbox \in Nat
    BY <1>1
  <2>2. v4[r].inbox - 1 \in Nat
    BY <1>1, <2>1
  <2>3. "running" \in Statuses /\ 0 \in 0..3 /\ FALSE \in BOOLEAN
    OBVIOUS
  <2> HIDE DEF h, Commands, Statuses
  <2> QED
    BY <1>1, <1>6, <2>1, <2>2, <2>3, RunChanges
<1>8. r = "auto" => Version!AutoHistory' /\ v3' > 2
  <2>1. SUFFICES ASSUME r = "auto" PROVE Version!AutoHistory' /\ v3' > 2
    OBVIOUS
  <2>2. v4'["auto"] = s
    BY <1>1, <1>2, <2>1
  <2>3. v4'["auto"].history = h /\ n + 1 \in Nat /\ n + 1 > 0
    BY <1>4, <1>7, <2>2
  <2>4. v3' > 2
    BY <1>1, <2>1
  <2> HIDE DEF h, s, n
  <2>5. CASE h = Version!Activities("SomeActivity", n + 1)
    <3>1. h \in Commands /\ Len(h) = n + 1 /\ h[1] = "SomeActivity"
      BY <2>3, <2>5, ActivityList
    <3>2. Version!HasMarker("auto")' = FALSE
      BY <2>3, <3>1 DEF Version!HasMarker
    <3>3. Version!Asked("auto")' = n + 1
      BY <1>4, <2>3, <3>1, <3>2 DEF Version!Asked
    <3>4. v4'["auto"].history = Version!AutoUpgradingWorkflowV1(Version!Asked("auto"))'
      BY <2>3, <2>5, <3>3 DEF Version!AutoUpgradingWorkflowV1, Version!Activities
    <3> QED
      BY <2>4, <3>4 DEF Version!AutoHistory
  <2>6. CASE v2 > 1 /\ h = Version!AutoUpgradingWorkflowV1b(TRUE, n + 1)
    <3>1. Len(h) = (n + 1) + 1 /\ h /= <<>> /\ h[1] = "marker"
      BY <2>3, <2>6, MarkedList
    <3>2. Version!HasMarker("auto")'
      BY <2>3, <3>1 DEF Version!HasMarker
    <3>3. Version!Asked("auto")' = n + 1
      BY <1>4, <2>3, <3>1, <3>2 DEF Version!Asked
    <3>4. v4'["auto"].history = Version!AutoUpgradingWorkflowV1b(TRUE, Version!Asked("auto"))'
      BY <2>3, <2>6, <3>3 DEF Version!AutoUpgradingWorkflowV1b, Version!Activities
    <3>5. v2' > 1 /\ Version!Asked("auto")' > 0
      BY <1>1, <2>3, <2>6, <3>3
    <3> QED
      BY <2>4, <3>4, <3>5 DEF Version!AutoHistory
  <2> QED
    BY <1>5, <2>1, <2>5, <2>6
<1>9. r /= "auto" => s.history = Version!PinnedCode(s.version, FALSE)
  <2>1. SUFFICES ASSUME r /= "auto" PROVE s.history = Version!PinnedCode(s.version, FALSE)
    OBVIOUS
  <2>2. v4[r].history = Version!PinnedCode(v4[r].version, FALSE) /\ h = v4[r].history
    BY <1>1, <2>1 DEF Version!IInv, Version!PinnedHistory
  <2> QED
    BY <1>7, <2>2
<1> HIDE DEF s, h
<1> QED
  BY <1>1, <1>2, <1>7, <1>8, <1>9, VersionRun

LEMMA VersionConclude ==
  ASSUME Version!IInv, NEW r \in Version!Runs, Version!ReceiveConclude(r)
  PROVE  Version!IInv'
<1> DEFINE Commands == Seq({"marker", "SomeActivity", "SomeIncompatibleActivity"})
           Statuses == {"none", "started", "running", "concluding", "done"}
           States == [status : Statuses, version : 0..3, inbox : Nat, conclude : BOOLEAN, waits : BOOLEAN,
                      history : Commands]
           h == IF r = "auto" THEN v4[r].history ELSE Version!PinnedCode(v4[r].version, TRUE)
           a == IF r = "auto" THEN "done" ELSE "concluding"
           s == [v4[r] EXCEPT !.conclude = FALSE, !.waits = r /= "auto", !.history = h, !.status = a]
<1>1. v4 \in [Version!Runs -> States] /\ v3 \in 1..11 /\ v2 \in 0..3 /\ v4[r].status = "running"
      /\ UNCHANGED <<v1, v2, v3>> /\ v4' = [v4 EXCEPT ![r] = s] /\ (v3 <= 4 => v2 <= 1)
      /\ (v3 <= 2 => v4["auto"].status = "none")
  BY DEF Version!IInv, Version!TypeOK, Version!ReceiveConclude
<1>2. h \in Commands
  BY <1>1, PinnedList
<1>3. s \in States /\ s.status = a /\ s.version = v4[r].version /\ s.history = h
  <2>1. v4[r] \in States /\ (r /= "auto") \in BOOLEAN /\ a \in Statuses /\ FALSE \in BOOLEAN
        /\ 0 \in 0..3 /\ 0 \in Nat
    BY <1>1
  <2> HIDE DEF h, a, Commands, Statuses
  <2> QED
    BY <1>1, <1>2, <2>1, RunChanges
<1>4. r = "auto" => Version!AutoHistory' /\ v3' > 2
  <2>1. SUFFICES ASSUME r = "auto" PROVE Version!AutoHistory' /\ v3' > 2
    OBVIOUS
  <2>2. v4'["auto"] = s /\ h = v4["auto"].history
    BY <1>1, <2>1
  <2>3. Version!AutoHistory
    BY DEF Version!IInv
  <2>4. v4'["auto"].history = v4["auto"].history /\ v2' = v2
    BY <1>1, <1>3, <2>2
  <2>5. Version!AutoHistory'
    BY <2>3, <2>4, AutoKept
  <2> QED
    BY <1>1, <2>1, <2>5
<1>5. r /= "auto" => s.history = Version!PinnedCode(s.version, TRUE)
  BY <1>3
<1>6. /\ r = "auto" => s.status = "done"
      /\ r /= "auto" => s.status = "concluding"
  BY <1>3
<1> HIDE DEF h, s
<1> QED
  BY <1>1, <1>3, <1>4, <1>5, <1>6, VersionRun

LEMMA VersionCompletes ==
  ASSUME Version!IInv, NEW r \in Version!Runs, Version!ActivityCompletes(r)
  PROVE  Version!IInv'
<1> DEFINE Commands == Seq({"marker", "SomeActivity", "SomeIncompatibleActivity"})
           Statuses == {"none", "started", "running", "concluding", "done"}
           States == [status : Statuses, version : 0..3, inbox : Nat, conclude : BOOLEAN, waits : BOOLEAN,
                      history : Commands]
           a == IF v4[r].status = "concluding" THEN "done" ELSE v4[r].status
           s == [v4[r] EXCEPT !.waits = FALSE, !.status = a]
<1>1. v4 \in [Version!Runs -> States] /\ v3 \in 1..11 /\ v2 \in 0..3
      /\ UNCHANGED <<v1, v2, v3>> /\ v4' = [v4 EXCEPT ![r] = s] /\ (v3 <= 4 => v2 <= 1)
      /\ (v3 <= 2 => v4["auto"].status = "none")
  BY DEF Version!IInv, Version!TypeOK, Version!ActivityCompletes
<1>2. s \in States /\ s.status = a /\ s.version = v4[r].version /\ s.history = v4[r].history
  <2>1. v4[r] \in States /\ a \in Statuses /\ FALSE \in BOOLEAN /\ 0 \in 0..3 /\ 0 \in Nat /\ v4[r].history \in Commands
    BY <1>1
  <2> HIDE DEF a, Commands, Statuses
  <2> QED
    BY <1>1, <2>1, RunChanges
<1>3. r = "auto" => /\ Version!AutoHistory' /\ s.status /= "concluding"
                    /\ s.status \in {"none", "started"} => s.history = <<>>
                    /\ v3' <= 2 => s.status = "none"
  <2>1. SUFFICES ASSUME r = "auto"
                 PROVE  /\ Version!AutoHistory' /\ s.status /= "concluding"
                        /\ s.status \in {"none", "started"} => s.history = <<>>
                        /\ v3' <= 2 => s.status = "none"
    OBVIOUS
  <2>2. v4'["auto"] = s
    BY <1>1, <2>1
  <2>3. Version!AutoHistory'
    BY <1>1, <1>2, <2>1, <2>2, AutoKept DEF Version!IInv
  <2>4. v4["auto"].status /= "concluding" /\ s.status = v4["auto"].status /\ s.history = v4["auto"].history
    BY <1>2, <2>1 DEF Version!IInv
  <2> QED
    BY <1>1, <2>3, <2>4 DEF Version!IInv
<1>4. r /= "auto" =>
        /\ s.status = "running" => s.history = Version!PinnedCode(s.version, FALSE)
        /\ s.status \in {"concluding", "done"} => s.history = Version!PinnedCode(s.version, TRUE)
  BY <1>2 DEF Version!IInv, Version!PinnedHistory
<1> HIDE DEF s
<1> QED
  BY <1>1, <1>2, <1>3, <1>4, VersionRun

LEMMA VersionStep == Version!IInv /\ [Version!Next]_Version!vars => Version!IInv'
<1> SUFFICES ASSUME Version!IInv, [Version!Next]_Version!vars PROVE Version!IInv'
  OBVIOUS
<1> USE SamplesAssumption
<1> DEFINE Commands == Seq({"marker", "SomeActivity", "SomeIncompatibleActivity"})
           Statuses == {"none", "started", "running", "concluding", "done"}
           States == [status : Statuses, version : 0..3, inbox : Nat, conclude : BOOLEAN, waits : BOOLEAN,
                      history : Commands]
<1>1. v4 \in [Version!Runs -> States] /\ v3 \in 1..11 /\ v2 \in 0..3 /\ (v3 <= 4 => v2 <= 1) /\ Signals \in Nat
  BY DEF Version!IInv, Version!TypeOK, Version!Sizes
<1>2. CASE Version!ServerStep
  BY <1>2, VersionFirst, VersionReceive, VersionConclude, VersionCompletes DEF Version!ServerStep
<1>3. ASSUME NEW v \in Version!Versions, Version!waitForWorkerAndMakeCurrent(v) PROVE Version!IInv'
  <2>1. /\ v1' = v1 /\ v4' = v4 /\ v2' = v /\ v3' = v3 + 1 /\ v \in {1, 2, 3}
        /\ v = 1 => v3 = 1
        /\ v = 2 => v3 = 4
        /\ v = 3 => v3 = 6
    BY <1>3 DEF Version!waitForWorkerAndMakeCurrent, Version!Versions
  <2>2. v2' \in 0..3 /\ v3' \in 1..11 /\ (v3' <= 4 => v2' <= 1) /\ v3' >= v3 /\ (v2 > 1 => v2' > 1)
    BY <1>1, <2>1
  <2> QED
    BY <1>1, <2>1, <2>2, VersionQuiet
<1>4. ASSUME NEW R, NEW at, Version!StartRuns(R, at), (R = {"auto", "pinned"} /\ at = 2) \/ (R = {"pinned2"} /\ at = 7)
      PROVE  Version!IInv'
  <2>1. /\ UNCHANGED <<v1, v2>> /\ v3 = at /\ v3' = at + 1
        /\ v4' = [r \in Version!Runs |-> IF r \in R THEN [v4[r] EXCEPT !.status = "started"] ELSE v4[r]]
    BY <1>4 DEF Version!StartRuns
  <2>2. v3' \in 1..11 /\ (v3' <= 4 => v2' <= 1) /\ v3' >= v3 /\ ("auto" \in R => v3 <= 2 /\ v3' > 2)
    BY <1>1, <1>4, <2>1
  <2>3. ASSUME NEW p \in Version!Runs
        PROVE  /\ v4'[p] \in States /\ v4'[p].history = v4[p].history /\ v4'[p].version = v4[p].version
               /\ v4'[p].status = v4[p].status \/ (v4'[p].status = "started" /\ (p = "auto" => v3 <= 2 /\ v3' > 2))
    <3>1. CASE p \in R
      <4>1. v4'[p] = [v4[p] EXCEPT !.status = "started"] /\ v4[p] \in States
        BY <1>1, <2>1, <3>1
      <4>2. v4'[p] \in States /\ v4'[p].history = v4[p].history /\ v4'[p].version = v4[p].version
            /\ v4'[p].status = "started"
        BY <4>1
      <4> QED
        BY <2>2, <3>1, <4>2
    <3>2. CASE p \notin R
      BY <1>1, <2>1, <3>2
    <3> QED
      BY <3>1, <3>2
  <2>4. v4' \in [Version!Runs -> States]
    <3>1. v4' = [p \in Version!Runs |-> v4'[p]]
      BY <2>1
    <3> QED
      BY ONLY <2>3, <3>1
  <2> QED
    BY <1>1, <2>1, <2>2, <2>3, <2>4, VersionQuiet
<1>5. CASE Version!advanceWorkflows
  <2>1. /\ UNCHANGED <<v1, v2>> /\ v3 \in {3, 5} /\ v3' = (IF v3 = 3 THEN 4 ELSE 6)
        /\ v4' = [r \in Version!Runs |-> IF r = "pinned2" THEN v4[r] ELSE [v4[r] EXCEPT !.inbox = @ + Signals]]
    BY <1>5 DEF Version!advanceWorkflows
  <2>2. v3' \in 1..11 /\ (v3' <= 4 => v2' <= 1) /\ v3' >= v3
    BY <1>1, <2>1
  <2>3. ASSUME NEW p \in Version!Runs
        PROVE  /\ v4'[p] \in States /\ v4'[p].history = v4[p].history /\ v4'[p].version = v4[p].version
               /\ v4'[p].status = v4[p].status
    <3>1. v4[p] \in States /\ v4[p].inbox + Signals \in Nat
      BY <1>1
    <3>2. v4'[p] = v4[p] \/ v4'[p] = [v4[p] EXCEPT !.inbox = v4[p].inbox + Signals]
      BY <2>1
    <3> QED
      BY <3>1, <3>2
  <2>4. v4' \in [Version!Runs -> States]
    <3>1. v4' = [p \in Version!Runs |-> v4'[p]]
      BY <2>1
    <3> QED
      BY ONLY <2>3, <3>1
  <2> QED
    BY <1>1, <2>1, <2>2, <2>3, <2>4, VersionQuiet
<1>6. ASSUME NEW r \in Version!Runs, Version!Conclude(r) PROVE Version!IInv'
  <2>1. UNCHANGED <<v1, v2>> /\ v4' = [v4 EXCEPT ![r].conclude = TRUE] /\ v3' = v3 + 1 /\ v3 \in {8, 9, 10}
    BY <1>6 DEF Version!Conclude
  <2>2. v3' \in 1..11 /\ ~(v3' <= 4) /\ v3' >= v3
    BY <2>1
  <2>3. v4' = [v4 EXCEPT ![r] = [v4[r] EXCEPT !.conclude = TRUE]]
    BY <2>1
  <2>4. /\ [v4[r] EXCEPT !.conclude = TRUE] \in States
        /\ [v4[r] EXCEPT !.conclude = TRUE].history = v4[r].history
        /\ [v4[r] EXCEPT !.conclude = TRUE].version = v4[r].version
        /\ [v4[r] EXCEPT !.conclude = TRUE].status = v4[r].status
    BY <1>1
  <2> HIDE DEF States
  <2>5. v4' \in [Version!Runs -> States]
    BY ONLY <1>1, <2>3, <2>4
  <2>6. ASSUME NEW p \in Version!Runs
        PROVE  /\ v4'[p].history = v4[p].history /\ v4'[p].version = v4[p].version
               /\ v4'[p].status = v4[p].status
    BY ONLY <1>1, <2>3, <2>4
  <2> QED
    BY <1>1, <2>1, <2>2, <2>5, <2>6, VersionQuiet DEF States
<1>7. ASSUME NEW v \in Version!Versions, Version!WorkerStarts(v) PROVE Version!IInv'
  <2>1. v1' = v1 \union {v} /\ v2' = v2 /\ v3' = v3 /\ v4' = v4
    BY <1>7 DEF Version!WorkerStarts
  <2>2. Version!TypeOK'
    BY <2>1 DEF Version!IInv, Version!TypeOK
  <2>3. Version!AutoHistory'
    BY <2>1, AutoKept DEF Version!IInv
  <2>4. \A r \in Version!Runs \ {"auto"} : Version!PinnedHistory(r)'
    BY <2>1 DEF Version!IInv, Version!PinnedHistory, Version!PinnedCode, Version!PinnedWorkflowV1, Version!PinnedWorkflowV2
  <2> QED
    BY <2>1, <2>2, <2>3, <2>4 DEF Version!IInv
<1>8. CASE UNCHANGED Version!vars
  <2>1. v1' = v1 /\ v2' = v2 /\ v3' = v3 /\ v4' = v4
    BY <1>8 DEF Version!vars
  <2>2. Version!TypeOK'
    BY <2>1 DEF Version!IInv, Version!TypeOK
  <2>3. Version!AutoHistory'
    BY <2>1, AutoKept DEF Version!IInv
  <2>4. \A r \in Version!Runs \ {"auto"} : Version!PinnedHistory(r)'
    BY <2>1 DEF Version!IInv, Version!PinnedHistory, Version!PinnedCode, Version!PinnedWorkflowV1, Version!PinnedWorkflowV2
  <2> QED
    BY <2>1, <2>2, <2>3, <2>4 DEF Version!IInv
<1>9. CASE Version!AppStep
  BY <1>3, <1>4, <1>5, <1>6, <1>9 DEF Version!AppStep
<1> QED
  BY <1>2, <1>7, <1>8, <1>9 DEF Version!Next, Version!Progress

--------------------------------------------------------------------------------
(* AgentApproval: v1 is pass, v2 pending, v3 decisions, v4 made, v5 verdict. *)

LEMMA ApprovalStep == [Approval!Next]_Approval!vars => Approval!DeletionConfirmed
<1> SUFFICES ASSUME [Approval!Next]_Approval!vars, NEW c \in Approval!Calls, v5[c] /= "deleted", v5'[c] = "deleted"
             PROVE  /\ v5[c] = "asked" /\ v1.answers = c /\ v1.confirmed
                    /\ \A d \in Approval!Calls \ {c} : v5'[d] = "deleted" => v5[d] = "deleted"
  BY DEF Approval!DeletionConfirmed
<1>1. PICK asked : Approval!RunPass(asked)
  BY DEF Approval!Next, Approval!Progress, Approval!vars, Approval!ReceiveDecision, Approval!PassFails,
         Approval!SignalDecision
<1>2. \A d \in Approval!Calls :
        v5'[d] = IF d \in asked THEN Approval!deleteResource(FALSE)
                 ELSE IF d = v1.answers /\ v5[d] = "asked" THEN Approval!Redispatch(v1.confirmed)
                 ELSE v5[d]
  BY <1>1 DEF Approval!RunPass
<1>q. Approval!deleteResource(FALSE) = "asked"
  BY DEF Approval!deleteResource
<1>3. c \notin asked /\ c = v1.answers /\ v5[c] = "asked" /\ Approval!Redispatch(v1.confirmed) = "deleted"
  BY <1>2, <1>q
<1>4. v1.confirmed
  BY <1>3 DEF Approval!Redispatch
<1>5. ASSUME NEW d \in Approval!Calls \ {c}, v5'[d] = "deleted" PROVE v5[d] = "deleted"
  BY <1>2, <1>3, <1>5, <1>q
<1> QED
  BY <1>3, <1>4, <1>5

--------------------------------------------------------------------------------
(* Of finitely many things that can be told apart by what lies below them there is one     *)
(* with nothing below it: the smallest and the largest of a finite set of numbers.         *)
LEMMA SmallestLargest ==
  ASSUME NEW S \in SUBSET Nat, IsFiniteSet(S), S /= {}
  PROVE  (\E m \in S : \A k \in S : m <= k) /\ (\E m \in S : \A k \in S : k <= m)
<1>w. IsWellFoundedOn(StrictSubsetOrdering(S), FiniteSubsetsOf(S))
  BY FS_StrictSubsetOrderingWellFounded
<1>f. ASSUME NEW T \in SUBSET S PROVE T \in FiniteSubsetsOf(S)
  BY FS_Subset DEF FiniteSubsetsOf
<1>1. \E m \in S : \A k \in S : m <= k
  <2> DEFINE Below(x) == {k \in S : k < x}
             F == {Below(x) : x \in S}
  <2>1. F \subseteq FiniteSubsetsOf(S) /\ F /= {}
    BY <1>f
  <2>2. PICK A \in F : \A B \in F : ~(<<B, A>> \in StrictSubsetOrdering(S))
    BY <1>w, <2>1, WFMin
  <2>3. PICK m \in S : A = Below(m)
    BY <2>2
  <2>4. ASSUME NEW k \in S, ~(m <= k) PROVE FALSE
    <3>1. k < m /\ k \in Below(m) /\ k \notin Below(k)
      BY <2>4
    <3>2. ASSUME NEW j \in Below(k) PROVE j \in Below(m)
      <4>1. j \in S /\ j < k /\ j \in Nat /\ k \in Nat /\ m \in Nat
        OBVIOUS
      <4>2. j < m
        BY <3>1, <4>1
      <4> QED
        BY <4>1, <4>2
    <3>3. <<Below(k), A>> \in StrictSubsetOrdering(S)
      BY <2>3, <3>1, <3>2 DEF StrictSubsetOrdering
    <3> QED
      BY <2>2, <3>3
  <2> QED
    BY <2>4
<1>2. \E m \in S : \A k \in S : k <= m
  <2> DEFINE Above(x) == {k \in S : x < k}
             F == {Above(x) : x \in S}
  <2>1. F \subseteq FiniteSubsetsOf(S) /\ F /= {}
    BY <1>f
  <2>2. PICK A \in F : \A B \in F : ~(<<B, A>> \in StrictSubsetOrdering(S))
    BY <1>w, <2>1, WFMin
  <2>3. PICK m \in S : A = Above(m)
    BY <2>2
  <2>4. ASSUME NEW k \in S, ~(k <= m) PROVE FALSE
    <3>1. m < k /\ k \in Above(m) /\ k \notin Above(k)
      BY <2>4
    <3>2. ASSUME NEW j \in Above(k) PROVE j \in Above(m)
      <4>1. j \in S /\ k < j /\ j \in Nat /\ k \in Nat /\ m \in Nat
        OBVIOUS
      <4>2. m < j
        BY <3>1, <4>1
      <4> QED
        BY <4>1, <4>2
    <3>3. <<Above(k), A>> \in StrictSubsetOrdering(S)
      BY <2>3, <3>1, <3>2 DEF StrictSubsetOrdering
    <3> QED
      BY <2>2, <3>3
  <2> QED
    BY <2>4
<1> QED
  BY <1>1, <1>2

(* Listings: v1 is loop, v2 listed, v3 known, v4 steady, v5 reader. *)

(* The module of the lists takes its finite sets from where this one does. *)
LEMMA ListingSets ==
  ASSUME NEW S
  PROVE  Listing!IsFiniteSet(S) = IsFiniteSet(S) /\ Listing!Cardinality(S) = Cardinality(S)
<1>1. Listing!IsFiniteSet(S) = IsFiniteSet(S)
  BY DEF Listing!IsFiniteSet, IsFiniteSet
<1>2. Listing!Cardinality(S) = Cardinality(S)
  BY DEF Listing!Cardinality, Cardinality
<1> QED
  BY <1>1, <1>2

(* A page is the upper part of the list behind the token, and its token is the last of it. *)
LEMMA PageFacts ==
  ASSUME Listing!TypeOK, NEW t \in Nat
  PROVE  LET A == Listing!After(t)
             P == Listing!Page(t)
             n == Listing!PageToken(t)
         IN /\ P \subseteq A /\ A \subseteq v2 /\ (t /= 0 => \A e \in A : e < t)
            /\ n \in Nat
            /\ n = 0 => P = A
            /\ n /= 0 => /\ n \in P /\ \A e \in P : n <= e
                         /\ \A e \in A : e \in P \/ e < n
<1> DEFINE A == Listing!After(t)
           P == Listing!Page(t)
           n == Listing!PageToken(t)
           Above(e) == {f \in A : f > e}
<1>0. Executions \subseteq Nat \ {0} /\ IsFiniteSet(Executions) /\ PageSize \in Nat \ {0}
  <2>1. Listing!Sizes
    BY SamplesAssumption
  <2> QED
    BY <2>1, ListingSets DEF Listing!Sizes
<1>1. v2 \subseteq Executions
  BY DEF Listing!TypeOK
<1>2. A \subseteq v2 /\ (t /= 0 => \A e \in A : e < t)
  BY DEF Listing!After
<1>p. P = {e \in A : Cardinality(Above(e)) < PageSize}
  BY ListingSets DEF Listing!Page
<1>3. P \subseteq A /\ \A e \in A : (e \in P <=> Cardinality(Above(e)) < PageSize)
  BY <1>p
<1> HIDE DEF A, P
<1>4. A \subseteq Nat \ {0} /\ IsFiniteSet(A)
  BY <1>0, <1>1, <1>2, FS_Subset
<1>5. ASSUME NEW e PROVE IsFiniteSet(Above(e)) /\ Cardinality(Above(e)) \in Nat
  BY <1>4, FS_Subset, FS_CardinalityType
<1>6. ASSUME NEW e \in A, e \notin P, NEW p \in P PROVE e < p
  <2>1. SUFFICES ASSUME p <= e PROVE FALSE
    BY <1>3, <1>4
  <2>2. ASSUME NEW j \in Above(e) PROVE j \in Above(p)
    <3>1. j \in A /\ j > e /\ j \in Nat /\ e \in Nat /\ p \in Nat
      BY <1>3, <1>4
    <3>2. j > p
      BY <2>1, <3>1
    <3> QED
      BY <3>1, <3>2
  <2>3. Cardinality(Above(e)) <= Cardinality(Above(p))
    BY <1>5, <2>2, FS_Subset
  <2>4. Cardinality(Above(p)) < PageSize /\ ~(Cardinality(Above(e)) < PageSize)
    BY <1>3, <1>6
  <2> QED
    BY <1>0, <1>5, <2>3, <2>4
<1>7. n = IF P = A THEN 0 ELSE Listing!Min(P)
  BY DEF Listing!PageToken, P, A
<1>8. CASE P = A
  BY <1>2, <1>3, <1>7, <1>8 DEF A, P
<1>9. CASE P /= A
  <2>1. A /= {}
    BY <1>3, <1>9
  <2>2. PICK m \in A : \A k \in A : k <= m
    BY <1>4, <2>1, SmallestLargest
  <2>3. Above(m) = {}
    <3>1. ASSUME NEW j \in Above(m) PROVE FALSE
      <4>1. j \in A /\ j > m /\ j \in Nat /\ m \in Nat /\ j <= m
        BY <1>4, <2>2
      <4> QED
        BY <4>1
    <3> QED
      BY <3>1
  <2>4. m \in P
    BY <1>0, <1>3, <2>3, FS_EmptySet
  <2>5. P \subseteq Nat /\ IsFiniteSet(P)
    BY <1>3, <1>4, FS_Subset
  <2>6. \E x \in P : \A y \in P : x <= y
    BY <2>4, <2>5, SmallestLargest
  <2>7. n \in P /\ \A y \in P : n <= y
    BY <1>7, <1>9, <2>6 DEF Listing!Min
  <2>8. n \in Nat \ {0}
    BY <1>3, <1>4, <2>7
  <2>9. ASSUME NEW e \in A, e \notin P PROVE e < n
    BY <1>6, <2>7, <2>9
  <2> HIDE DEF n
  <2>10. /\ P \subseteq A /\ A \subseteq v2 /\ (t /= 0 => \A e \in A : e < t)
         /\ n \in Nat
         /\ n = 0 => P = A
         /\ n /= 0 => /\ n \in P /\ \A e \in P : n <= e
                      /\ \A e \in A : e \in P \/ e < n
    BY <1>2, <1>3, <2>7, <2>8, <2>9
  <2> QED
    BY <2>10 DEF A, P, n
<1> QED
  BY <1>8, <1>9

(* After the next page what lies before its token has been found, and once each. *)
LEMMA NextPage ==
  ASSUME Listing!IInv, v5.at = "reading", v5' = Listing!PageTaken, UNCHANGED <<v1, v2, v3, v4>>,
         v1 = "current" => v5.seen \/ Listing!Self \in Listing!Page(v5.token)
  PROVE  Listing!IInv'
<1> DEFINE t == v5.token
           A == Listing!After(t)
           P == Listing!Page(t)
           n == Listing!PageToken(t)
           found == v5.found
           S == Listing!Self
<1>1. Listing!TypeOK /\ Listing!ReadSoFar /\ \A e \in Executions : found[e] = 1 => e \in v3
  BY DEF Listing!IInv
<1>2. /\ v1 \in {"open", "current", "all"} /\ v3 \subseteq Executions /\ v2 \subseteq v3 /\ v4 \subseteq v2
      /\ t \in Nat /\ found \in [Executions -> 0..1] /\ v5.seen \in BOOLEAN /\ v5.reads \in Nat
  BY <1>1 DEF Listing!TypeOK
<1>3. /\ \A e \in Executions : found[e] = 1 => t /= 0 /\ e >= t
      /\ \A e \in v4 : found[e] = 1 \/ t = 0 \/ e < t
      /\ v1 = "current" => (v5.seen => t /= 0) /\ (t /= 0 => S \in Executions /\ found[S] = 1)
  BY <1>1 DEF Listing!ReadSoFar
<1>4. /\ P \subseteq A /\ A \subseteq v2 /\ (t /= 0 => \A e \in A : e < t)
      /\ n \in Nat /\ (n = 0 => P = A)
      /\ n /= 0 => n \in P /\ (\A e \in P : n <= e) /\ \A e \in A : e \in P \/ e < n
  BY <1>1, <1>2, PageFacts
<1>5. \A e \in v2 : t = 0 \/ e < t => e \in A
  BY DEF Listing!After
<1>0. Executions \subseteq Nat \ {0}
  <2>1. Listing!Sizes
    BY SamplesAssumption
  <2> QED
    BY <2>1 DEF Listing!Sizes
<1>6. /\ v5'.token = n /\ v5'.seen = TRUE /\ v5'.reads = v5.reads
      /\ v5'.at = (IF n = 0 THEN "done" ELSE "reading")
      /\ v5'.found = [e \in Executions |-> found[e] + (IF e \in P THEN 1 ELSE 0)]
      /\ v5' = [token |-> v5'.token, found |-> v5'.found, seen |-> v5'.seen, reads |-> v5'.reads, at |-> v5'.at]
  BY DEF Listing!PageTaken, Listing!Appended, Listing!Kept
<1>7. v1 = "current" => S \in P \/ (t /= 0 /\ S \in Executions /\ found[S] = 1)
  BY <1>3
<1> HIDE DEF t, A, P, n, found, S
<1> DEFINE newfound == v5'.found
<1>8. ASSUME NEW e \in Executions
      PROVE  /\ newfound[e] \in 0..1
             /\ newfound[e] = 1 <=> e \in P \/ found[e] = 1
  <2>1. newfound[e] = found[e] + (IF e \in P THEN 1 ELSE 0) /\ found[e] \in 0..1
    BY <1>2, <1>6
  <2>2. ~(e \in P /\ found[e] = 1)
    <3>1. SUFFICES ASSUME e \in P, found[e] = 1 PROVE FALSE
      OBVIOUS
    <3>2. t /= 0 /\ e >= t /\ e < t /\ e \in Nat
      BY <1>0, <1>3, <1>4, <3>1
    <3> QED
      BY <1>2, <3>2
  <2> QED
    BY <2>1, <2>2
<1>9. newfound \in [Executions -> 0..1]
  <2>1. newfound = [e \in Executions |-> newfound[e]]
    BY <1>6
  <2> QED
    BY <1>8, <2>1
<1> HIDE DEF newfound
<1>10. P \subseteq Executions /\ A \subseteq Executions /\ v4 \subseteq Executions
  BY <1>2, <1>4
<1>11. \A e \in v4 : newfound[e] = 1 \/ (e \in A /\ e \notin P)
  BY <1>2, <1>3, <1>5, <1>8, <1>10
<1>12. v1 = "current" => S \in Executions /\ newfound[S] = 1
  BY <1>7, <1>8, <1>10
<1>13. \A e \in Executions : newfound[e] = 1 => e \in v3
  BY <1>1, <1>2, <1>4, <1>8 DEF found
<1>14. Listing!TypeOK'
  <2>1. v5'.at \in {"reading", "done", "failed"}
    BY <1>6
  <2>2. v5' \in [token : Nat, found : [Executions -> 0..1], seen : BOOLEAN, reads : Nat,
                 at : {"reading", "done", "failed"}]
    BY <1>2, <1>4, <1>6, <1>9, <2>1 DEF newfound
  <2> QED
    BY <1>2, <2>2 DEF Listing!TypeOK
<1>15. Listing!ReadSoFar'
  <2>1. SUFFICES ASSUME n /= 0 PROVE Listing!ReadSoFar'
    BY <1>6 DEF Listing!ReadSoFar
  <2>2. ASSUME NEW e \in Executions, newfound[e] = 1 PROVE e >= n
    <3>1. CASE e \in P
      BY <1>0, <1>4, <2>1, <3>1
    <3>2. CASE found[e] = 1
      <4>1. t /= 0 /\ e >= t /\ n < t /\ e \in Nat
        BY <1>0, <1>3, <1>4, <2>1, <3>2
      <4> QED
        BY <1>2, <1>4, <4>1
    <3> QED
      BY <1>8, <2>2, <3>1, <3>2
  <2>3. \A e \in v4 : newfound[e] = 1 \/ e < n
    BY <1>4, <1>11, <2>1
  <2>4. Listing!Self' = S
    BY DEF Listing!Self, S
  <2> QED
    BY <1>6, <1>12, <2>1, <2>2, <2>3, <2>4 DEF Listing!ReadSoFar, newfound
<1>16. Listing!ListComplete'
  <2>1. SUFFICES ASSUME n = 0 PROVE Listing!ListComplete'
    BY <1>6 DEF Listing!ListComplete
  <2>2. \A e \in v4 : newfound[e] = 1
    BY <1>4, <1>11, <2>1
  <2>3. \A e \in Executions : newfound[e] = 0 \/ (newfound[e] = 1 /\ e \in v3)
    BY <1>8, <1>13
  <2>4. Listing!Self' = S
    BY DEF Listing!Self, S
  <2> QED
    BY <1>12, <2>2, <2>3, <2>4 DEF Listing!ListComplete, newfound
<1> QED
  BY <1>13, <1>14, <1>15, <1>16 DEF Listing!IInv, newfound

LEMMA ListingInit == Listing!Init => Listing!IInv
<1> SUFFICES ASSUME Listing!Init PROVE Listing!IInv
  OBVIOUS
<1>1. /\ v1 \in {"open", "current", "all"} /\ v2 \subseteq Executions /\ v3 = v2 /\ v4 = v2
      /\ v5 = [token |-> 0, found |-> Listing!Nothing, seen |-> FALSE, reads |-> 0, at |-> "reading"]
  BY DEF Listing!Init
<1>2. /\ v5.token = 0 /\ v5.found = Listing!Nothing /\ v5.seen = FALSE /\ v5.at = "reading"
      /\ Listing!Nothing \in [Executions -> 0..1] /\ \A e \in Executions : Listing!Nothing[e] = 0
  BY <1>1 DEF Listing!Nothing
<1>3. Listing!TypeOK
  BY <1>1, <1>2 DEF Listing!TypeOK
<1> QED
  BY <1>1, <1>2, <1>3 DEF Listing!IInv, Listing!ReadSoFar, Listing!ListComplete

LEMMA ListingStep ==
  ASSUME Listing!IInv, [Listing!Next]_Listing!vars
  PROVE  Listing!IInv'
<1>1. Listing!TypeOK /\ Listing!ReadSoFar /\ Listing!ListComplete /\ \A e \in Executions : v5.found[e] = 1 => e \in v3
  BY DEF Listing!IInv
<1>2. /\ v1 \in {"open", "current", "all"} /\ v3 \subseteq Executions /\ v2 \subseteq v3 /\ v4 \subseteq v2
      /\ v5 \in [token : Nat, found : [Executions -> 0..1], seen : BOOLEAN, reads : Nat,
                 at : {"reading", "done", "failed"}]
  BY <1>1 DEF Listing!TypeOK
<1>0. MaxReads \in Nat /\ Listing!Self' = Listing!Self
  <2>1. Listing!Sizes
    BY SamplesAssumption
  <2> QED
    BY <2>1 DEF Listing!Sizes, Listing!Self
<1>3. CASE Listing!ReadPage
  BY <1>3, NextPage DEF Listing!ReadPage
<1>4. CASE Listing!ReadPageOfRun
  <2>1. CASE v5.seen \/ Listing!Self \in Listing!Page(v5.token)
    BY <1>4, <2>1, NextPage DEF Listing!ReadPageOfRun
  <2>2. CASE ~(v5.seen \/ Listing!Self \in Listing!Page(v5.token))
    <3>1. /\ v5' = [v5 EXCEPT !.reads = IF v5.reads < MaxReads THEN v5.reads + 1 ELSE v5.reads]
          /\ UNCHANGED <<v1, v2, v3, v4>> /\ v5.at = "reading"
      BY <1>4, <2>2 DEF Listing!ReadPageOfRun
    <3>2. v5.reads \in Nat
      BY <1>2
    <3>3. (IF v5.reads < MaxReads THEN v5.reads + 1 ELSE v5.reads) \in Nat
      BY <1>0, <3>2
    <3>4. /\ v5' \in [token : Nat, found : [Executions -> 0..1], seen : BOOLEAN, reads : Nat,
                      at : {"reading", "done", "failed"}]
          /\ v5'.found = v5.found /\ v5'.token = v5.token /\ v5'.seen = v5.seen /\ v5'.at = v5.at
      BY <1>2, <3>1, <3>3
    <3>5. Listing!TypeOK'
      BY <1>2, <3>1, <3>4 DEF Listing!TypeOK
    <3> QED
      BY <1>0, <1>1, <3>1, <3>4, <3>5 DEF Listing!IInv, Listing!ReadSoFar, Listing!ListComplete
  <2> QED
    BY <2>1, <2>2
<1>5. CASE Listing!ReadFails
  <2>1. UNCHANGED <<v1, v2, v3>> /\ v4' = v2 /\ v5.at = "reading"
    BY <1>5 DEF Listing!ReadFails
  <2>2. CASE v1 = "all"
    <3>1. v5' = [v5 EXCEPT !.at = "failed"]
      BY <1>5, <2>2 DEF Listing!ReadFails
    <3>2. /\ v5' \in [token : Nat, found : [Executions -> 0..1], seen : BOOLEAN, reads : Nat,
                      at : {"reading", "done", "failed"}]
          /\ v5'.found = v5.found /\ v5'.at = "failed"
      BY <1>2, <3>1
    <3>3. Listing!TypeOK'
      BY <1>2, <2>1, <3>2 DEF Listing!TypeOK
    <3> QED
      BY <1>1, <2>1, <3>2, <3>3 DEF Listing!IInv, Listing!ReadSoFar, Listing!ListComplete
  <2>3. CASE v1 /= "all"
    <3>1. v5' = [token |-> 0, found |-> Listing!Nothing, seen |-> FALSE, reads |-> v5.reads + 1, at |-> "reading"]
      BY <1>5, <2>3 DEF Listing!ReadFails
    <3>2. /\ v5'.token = 0 /\ v5'.found = Listing!Nothing /\ v5'.seen = FALSE /\ v5'.at = "reading"
          /\ Listing!Nothing \in [Executions -> 0..1] /\ \A e \in Executions : Listing!Nothing[e] = 0
      BY <3>1 DEF Listing!Nothing
    <3>3. v5.reads + 1 \in Nat
      BY <1>2
    <3>4. v5' \in [token : Nat, found : [Executions -> 0..1], seen : BOOLEAN, reads : Nat,
                   at : {"reading", "done", "failed"}]
      BY <3>1, <3>2, <3>3
    <3>5. Listing!TypeOK'
      BY <1>2, <2>1, <3>4 DEF Listing!TypeOK
    <3> QED
      BY <2>1, <3>2, <3>5 DEF Listing!IInv, Listing!ReadSoFar, Listing!ListComplete
  <2> QED
    BY <2>2, <2>3
<1>6. ASSUME NEW e \in Executions, Listing!Appears(e)
      PROVE  Listing!IInv'
  BY <1>0, <1>1, <1>2, <1>6 DEF Listing!Appears, Listing!IInv, Listing!TypeOK, Listing!ReadSoFar, Listing!ListComplete
<1>7. ASSUME NEW e \in Executions, Listing!Closes(e)
      PROVE  Listing!IInv'
  BY <1>0, <1>1, <1>2, <1>7 DEF Listing!Closes, Listing!IInv, Listing!TypeOK, Listing!ReadSoFar, Listing!ListComplete
<1>8. CASE UNCHANGED Listing!vars
  BY <1>0, <1>1, <1>2, <1>8 DEF Listing!vars, Listing!IInv, Listing!TypeOK, Listing!ReadSoFar, Listing!ListComplete
<1> QED
  BY <1>3, <1>4, <1>5, <1>6, <1>7, <1>8 DEF Listing!Next, Listing!Progress

--------------------------------------------------------------------------------
(* Payloads: v1 is sample, v2 ctx, v3 header, v4 payload, v5 stored, v6 read. *)

(* Layers on top of the plain argument, and what is left when the outermost is taken off. *)
LEMMA TwoLayers ==
  ASSUME NEW a, NEW b, NEW c
  PROVE  <<a, b>> \o <<c>> = <<a, b, c>>
<1> DEFINE s == <<a, b>> \o <<c>>
           t == <<a, b, c>>
<1>1. s \in Seq({a, b, c}) /\ Len(s) = 3 /\ s[1] = a /\ s[2] = b /\ s[3] = c
  OBVIOUS
<1>2. t \in Seq({a, b, c}) /\ Len(t) = 3 /\ t[1] = a /\ t[2] = b /\ t[3] = c
  OBVIOUS
<1> HIDE DEF s, t
<1>3. ASSUME NEW i \in 1..3 PROVE s[i] = t[i]
  <2>1. i = 1 \/ i = 2 \/ i = 3
    OBVIOUS
  <2> QED
    BY <1>1, <1>2, <2>1
<1>4. s = t
  BY <1>1, <1>2, <1>3, SeqEqual
<1> QED
  BY <1>4 DEF s, t

LEMMA OneLayer ==
  ASSUME NEW a, NEW c
  PROVE  <<a>> \o <<c>> = <<a, c>>
<1> DEFINE s == <<a>> \o <<c>>
           t == <<a, c>>
<1>1. s \in Seq({a, c}) /\ Len(s) = 2 /\ s[1] = a /\ s[2] = c
  OBVIOUS
<1>2. t \in Seq({a, c}) /\ Len(t) = 2 /\ t[1] = a /\ t[2] = c
  OBVIOUS
<1> HIDE DEF s, t
<1>3. ASSUME NEW i \in 1..2 PROVE s[i] = t[i]
  <2>1. i = 1 \/ i = 2
    OBVIOUS
  <2> QED
    BY <1>1, <1>2, <2>1
<1>4. s = t
  BY <1>1, <1>2, <1>3, SeqEqual
<1> QED
  BY <1>4 DEF s, t

LEMMA LayerOff ==
  ASSUME NEW a, NEW b, NEW c
  PROVE  /\ Tail(<<a, b, c>>) = <<b, c>> /\ Tail(<<a, c>>) = <<c>>
         /\ <<a, b, c>> /= <<>> /\ <<a, c>> /= <<>> /\ <<c>> /= <<>>
<1>1. Tail(<<a, b, c>>) = <<b, c>> /\ Tail(<<a, c>>) = <<c>>
  OBVIOUS
<1>2. <<a, b, c>> /= <<>> /\ <<a, c>> /= <<>> /\ <<c>> /= <<>>
  OBVIOUS
<1> QED
  BY <1>1, <1>2

(* What is encoded is not plain where there is a codec, and is decoded to what it was. *)
LEMMA PayloadDecoded ==
  ASSUME v1 \in Payload!Samples, NEW v
  PROVE  LET p == Payload!Encode(Payload!Codecs(v), Payload!Plain)
         IN /\ p /= <<>> /\ Payload!DecodeAll(p) = Payload!Plain
            /\ Payload!Codecs(Payload!Absent) /= <<>> => p[1].codec /= "plain"
            /\ v1 = "encryption" => p[1].key = Payload!KeyID(v)
<1> DEFINE p == Payload!Encode(Payload!Codecs(v), Payload!Plain)
           e == [codec |-> "encrypted", key |-> Payload!KeyID(v)]
           z == [codec |-> "zlib", key |-> Payload!Zero]
           s == [codec |-> "snappy", key |-> Payload!Zero]
           c == [codec |-> "plain", key |-> Payload!Zero]
<1>1. /\ e.codec = "encrypted" /\ e.key = Payload!KeyID(v) /\ z.codec = "zlib" /\ s.codec = "snappy"
      /\ c.codec = "plain" /\ Payload!Plain = <<c>>
  BY DEF Payload!Plain
<1>2. CASE v1 = "encryption"
  <2>1. p = <<e, z>> \o <<c>>
    BY <1>2 DEF Payload!Encode, Payload!Codecs, Payload!EncryptionCodecs, Payload!Plain
  <2>2. Payload!DecodeAll(p) = Payload!Decode("zlib", Payload!Decode("encrypted", p))
    BY <1>2 DEF Payload!DecodeAll
  <2> HIDE DEF e, z, s, c, p
  <2>j. <<e, z>> \o <<c>> = <<e, z, c>>
    BY TwoLayers, Zenon
  <2>k. Tail(<<e, z, c>>) = <<z, c>> /\ <<e, z, c>> /= <<>>
    BY LayerOff
  <2>l. Tail(<<z, c>>) = <<c>> /\ <<z, c>> /= <<>>
    BY LayerOff
  <2>3. p = <<e, z, c>> /\ Tail(p) = <<z, c>> /\ Tail(<<z, c>>) = <<c>> /\ p /= <<>> /\ <<z, c>> /= <<>>
    BY ONLY <2>1, <2>j, <2>k, <2>l
  <2>4. p[1] = e /\ <<z, c>>[1] = z
    BY <2>3
  <2>5. Payload!Decode("encrypted", p) = <<z, c>>
    BY <1>1, <2>3, <2>4 DEF Payload!Decode
  <2>6. Payload!Decode("zlib", <<z, c>>) = <<c>>
    BY <1>1, <2>3, <2>4 DEF Payload!Decode
  <2> QED
    BY <1>1, <2>2, <2>3, <2>4, <2>5, <2>6 DEF p
<1>3. CASE v1 \in {"snappycompress", "codec-server", "grpc-proxy"}
  <2>1. p = <<s>> \o <<c>>
    BY <1>3 DEF Payload!Encode, Payload!Codecs, Payload!SnappyCodec, Payload!Plain
  <2>2. Payload!DecodeAll(p) = Payload!Decode("snappy", p)
    BY <1>3 DEF Payload!DecodeAll
  <2> HIDE DEF e, z, s, c, p
  <2>j. <<s>> \o <<c>> = <<s, c>>
    BY OneLayer, Zenon
  <2>l. Tail(<<s, c>>) = <<c>> /\ <<s, c>> /= <<>>
    BY LayerOff
  <2>3. p = <<s, c>> /\ Tail(p) = <<c>> /\ p /= <<>>
    BY ONLY <2>1, <2>j, <2>l
  <2>4. p[1] = s
    BY <2>3
  <2>5. Payload!Decode("snappy", p) = <<c>>
    BY <1>1, <2>3, <2>4 DEF Payload!Decode
  <2> QED
    BY <1>1, <1>3, <2>2, <2>3, <2>4, <2>5 DEF p
<1>4. CASE v1 \in {"ctxpropagation", "nexus-context-propagation"}
  <2>1. p = <<>> \o <<c>> /\ Payload!Codecs(Payload!Absent) = <<>>
    BY <1>4 DEF Payload!Encode, Payload!Codecs, Payload!Plain
  <2>2. Payload!DecodeAll(p) = Payload!Decode("snappy", p)
    BY <1>4 DEF Payload!DecodeAll
  <2> HIDE DEF e, z, s, c, p
  <2>3. p = <<c>> /\ p /= <<>>
    BY <2>1
  <2>4. p[1] = c
    BY <2>3
  <2>5. Payload!Decode("snappy", p) = p
    BY <1>1, <2>4 DEF Payload!Decode
  <2> QED
    BY <1>1, <1>4, <2>1, <2>2, <2>3, <2>5 DEF p
<1> QED
  BY <1>2, <1>3, <1>4 DEF Payload!Samples

LEMMA PayloadInit == Payload!Init => Payload!IInv
<1> SUFFICES ASSUME Payload!Init PROVE Payload!IInv
  OBVIOUS
<1>1. PICK v \in {Payload!Absent, "test"} : v2 = <<v>>
  BY DEF Payload!Init
<1>2. v2 \in Seq(Payload!Values) /\ v2 /= <<>> /\ v2[1] = v /\ DOMAIN v2 = {1}
  BY <1>1 DEF Payload!Values
<1>3. v6 = <<>> /\ <<>> \in Seq({Payload!Plain})
  BY DEF Payload!Init
<1> QED
  BY <1>1, <1>2, <1>3 DEF Payload!Init, Payload!IInv, Payload!TypeOK, Payload!ValueKept, Payload!InFlight

LEMMA PayloadCall ==
  ASSUME Payload!IInv, Payload!Call
  PROVE  Payload!IInv'
<1>1. /\ v1' = v1 /\ v2' = v2 /\ v6' = v6
      /\ v4' = Payload!Encode(Payload!Codecs(Payload!Here), Payload!Plain)
      /\ v5' = v5 \union {v4'} /\ v3' = Payload!Behind
  BY DEF Payload!Call, Payload!Plain
<1>2. Payload!Here \in Payload!Values /\ Len(v2) \in DOMAIN v2
  BY DEF Payload!IInv, Payload!TypeOK, Payload!Here
<1>3. v1 = "encryption" => Payload!KeyID(Payload!Here) = Payload!KeyID(v2[1])
  BY <1>2 DEF Payload!IInv, Payload!ValueKept, Payload!Here
<1>4. Payload!TypeOK' /\ Payload!ValueKept'
  BY <1>1 DEF Payload!IInv, Payload!TypeOK, Payload!ValueKept, Payload!Propagates, Payload!KeyID
<1>5. /\ Payload!Here' = Payload!Here /\ Payload!Behind' = Payload!Behind
      /\ \A v : Payload!Codecs(v)' = Payload!Codecs(v)
  BY <1>1 DEF Payload!Here, Payload!Behind, Payload!Inject, Payload!Propagates, Payload!StartOperation,
              Payload!Extract, Payload!ExecuteNexusOperation, Payload!Codecs, Payload!EncryptionCodecs, Payload!KeyID
<1>6. Payload!InFlight'
  BY <1>1, <1>5 DEF Payload!InFlight, Payload!Encode, Payload!Plain
<1>7. ASSUME NEW p \in v5'
      PROVE  \E v \in Payload!Values :
               p = Payload!Encode(Payload!Codecs(v), Payload!Plain) /\ (v1 = "encryption" => Payload!KeyID(v) = Payload!KeyID(v2[1]))
  BY <1>1, <1>2, <1>3, <1>7 DEF Payload!IInv
<1>8. ASSUME NEW p \in v5'
      PROVE  \E v \in Payload!Values :
               p = Payload!Encode(Payload!Codecs(v), Payload!Plain)' /\ (v1' = "encryption" => Payload!KeyID(v) = Payload!KeyID(v2'[1]))
  BY <1>1, <1>5, <1>7 DEF Payload!Encode, Payload!Plain
<1> QED
  BY <1>1, <1>4, <1>6, <1>8 DEF Payload!IInv, Payload!KeyID, Payload!Values, Payload!Plain

LEMMA PayloadArrive ==
  ASSUME Payload!IInv, Payload!Arrive
  PROVE  Payload!IInv'
<1> DEFINE x == Payload!Extract(v3)
<1>1. /\ v4 /= <<>> /\ v2' = Append(v2, x) /\ v6' = Append(v6, Payload!DecodeAll(v4))
      /\ v4' = <<>> /\ v3' = "none" /\ v1' = v1 /\ v5' = v5
  BY DEF Payload!Arrive
<1>2. v1 \in Payload!Samples /\ v2 \in Seq(Payload!Values) /\ v2 /= <<>> /\ v2[1] \in {Payload!Absent, "test"}
  BY DEF Payload!IInv, Payload!TypeOK
<1>3. v4 = Payload!Encode(Payload!Codecs(Payload!Here), Payload!Plain) /\ v3 = Payload!Behind
  BY <1>1 DEF Payload!IInv, Payload!InFlight
<1>4. Payload!Here \in Payload!Values /\ Len(v2) \in DOMAIN v2
  BY <1>2 DEF Payload!Here
<1>5. /\ x \in Payload!Values
      /\ Payload!Propagates /\ Payload!Here = "test" => x = "test"
      /\ v1 = "encryption" => Payload!KeyID(x) = Payload!KeyID(Payload!Here)
  BY <1>3, <1>4 DEF Payload!Behind, Payload!Inject, Payload!Extract, Payload!StartOperation,
       Payload!ExecuteNexusOperation, Payload!Propagates, Payload!Values, Payload!Absent, Payload!Zero, Payload!KeyID,
       Payload!DefaultKey
<1>6. /\ v2' \in Seq(Payload!Values) /\ v2' /= <<>> /\ v2'[1] = v2[1]
      /\ \A i \in DOMAIN v2' : (i \in DOMAIN v2 /\ v2'[i] = v2[i]) \/ v2'[i] = x
  BY <1>1, <1>2, <1>5
<1>7. Payload!TypeOK'
  BY <1>1, <1>2, <1>6 DEF Payload!TypeOK, Payload!Samples, Payload!Values
<1>8. Payload!ValueKept'
  <2>1. ASSUME Payload!Propagates, v2[1] /= Payload!Absent, NEW i \in DOMAIN v2' PROVE v2'[i] = v2'[1]
    <3>1. \A j \in DOMAIN v2 : v2[j] = v2[1]
      BY <2>1 DEF Payload!IInv, Payload!ValueKept
    <3>2. x = v2[1]
      BY <1>2, <1>4, <1>5, <2>1, <3>1 DEF Payload!Here
    <3> QED
      BY <1>6, <3>1, <3>2
  <2>2. ASSUME v1 = "encryption", NEW i \in DOMAIN v2' PROVE Payload!KeyID(v2'[i]) = Payload!KeyID(v2'[1])
    <3>1. \A j \in DOMAIN v2 : Payload!KeyID(v2[j]) = Payload!KeyID(v2[1])
      BY <2>2 DEF Payload!IInv, Payload!ValueKept
    <3>2. Payload!KeyID(x) = Payload!KeyID(v2[1])
      BY <1>4, <1>5, <2>2, <3>1 DEF Payload!Here
    <3> QED
      BY <1>6, <3>1, <3>2
  <2> QED
    BY <1>1, <1>6, <2>1, <2>2 DEF Payload!ValueKept, Payload!Propagates, Payload!KeyID
<1>9. v6' \in Seq({Payload!Plain})
  <2>1. Payload!DecodeAll(v4) = Payload!Plain
    BY <1>2, <1>3, PayloadDecoded
  <2> QED
    BY <1>1, <2>1 DEF Payload!IInv
<1>10. ASSUME NEW p \in v5
       PROVE  \E v \in Payload!Values :
                p = Payload!Encode(Payload!Codecs(v), Payload!Plain)' /\ (v1' = "encryption" => Payload!KeyID(v) = Payload!KeyID(v2'[1]))
  BY <1>1, <1>6 DEF Payload!IInv, Payload!Encode, Payload!Plain, Payload!Codecs, Payload!EncryptionCodecs, Payload!KeyID
<1> QED
  BY <1>1, <1>7, <1>8, <1>9, <1>10 DEF Payload!IInv, Payload!InFlight, Payload!KeyID, Payload!Values, Payload!Plain

LEMMA PayloadStep ==
  ASSUME Payload!IInv, [Payload!Next]_Payload!vars
  PROVE  Payload!IInv'
<1>1. CASE UNCHANGED Payload!vars
  <2>1. v1' = v1 /\ v2' = v2 /\ v3' = v3 /\ v4' = v4 /\ v5' = v5 /\ v6' = v6
    BY <1>1 DEF Payload!vars
  <2> QED
    BY <2>1 DEF Payload!IInv, Payload!TypeOK, Payload!ValueKept, Payload!InFlight, Payload!Here, Payload!Behind,
                Payload!Inject, Payload!Propagates, Payload!StartOperation, Payload!Extract, Payload!Encode, Payload!Plain,
                Payload!ExecuteNexusOperation, Payload!Codecs, Payload!EncryptionCodecs, Payload!KeyID, Payload!Values,
                Payload!Samples
<1> QED
  BY <1>1, PayloadCall, PayloadArrive DEF Payload!Next, Payload!Progress

LEMMA PayloadSafe == Payload!IInv => Payload!PayloadsArrive
<1> SUFFICES ASSUME Payload!IInv PROVE Payload!PayloadsArrive
  OBVIOUS
<1>1. \A i \in DOMAIN v6 : v6[i] = Payload!Plain
  BY DEF Payload!IInv
<1>2. ASSUME NEW p \in v5
      PROVE  /\ Payload!Codecs(Payload!Absent) /= <<>> => p[1].codec /= "plain"
             /\ v1 = "encryption" => p[1].key = Payload!KeyID(v2[1])
  <2>1. PICK v \in Payload!Values : /\ p = Payload!Encode(Payload!Codecs(v), Payload!Plain)
                                    /\ v1 = "encryption" => Payload!KeyID(v) = Payload!KeyID(v2[1])
    BY DEF Payload!IInv
  <2> QED
    BY <2>1, PayloadDecoded DEF Payload!IInv, Payload!TypeOK
<1> QED
  BY <1>1, <1>2 DEF Payload!PayloadsArrive, Payload!IInv, Payload!ValueKept, Payload!Plain

--------------------------------------------------------------------------------
(* Flows: v1 is sample, v2 act, v3 effect, v4 main. *)

(* What the invariant needs to know of the programs. *)
LEMMA FlowSample ==
  ASSUME v1 \in Flow!Samples
  PROVE  /\ v1.kind \in {"sequence", "choice", "basket", "ordered", "selector", "first", "parallel", "goroutines",
                         "timer", "saga", "cleanup", "race"}
         /\ Len(v1.steps) \in 1..6
         /\ v1.kind = "choice" => Len(v1.steps) = 2
         /\ v1.kind = "first" => Len(v1.steps) = 2
         /\ v1.kind = "parallel" => Len(v1.steps) = 6
         /\ v1.kind = "goroutines" => Len(v1.steps) = 4
         /\ v1.kind = "timer" => Len(v1.steps) = 2
         /\ v1.kind = "basket" => Len(v1.steps) = 3
         /\ v1.kind = "saga" => Len(v1.steps) = 5 /\ v1.steps[3] = "StepWithError"
         /\ v1.kind = "cleanup" => Len(v1.steps) = 2 /\ v1.steps[1] = "ActivityToBeCanceled"
         /\ v1.kind = "race" => Len(v1.steps) = 3
<1> DEFINE Others == {Flow!ExclusiveChoiceWorkflow, Flow!MultiChoiceWorkflow, Flow!SampleBranchWorkflow,
                      Flow!SampleSplitMergeFutureWorkflow, Flow!SampleSplitMergeSelectorWorkflow,
                      Flow!SamplePickFirstWorkflow, Flow!SimpleDSLWorkflow, Flow!SampleGoroutineWorkflow,
                      Flow!SampleTimerWorkflow, Flow!TransferMoney, Flow!YourWorkflow, Flow!HelloCallerWorkflow}
<1>1. v1 \in Others \/ (v1.kind = "sequence" /\ Len(v1.steps) \in 1..6)
  <2>1. ASSUME NEW s \in Flow!Samples PROVE s \in Others \/ (s.kind = "sequence" /\ Len(s.steps) \in 1..6)
    BY <2>1 DEF Flow!Samples, Flow!Sequential, Flow!GreetingSample, Flow!GreetingLocalSample, 
       Flow!SampleGreetingsWorkflow, Flow!SampleParentWorkflow, Flow!DatadogWorkflow, Flow!HelloWorldWorkflow,
       Flow!HelloWorldMtlsWorkflow, Flow!HelloWorldApiKeyWorkflow, Flow!ExternalEnvConfWorkflow,
       Flow!LoggerInterceptorWorkflow, Flow!GrpcProxyWorkflow, Flow!LambdaSampleWorkflow, Flow!OpenTelemetryWorkflow,
       Flow!SnappyWorkflow, Flow!EncryptionWorkflow, Flow!MetricsWorkflow, Flow!CodecServerWorkflow, Flow!ZapWorkflow,
       Flow!SlogWorkflow, Flow!LargePayloadWorkflow, Flow!ProcessOrderBatchWorkflow, Flow!SearchAttributesWorkflow,
       Flow!MemoWorkflow, Flow!EchoCallerWorkflow, Flow!NexusHelloCallerWorkflow, Flow!HelloHandlerWorkflow,
       Flow!DynamicWorkflow, Flow!EagerWorkflowStart, Flow!DynamicWorkflows, Flow!StandaloneActivity,
       Flow!StandaloneNexusOperations
  <2> QED
    BY <2>1
<1>2. CASE v1.kind = "sequence" /\ Len(v1.steps) \in 1..6
  BY <1>2
<1>3. CASE v1 \in Others
  BY <1>3 DEF Flow!Program, Flow!ExclusiveChoiceWorkflow, Flow!MultiChoiceWorkflow, Flow!SampleBranchWorkflow,
     Flow!SampleSplitMergeFutureWorkflow, Flow!SampleSplitMergeSelectorWorkflow, Flow!SamplePickFirstWorkflow,
     Flow!SimpleDSLWorkflow, Flow!SampleGoroutineWorkflow, Flow!SampleTimerWorkflow, Flow!TransferMoney,
     Flow!YourWorkflow, Flow!HelloCallerWorkflow
<1> QED
  BY <1>1, <1>2, <1>3

LEMMA FlowSteps ==
  ASSUME v1 \in Flow!Samples
  PROVE  /\ Flow!Steps = 1..Len(v1.steps) /\ Len(v1.steps) \in 1..6 /\ Flow!Steps \subseteq 1..6
         /\ 1 \in Flow!Steps
<1>1. Flow!Steps = 1..Len(v1.steps)
  BY DEF Flow!Steps
<1>2. Len(v1.steps) \in 1..6
  BY FlowSample
<1> HIDE DEF Flow!Steps
<1>3. \A n \in 1..6 : 1..n \subseteq 1..6 /\ 1 \in 1..n
  OBVIOUS
<1> QED
  BY <1>1, <1>2, <1>3

(* Steps of any program, and what their outcomes leave as it was. *)
LEMMA FlowSettles ==
  ASSUME Flow!TypeOK, Flow!CommonOK, NEW a \in Flow!Steps, Flow!Outcome(a)
  PROVE  /\ UNCHANGED <<v1, v4>> /\ a \in 1..6
         /\ v2' \in [1..6 -> Flow!States] /\ v3' \in [1..6 -> BOOLEAN]
         /\ \A b \in 1..6 : (v2'[b] = v2[b] /\ v3'[b] = v3[b]) \/ b = a
         /\ v2[a] \in {"running", "cancelling"} /\ v2'[a] \in {"ok", "failed", "canceled", "abandoned"}
         /\ v2'[a] \in {"canceled", "abandoned"} => v2[a] = "cancelling" /\ (v1.kind = "race" <=> v2'[a] = "abandoned")
         /\ v2'[a] = "ok" => v3'[a] /\ v1.steps[a] \notin {"StepWithError", "ActivityToBeCanceled"}
<1>1. /\ v1 \in Flow!Samples /\ v2 \in [1..6 -> Flow!States] /\ v3 \in [1..6 -> BOOLEAN]
  BY DEF Flow!TypeOK, Flow!MaxSteps
<1>2. a \in 1..6
  BY <1>1, FlowSteps
<1>3. CASE Flow!StepSucceeds(a)
  <2>1. /\ UNCHANGED <<v1, v4>> /\ v2' = [v2 EXCEPT ![a] = "ok"] /\ v3' = [v3 EXCEPT ![a] = TRUE]
        /\ v2[a] \in {"running", "cancelling"} /\ v1.steps[a] \notin {"StepWithError", "ActivityToBeCanceled"}
    BY <1>3 DEF Flow!StepSucceeds, Flow!MaySucceed
  <2> QED
    BY <1>1, <1>2, <2>1 DEF Flow!States
<1>4. CASE \E done \in BOOLEAN : Flow!StepFails(a, done)
  <2>0. PICK done \in BOOLEAN : Flow!StepFails(a, done)
    BY <1>4
  <2>1. /\ UNCHANGED <<v1, v4>> /\ v2' = [v2 EXCEPT ![a] = "failed"]
        /\ v3' = [v3 EXCEPT ![a] = done /\ Flow!MaySucceed(a)]
        /\ v2[a] \in {"running", "cancelling"}
    BY <2>0 DEF Flow!StepFails
  <2>2. Flow!MaySucceed(a) \in BOOLEAN
    BY DEF Flow!MaySucceed
  <2>3. v3' \in [1..6 -> BOOLEAN] /\ \A b \in 1..6 : b = a \/ v3'[b] = v3[b]
    BY <1>1, <1>2, <2>1, <2>2
  <2> QED
    BY <1>1, <1>2, <2>1, <2>3 DEF Flow!States
<1>5. CASE Flow!StepCanceled(a)
  <2>1. /\ UNCHANGED <<v1, v3, v4>> /\ v2[a] = "cancelling"
        /\ v2' = [v2 EXCEPT ![a] = IF v1.kind = "race" THEN "abandoned" ELSE "canceled"]
    BY <1>5 DEF Flow!StepCanceled, Flow!Is
  <2> QED
    BY <1>1, <1>2, <2>1 DEF Flow!States
<1> QED
  BY <1>3, <1>4, <1>5 DEF Flow!Outcome

(* The outcome of a step takes nothing away from what the workflow relies on. *)
LEMMA FlowOutcome ==
  ASSUME Flow!IInv, NEW a \in Flow!Steps, Flow!Outcome(a)
  PROVE  Flow!IInv'
<1>1. Flow!TypeOK /\ Flow!CommonOK /\ v1 \in Flow!Samples /\ Flow!TypeOK
  BY DEF Flow!IInv, Flow!TypeOK
<1>2. /\ UNCHANGED <<v1, v4>> /\ a \in 1..6
      /\ v2' \in [1..6 -> Flow!States] /\ v3' \in [1..6 -> BOOLEAN]
      /\ \A b \in 1..6 : (v2'[b] = v2[b] /\ v3'[b] = v3[b]) \/ b = a
      /\ v2[a] \in {"running", "cancelling"} /\ v2'[a] \in {"ok", "failed", "canceled", "abandoned"}
      /\ v2'[a] \in {"canceled", "abandoned"} => v2[a] = "cancelling" /\ (v1.kind = "race" <=> v2'[a] = "abandoned")
      /\ v2'[a] = "ok" => v3'[a] /\ v1.steps[a] \notin {"StepWithError", "ActivityToBeCanceled"}
  BY <1>1, FlowSettles
<1>k. ASSUME NEW k PROVE Flow!Is(k)' = Flow!Is(k)
  BY <1>2 DEF Flow!Is
<1>s. Flow!Steps' = Flow!Steps /\ Flow!Steps = 1..Len(v1.steps) /\ Flow!Steps \subseteq 1..6
  <2>1. Flow!Steps' = Flow!Steps
    BY <1>2 DEF Flow!Steps
  <2> QED
    BY <1>1, <2>1, FlowSteps
<1>m. v4 \in [at : {"start", "await", "collect", "parallel", "undo", "returned"}, next : 1..6,
              taken : SUBSET (1..6), result : 0..6, err : 0..7,
              branch : [Flow!Branches -> 1..3], fired : BOOLEAN, cancelled : BOOLEAN]
  BY <1>1 DEF Flow!TypeOK, Flow!MaxSteps, Flow!InvalidChoice, Flow!Dead
<1>i. \A b \in 1..6 : v2[b] = "idle" => v2'[b] = "idle"
  BY <1>2
<1>j. \A b \in 1..6 : v2[b] /= "idle" => v2'[b] /= "idle"
  BY <1>2
<1>o. \A b \in 1..6 : v2[b] = "ok" => v2'[b] = "ok"
  BY <1>2
<1>f. \A b \in 1..6 : v2[b] = "failed" => v2'[b] = "failed"
  BY <1>2
<1>r. \A b \in 1..6 : Flow!Ready(b) => Flow!Ready(b)'
  BY <1>2 DEF Flow!Ready
<1>t. Flow!TypeOK'
  BY <1>1, <1>2 DEF Flow!TypeOK, Flow!MaxSteps
<1>c. Flow!CommonOK'
  <2>1. \A b \in 1..6 : v2'[b] = "ok" => v3'[b]
    BY <1>1, <1>2 DEF Flow!CommonOK, Flow!MaxSteps
  <2>2. v4.at = "start" => Flow!Idle(1..6)'
    BY <1>1, <1>i DEF Flow!CommonOK, Flow!Idle, Flow!MaxSteps
  <2>3. ~Flow!Is("first") /\ ~Flow!Is("race") /\ ~Flow!Is("cleanup") =>
          \A b \in 1..6 : v2'[b] \in {"cancelling", "canceled", "abandoned"} => Flow!Is("parallel") /\ v4.at = "returned"
    <3> SUFFICES ASSUME ~Flow!Is("first"), ~Flow!Is("race"), ~Flow!Is("cleanup"),
                        NEW b \in 1..6, v2'[b] \in {"cancelling", "canceled", "abandoned"}
                 PROVE  Flow!Is("parallel") /\ v4.at = "returned"
      OBVIOUS
    <3>1. v2[b] \in {"cancelling", "canceled", "abandoned"}
      BY <1>2
    <3> QED
      BY <1>1, <3>1 DEF Flow!CommonOK, Flow!Returned, Flow!MaxSteps
  <2> QED
    BY <1>1, <1>2, <1>k, <2>1, <2>2, <2>3 DEF Flow!CommonOK, Flow!MaxSteps, Flow!Returned, Flow!NoError
<1> HIDE DEF Flow!IInv
<1>10. ASSUME Flow!Is("sequence") PROVE Flow!SequenceOK'
  <2>1. Flow!SequenceOK
    BY <1>10 DEF Flow!IInv
  <2> QED
    BY <1>2, <1>s, <1>m, <1>i, <1>j, <1>o, <1>f, <2>1, SMTT(30) DEF Flow!SequenceOK, Flow!AllOk, Flow!Idle, Flow!Returned, Flow!MaxSteps
<1>11. ASSUME Flow!Is("choice") PROVE Flow!ChoiceOK'
  <2>1. Flow!ChoiceOK
    BY <1>11 DEF Flow!IInv
  <2> QED
    BY <1>2, <1>m, <1>i, <1>j, <1>o, <1>f, <2>1 DEF Flow!ChoiceOK, Flow!AllOk, Flow!Idle, Flow!Returned
<1>12. ASSUME Flow!Is("basket") PROVE Flow!BasketOK'
  <2>1. Flow!BasketOK
    BY <1>12 DEF Flow!IInv
  <2> QED
    BY <1>2, <1>m, <1>i, <1>j, <1>f, <2>1 DEF Flow!BasketOK, Flow!AllOk, Flow!Idle, Flow!Returned, Flow!MaxSteps
<1>13. ASSUME v1.kind \in {"ordered", "selector"} PROVE Flow!ResultsOK'
  <2>1. Flow!ResultsOK
    BY <1>13 DEF Flow!IInv
  <2> QED
    BY <1>2, <1>s, <1>m, <1>o, <1>f, <2>1 DEF Flow!ResultsOK, Flow!AllOk, Flow!Returned
<1>14. ASSUME Flow!Is("first") PROVE Flow!FirstOK'
  <2>1. Flow!FirstOK
    BY <1>14 DEF Flow!IInv
  <2> QED
    BY <1>2, <1>s, <1>m, <1>o, <1>r, <2>1 DEF Flow!FirstOK, Flow!Returned
<1>15. ASSUME Flow!Is("parallel") PROVE Flow!ParallelOK'
  <2>1. Flow!ParallelOK
    BY <1>15 DEF Flow!IInv
  <2>2. \A b \in Flow!Branches : 2 * b \in 1..6 /\ 2 * b + 1 \in 1..6
    BY DEF Flow!Branches
  <2> QED
    BY <1>2, <1>s, <1>m, <1>i, <1>j, <1>o, <1>f, <2>1, <2>2 DEF Flow!ParallelOK, Flow!AllOk, Flow!Idle, Flow!Returned, Flow!MaxSteps
<1>16. ASSUME Flow!Is("goroutines") PROVE Flow!GoroutinesOK'
  <2>1. Flow!GoroutinesOK
    BY <1>16 DEF Flow!IInv
  <2>2. \A b \in Flow!Branches : 2 * b \in 1..6 /\ 2 * b - 1 \in 1..6
    BY DEF Flow!Branches
  <2> QED
    BY <1>2, <1>s, <1>m, <1>i, <1>j, <1>o, <1>f, <2>1, <2>2 DEF Flow!GoroutinesOK, Flow!Returned
<1>17. ASSUME Flow!Is("timer") PROVE Flow!TimerOK'
  <2>1. Flow!TimerOK
    BY <1>17 DEF Flow!IInv
  <2> QED
    BY <1>2, <1>m, <1>i, <1>j, <1>r, <2>1 DEF Flow!TimerOK, Flow!Returned
<1>18. ASSUME Flow!Is("saga") PROVE Flow!SagaOK'
  <2>1. Flow!SagaOK
    BY <1>18 DEF Flow!IInv
  <2>2. v2'[3] /= "ok"
    BY <1>1, <1>2, <1>18, <2>1, FlowSample DEF Flow!SagaOK, Flow!Is
  <2> QED
    BY <1>2, <1>m, <1>i, <1>j, <1>o, <1>f, <1>r, <2>1, <2>2 DEF Flow!SagaOK, Flow!AllOk, Flow!Idle, Flow!Returned
<1>19. ASSUME Flow!Is("cleanup") PROVE Flow!CleanupOK'
  <2>1. Flow!CleanupOK
    BY <1>19 DEF Flow!IInv
  <2>2. v2'[1] /= "ok"
    BY <1>1, <1>2, <1>19, <2>1, FlowSample DEF Flow!CleanupOK, Flow!Is
  <2>3. v2'[1] \in {"cancelling", "canceled", "abandoned"} => v2[1] \in {"cancelling", "canceled", "abandoned"}
    BY <1>2
  <2> QED
    BY <1>2, <1>m, <1>i, <1>j, <1>r, <2>1, <2>2, <2>3 DEF Flow!CleanupOK, Flow!Returned
<1>20. ASSUME Flow!Is("race") PROVE Flow!RaceOK'
  <2>1. Flow!RaceOK
    BY <1>20 DEF Flow!IInv
  <2>2. \A b \in Flow!Steps : v2'[b] /= "canceled"
    BY <1>2, <1>s, <1>20, <2>1 DEF Flow!RaceOK, Flow!Is
  <2>3. v4.taken = {} => \A b \in Flow!Steps : v2'[b] \notin {"cancelling", "abandoned"}
    BY <1>2, <1>s, <2>1 DEF Flow!RaceOK
  <2>4. \A b \in Flow!Steps : b \in v4.taken => Flow!Ready(b)'
    BY <1>s, <1>r, <2>1 DEF Flow!RaceOK
  <2>5. v4.taken /= {} => \E b \in v4.taken : v2'[b] \in {"ok", "failed"}
    BY <1>s, <1>o, <1>f, <2>1 DEF Flow!RaceOK
  <2>6. Flow!Returned' => /\ v4.taken = Flow!Steps
                          /\ IF v4.err = Flow!NoError THEN v4.result \in Flow!Steps /\ v2'[v4.result] = "ok"
                             ELSE v4.err \in Flow!Steps /\ v2'[v4.err] = "failed"
    BY <1>2, <1>s, <1>o, <1>f, <2>1 DEF Flow!RaceOK, Flow!Returned
  <2> QED
    BY <1>2, <1>s, <2>1, <2>2, <2>3, <2>4, <2>5, <2>6 DEF Flow!RaceOK
<1> QED
  BY <1>2, <1>k, <1>t, <1>c, <1>10, <1>11, <1>12, <1>13, <1>14, <1>15, <1>16, <1>17, <1>18, <1>19, <1>20 DEF Flow!IInv


(* The coroutines of dsl and of goroutine. *)
LEMMA FlowBranches ==
  ASSUME NEW b \in Flow!Branches
  PROVE  /\ b \in {1, 2} /\ Len(Flow!BranchOf[b]) = 2
         /\ v1.kind = "parallel" => Flow!BranchOf[b][1] = 2 * b /\ Flow!BranchOf[b][2] = 2 * b + 1
         /\ v1.kind /= "parallel" => Flow!BranchOf[b][1] = 2 * b - 1 /\ Flow!BranchOf[b][2] = 2 * b
  BY DEF Flow!Branches, Flow!BranchOf, Flow!Is

(* A step of the workflow leaves what has been done, and starts only what is idle. *)
LEMMA FlowActs ==
  ASSUME Flow!TypeOK, Flow!CommonOK, NEW S, UNCHANGED v3, v2' = Flow!Started(S),
         \A a \in 1..6 : a \in S => v2[a] /= "ok"
  PROVE  /\ v2' \in [1..6 -> Flow!States] /\ v3' \in [1..6 -> BOOLEAN]
         /\ \A a \in 1..6 : v2'[a] = IF a \in S THEN "running" ELSE v2[a]
         /\ \A a \in 1..6 : v2'[a] = "ok" => v3'[a]
<1>1. v2 \in [1..6 -> Flow!States] /\ v3 \in [1..6 -> BOOLEAN] /\ \A a \in 1..6 : v2[a] = "ok" => v3[a]
  BY DEF Flow!TypeOK, Flow!CommonOK, Flow!MaxSteps
<1>2. v2' = [a \in 1..6 |-> IF a \in S THEN "running" ELSE v2[a]]
  BY <1>1 DEF Flow!Started
<1> QED
  BY <1>1, <1>2 DEF Flow!States

LEMMA FlowCancels ==
  ASSUME Flow!TypeOK, Flow!CommonOK, NEW S, NEW left \in {"cancelling", "abandoned"},
         UNCHANGED v3, v2' = Flow!Cancelled(S, left)
  PROVE  /\ v2' \in [1..6 -> Flow!States] /\ v3' \in [1..6 -> BOOLEAN]
         /\ \A a \in 1..6 : v2'[a] = IF a \in S /\ v2[a] = "running" THEN left ELSE v2[a]
         /\ \A a \in 1..6 : v2'[a] = "ok" => v3'[a]
<1>1. v2 \in [1..6 -> Flow!States] /\ v3 \in [1..6 -> BOOLEAN] /\ \A a \in 1..6 : v2[a] = "ok" => v3[a]
  BY DEF Flow!TypeOK, Flow!CommonOK, Flow!MaxSteps
<1>2. v2' = [a \in 1..6 |-> IF a \in S /\ v2[a] = "running" THEN left ELSE v2[a]]
  BY <1>1 DEF Flow!Cancelled
<1> QED
  BY <1>1, <1>2 DEF Flow!States

(* What a step of the workflow has to show, for one kind of control. *)
LEMMA FlowKept ==
  ASSUME Flow!IInv, v1' = v1, Flow!TypeOK', Flow!CommonOK',
         v1.kind = "sequence" => Flow!SequenceOK', v1.kind = "choice" => Flow!ChoiceOK',
         v1.kind = "basket" => Flow!BasketOK', v1.kind \in {"ordered", "selector"} => Flow!ResultsOK',
         v1.kind = "first" => Flow!FirstOK', v1.kind = "parallel" => Flow!ParallelOK',
         v1.kind = "goroutines" => Flow!GoroutinesOK', v1.kind = "timer" => Flow!TimerOK',
         v1.kind = "saga" => Flow!SagaOK', v1.kind = "cleanup" => Flow!CleanupOK', v1.kind = "race" => Flow!RaceOK'
  PROVE  Flow!IInv'
  BY DEF Flow!IInv, Flow!Is

LEMMA FlowBegin ==
  ASSUME Flow!IInv, Flow!Begin
  PROVE  Flow!IInv'
<1>1. Flow!TypeOK /\ Flow!CommonOK /\ v1 \in Flow!Samples /\ UNCHANGED <<v1, v3>> /\ v4.at = "start"
  BY DEF Flow!IInv, Flow!TypeOK, Flow!Begin
<1>m. v4 \in [at : {"start", "await", "collect", "parallel", "undo", "returned"}, next : 1..6,
              taken : SUBSET (1..6), result : 0..6, err : 0..7,
              branch : [Flow!Branches -> 1..3], fired : BOOLEAN, cancelled : BOOLEAN]
  BY <1>1 DEF Flow!TypeOK, Flow!MaxSteps, Flow!InvalidChoice, Flow!Dead
<1>2. /\ v4' = [v4 EXCEPT !.at = "await"]
      /\ v4'.at = "await" /\ v4'.next = v4.next /\ v4'.taken = v4.taken /\ v4'.err = v4.err /\ v4'.result = v4.result
      /\ v4'.branch = v4.branch /\ v4'.fired = v4.fired /\ v4'.cancelled = v4.cancelled
  BY <1>m DEF Flow!Begin
<1>3. /\ \A a \in 1..6 : v2[a] = "idle"
      /\ v4.next = 1 /\ v4.taken = {} /\ v4.err = 0 /\ v4.result = 0 /\ \A b \in Flow!Branches : v4.branch[b] = 1
      /\ v4.cancelled => v1.kind = "cleanup"
  BY <1>1 DEF Flow!CommonOK, Flow!Idle, Flow!MaxSteps, Flow!NoError, Flow!Is
<1>4. v4' \in [at : {"start", "await", "collect", "parallel", "undo", "returned"}, next : 1..6,
               taken : SUBSET (1..6), result : 0..6, err : 0..7,
               branch : [Flow!Branches -> 1..3], fired : BOOLEAN, cancelled : BOOLEAN]
  BY <1>m, <1>2
<1>s. Flow!Steps' = Flow!Steps /\ Flow!Steps = 1..Len(v1.steps) /\ Flow!Steps \subseteq 1..6 /\ 1 \in Flow!Steps
  <2>1. Flow!Steps' = Flow!Steps
    BY <1>1 DEF Flow!Steps
  <2> QED
    BY <1>1, <2>1, FlowSteps
<1> DEFINE S == CASE v1.kind \in {"ordered", "selector", "first", "race"} -> Flow!Steps
                  [] v1.kind = "goroutines" -> {Flow!BranchOf[b][1] : b \in Flow!Branches}
                  [] OTHER -> {1}
<1>5. /\ v2' \in [1..6 -> Flow!States] /\ v3' \in [1..6 -> BOOLEAN]
      /\ \A a \in 1..6 : v2'[a] = "ok" => v3'[a]
      /\ ~v4.cancelled => \A a \in 1..6 : v2'[a] = IF a \in S THEN "running" ELSE "idle"
      /\ v4.cancelled => \A a \in 1..6 : v2'[a] = IF a = 1 THEN "canceled" ELSE "idle"
  <2>1. CASE ~v4.cancelled
    <3>1. v2' = Flow!Started(S)
      BY <2>1 DEF Flow!Begin, Flow!Is
    <3>2. \A a \in 1..6 : a \in S => v2[a] /= "ok"
      BY <1>3
    <3> HIDE DEF S
    <3> QED
      BY <1>1, <1>3, <2>1, <3>1, <3>2, FlowActs
  <2>2. CASE v4.cancelled
    <3>1. v2' = [v2 EXCEPT ![1] = "canceled"]
      BY <2>2 DEF Flow!Begin
    <3>2. v2 \in [1..6 -> Flow!States] /\ v3 \in [1..6 -> BOOLEAN]
      BY <1>1 DEF Flow!TypeOK, Flow!MaxSteps
    <3> QED
      BY <1>1, <1>3, <2>2, <3>1, <3>2 DEF Flow!States
  <2> QED
    BY <2>1, <2>2
<1> HIDE DEF S
<1>6. Flow!TypeOK'
  BY <1>1, <1>4, <1>5 DEF Flow!TypeOK, Flow!MaxSteps, Flow!InvalidChoice, Flow!Dead
<1>7. Flow!CommonOK'
  BY <1>1, <1>2, <1>3, <1>5 DEF Flow!CommonOK, Flow!MaxSteps, Flow!NoError, Flow!Is
<1>8. v1.kind \notin {"ordered", "selector", "first", "race", "goroutines"} => S = {1}
  BY DEF S
<1>9. v1.kind \in {"ordered", "selector", "first", "race"} => S = Flow!Steps
  BY DEF S
<1>10. v1.kind = "sequence" => Flow!SequenceOK'
  BY <1>2, <1>3, <1>5, <1>8, <1>s DEF Flow!SequenceOK, Flow!AllOk, Flow!Idle, Flow!Returned, Flow!MaxSteps
<1>11. v1.kind = "choice" => Flow!ChoiceOK'
  BY <1>2, <1>3, <1>5, <1>8 DEF Flow!ChoiceOK, Flow!AllOk, Flow!Idle, Flow!Returned
<1>12. v1.kind = "basket" => Flow!BasketOK'
  BY <1>2, <1>3, <1>5, <1>8 DEF Flow!BasketOK, Flow!AllOk, Flow!Idle, Flow!Returned, Flow!MaxSteps
<1>13. v1.kind \in {"ordered", "selector"} => Flow!ResultsOK'
  BY <1>2, <1>3, <1>s DEF Flow!ResultsOK, Flow!AllOk, Flow!Returned
<1>14. v1.kind = "first" => Flow!FirstOK'
  BY <1>2, <1>3, <1>s DEF Flow!FirstOK, Flow!Returned, Flow!NoError
<1>15. v1.kind = "parallel" => Flow!ParallelOK'
  BY <1>2, <1>3, <1>5, <1>8 DEF Flow!ParallelOK, Flow!AllOk, Flow!Idle, Flow!Returned, Flow!MaxSteps
<1>16. v1.kind = "goroutines" => Flow!GoroutinesOK'
  <2>1. v1.kind = "goroutines" => 1 \in S /\ 3 \in S /\ 2 \notin S /\ 4 \notin S
    BY FlowBranches DEF S, Flow!Branches
  <2>2. \A b \in Flow!Branches : b = 1 \/ b = 2
    BY DEF Flow!Branches
  <2>3. v1.kind = "goroutines" => v2'[1] /= "idle" /\ v2'[2] = "idle" /\ v2'[3] /= "idle" /\ v2'[4] = "idle"
    BY <1>3, <1>5, <2>1
  <2>4. v1.kind = "goroutines" => \A b \in Flow!Branches : v2'[2 * b - 1] /= "idle" /\ v2'[2 * b] = "idle"
    BY <2>2, <2>3
  <2> QED
    BY <1>2, <1>3, <2>4 DEF Flow!GoroutinesOK, Flow!Returned
<1>17. v1.kind = "timer" => Flow!TimerOK'
  BY <1>2, <1>3, <1>5, <1>8 DEF Flow!TimerOK, Flow!Returned, Flow!NoError
<1>18. v1.kind = "saga" => Flow!SagaOK'
  BY <1>2, <1>3, <1>5, <1>8 DEF Flow!SagaOK, Flow!AllOk, Flow!Idle, Flow!Returned
<1>19. v1.kind = "cleanup" => Flow!CleanupOK'
  BY <1>2, <1>3, <1>5, <1>8 DEF Flow!CleanupOK, Flow!Returned, Flow!NoError
<1>20. v1.kind = "race" => Flow!RaceOK'
  <2>1. v1.kind = "race" => \A a \in Flow!Steps : v2'[a] \in {"running", "idle"}
    BY <1>3, <1>5, <1>s
  <2> QED
    BY <1>2, <1>3, <1>s, <2>1 DEF Flow!RaceOK, Flow!Returned
<1> QED
  BY <1>1, <1>6, <1>7, <1>10, <1>11, <1>12, <1>13, <1>14, <1>15, <1>16, <1>17, <1>18, <1>19, <1>20, FlowKept


(* The fields of the workflow, and the facts that every step of it starts from. *)
Mains == [at : {"start", "await", "collect", "parallel", "undo", "returned"}, next : 1..6,
          taken : SUBSET (1..6), result : 0..6, err : 0..7,
          branch : [Flow!Branches -> 1..3], fired : BOOLEAN, cancelled : BOOLEAN]

LEMMA FlowFacts ==
  ASSUME Flow!IInv, v1' = v1
  PROVE  /\ Flow!TypeOK /\ Flow!CommonOK /\ v1 \in Flow!Samples
         /\ v2 \in [1..6 -> Flow!States] /\ v3 \in [1..6 -> BOOLEAN] /\ v4 \in Mains
         /\ Flow!Steps' = Flow!Steps /\ Flow!Steps = 1..Len(v1.steps) /\ Len(v1.steps) \in 1..6
         /\ Flow!Steps \subseteq 1..6 /\ 1 \in Flow!Steps
<1>1. Flow!TypeOK /\ Flow!CommonOK
  BY DEF Flow!IInv
<1>2. v1 \in Flow!Samples /\ v2 \in [1..6 -> Flow!States] /\ v3 \in [1..6 -> BOOLEAN] /\ v4 \in Mains
  BY <1>1 DEF Flow!TypeOK, Flow!MaxSteps, Flow!InvalidChoice, Flow!Dead, Mains
<1>3. Flow!Steps' = Flow!Steps
  BY DEF Flow!Steps
<1> QED
  BY <1>1, <1>2, <1>3, FlowSteps

LEMMA FlowType ==
  ASSUME Flow!TypeOK, v1' = v1, v2' \in [1..6 -> Flow!States], v3' \in [1..6 -> BOOLEAN], v4' \in Mains
  PROVE  Flow!TypeOK'
  BY DEF Flow!TypeOK, Flow!MaxSteps, Flow!InvalidChoice, Flow!Dead, Mains

LEMMA FlowReturns ==
  ASSUME v4 \in Mains, NEW e \in 0..7, v4' = [v4 EXCEPT !.at = "returned", !.err = e]
  PROVE  /\ v4' \in Mains /\ v4'.at = "returned" /\ v4'.err = e /\ v4'.next = v4.next
         /\ v4'.taken = v4.taken /\ v4'.result = v4.result /\ v4'.branch = v4.branch
         /\ v4'.fired = v4.fired /\ v4'.cancelled = v4.cancelled
<1>1. v4' \in Mains
  BY DEF Mains
<1> QED
  BY <1>1 DEF Mains

(* The workflow is cancelled, a timer fires, a step that was given up does its work after *)
(* all.                                                                                   *)
LEMMA FlowCancelWorkflow ==
  ASSUME Flow!IInv, Flow!CancelWorkflow
  PROVE  Flow!IInv'
<1>1. /\ UNCHANGED <<v1, v3>> /\ v1.kind = "cleanup" /\ v4.at \in {"start", "await"} /\ ~v4.cancelled
      /\ v4' = [v4 EXCEPT !.cancelled = TRUE] /\ v2' = Flow!Cancelled({1}, "cancelling")
  BY DEF Flow!CancelWorkflow, Flow!Is
<1>2. /\ Flow!TypeOK /\ Flow!CommonOK /\ v4 \in Mains
  BY <1>1, FlowFacts
<1>3. /\ v4' \in Mains /\ v4'.at = v4.at /\ v4'.next = v4.next /\ v4'.taken = v4.taken /\ v4'.err = v4.err
      /\ v4'.result = v4.result /\ v4'.branch = v4.branch /\ v4'.fired = v4.fired /\ v4'.cancelled = TRUE
  BY <1>1, <1>2 DEF Mains
<1>4. /\ v2' \in [1..6 -> Flow!States] /\ v3' \in [1..6 -> BOOLEAN]
      /\ \A a \in 1..6 : v2'[a] = IF a \in {1} /\ v2[a] = "running" THEN "cancelling" ELSE v2[a]
      /\ \A a \in 1..6 : v2'[a] = "ok" => v3'[a]
  BY <1>1, <1>2, FlowCancels
<1>5. Flow!TypeOK'
  BY <1>1, <1>2, <1>3, <1>4, FlowType
<1>6. Flow!CommonOK'
  <2>1. v4.at = "start" => Flow!Idle(1..6)'
    BY <1>2, <1>4 DEF Flow!CommonOK, Flow!Idle, Flow!MaxSteps
  <2> QED
    BY <1>1, <1>2, <1>3, <1>4, <2>1 DEF Flow!CommonOK, Flow!MaxSteps, Flow!Is, Flow!Returned
<1>7. Flow!CleanupOK'
  <2>1. Flow!CleanupOK
    BY <1>1 DEF Flow!IInv, Flow!Is
  <2> QED
    BY <1>1, <1>3, <1>4, <2>1 DEF Flow!CleanupOK, Flow!Returned, Flow!Ready
<1> QED
  BY <1>1, <1>5, <1>6, <1>7, FlowKept

LEMMA FlowTimerFires ==
  ASSUME Flow!IInv, Flow!TimerFires
  PROVE  Flow!IInv'
<1>1. /\ UNCHANGED <<v1, v2, v3>> /\ v1.kind = "timer" /\ v4' = [v4 EXCEPT !.fired = TRUE]
  BY DEF Flow!TimerFires, Flow!Is
<1>2. /\ Flow!TypeOK /\ Flow!CommonOK /\ v4 \in Mains
      /\ v2 \in [1..6 -> Flow!States] /\ v3 \in [1..6 -> BOOLEAN]
  BY <1>1, FlowFacts
<1>3. /\ v4' \in Mains /\ v4'.at = v4.at /\ v4'.next = v4.next /\ v4'.taken = v4.taken /\ v4'.err = v4.err
      /\ v4'.result = v4.result /\ v4'.branch = v4.branch /\ v4'.cancelled = v4.cancelled
  BY <1>1, <1>2 DEF Mains
<1>4. Flow!TypeOK'
  BY <1>1, <1>2, <1>3, FlowType
<1>5. Flow!CommonOK'
  BY <1>1, <1>2, <1>3 DEF Flow!CommonOK, Flow!Is, Flow!Returned, Flow!Idle
<1>6. Flow!TimerOK'
  <2>1. Flow!TimerOK
    BY <1>1 DEF Flow!IInv, Flow!Is
  <2> QED
    BY <1>1, <1>3, <2>1 DEF Flow!TimerOK, Flow!Returned, Flow!Ready
<1> QED
  BY <1>1, <1>4, <1>5, <1>6, FlowKept

LEMMA FlowAbandoned ==
  ASSUME Flow!IInv, NEW a \in Flow!Steps, Flow!AbandonedStepWorks(a)
  PROVE  Flow!IInv'
<1>1. UNCHANGED <<v1, v2, v4>> /\ v3' = [v3 EXCEPT ![a] = TRUE]
  BY DEF Flow!AbandonedStepWorks
<1>2. /\ Flow!TypeOK /\ Flow!CommonOK /\ v4 \in Mains
      /\ v2 \in [1..6 -> Flow!States] /\ v3 \in [1..6 -> BOOLEAN]
  BY <1>1, FlowFacts
<1>3. v3' \in [1..6 -> BOOLEAN] /\ \A b \in 1..6 : v3[b] => v3'[b]
  BY <1>1, <1>2
<1>4. Flow!TypeOK'
  BY <1>1, <1>2, <1>3, FlowType
<1>5. Flow!CommonOK'
  BY <1>1, <1>2, <1>3 DEF Flow!CommonOK, Flow!Is, Flow!Returned, Flow!Idle, Flow!MaxSteps
<1> QED
  BY <1>1, <1>4, <1>5 DEF Flow!IInv, Flow!Is, Flow!SequenceOK, Flow!ChoiceOK, Flow!BasketOK, Flow!ResultsOK,
     Flow!FirstOK, Flow!ParallelOK, Flow!GoroutinesOK, Flow!TimerOK, Flow!SagaOK, Flow!CleanupOK, Flow!RaceOK,
     Flow!Steps, Flow!Returned, Flow!AllOk, Flow!Idle, Flow!Ready

(* One step after the other. *)
LEMMA FlowSequence ==
  ASSUME Flow!IInv, Flow!NextInSequence
  PROVE  Flow!IInv'
<1> DEFINE n == v4.next
<1>1. /\ UNCHANGED <<v1, v3>> /\ v1.kind = "sequence" /\ v4.at = "await" /\ Flow!Ready(n)
  BY DEF Flow!NextInSequence, Flow!Is
<1>2. /\ Flow!TypeOK /\ Flow!CommonOK /\ v4 \in Mains
      /\ v2 \in [1..6 -> Flow!States] /\ v3 \in [1..6 -> BOOLEAN]
      /\ Flow!Steps' = Flow!Steps /\ Flow!Steps = 1..Len(v1.steps) /\ Len(v1.steps) \in 1..6
  BY <1>1, FlowFacts
<1>3. /\ n \in Flow!Steps /\ n \in 1..6 /\ v2[n] /= "idle"
      /\ \A a \in 1..(n - 1) : v2[a] = "ok"
      /\ \A a \in (n + 1)..6 : v2[a] = "idle"
  BY <1>1, <1>2 DEF Flow!IInv, Flow!Is, Flow!SequenceOK, Flow!AllOk, Flow!Idle, Flow!MaxSteps, Mains
<1>4. v2[n] \in {"ok", "failed"}
  BY <1>1, <1>2, <1>3 DEF Flow!CommonOK, Flow!Ready, Flow!Is, Flow!MaxSteps
<1>c. /\ v4.result = 0 /\ v4.err = 0 /\ ~v4.cancelled
      /\ \A a \in 1..6 : v2[a] \notin {"cancelling", "canceled", "abandoned"}
      /\ \A a \in 1..6 : v2[a] = "ok" => v3[a]
  BY <1>1, <1>2 DEF Flow!CommonOK, Flow!Is, Flow!MaxSteps, Flow!NoError, Mains
<1> HIDE DEF n
<1>5. CASE v2[n] /= "ok"
  <2>1. UNCHANGED v2 /\ v4' = [v4 EXCEPT !.at = "returned", !.err = n]
    BY <1>1, <1>5 DEF Flow!NextInSequence, Flow!Return, n
  <2>2. /\ v4' \in Mains /\ v4'.at = "returned" /\ v4'.err = n /\ v4'.result = v4.result /\ v4'.cancelled = v4.cancelled
    <3>1. n \in 0..7
      BY <1>3
    <3> QED
      BY <1>2, <2>1, <3>1, FlowReturns
  <2>3. Flow!TypeOK'
    BY <1>1, <1>2, <2>1, <2>2, FlowType
  <2>4. Flow!CommonOK'
    BY <1>1, <1>c, <2>1, <2>2 DEF Flow!CommonOK, Flow!Is, Flow!MaxSteps
  <2>5. Flow!SequenceOK'
    BY <1>2, <1>3, <1>4, <1>5, <2>1, <2>2 DEF Flow!SequenceOK, Flow!AllOk, Flow!Idle, Flow!MaxSteps, Flow!NoError, Flow!Returned
  <2> QED
    BY <1>1, <2>3, <2>4, <2>5, FlowKept
<1>6. CASE v2[n] = "ok" /\ n = Len(v1.steps)
  <2>1. UNCHANGED v2 /\ v4' = [v4 EXCEPT !.at = "returned", !.err = 0]
    BY <1>1, <1>6 DEF Flow!NextInSequence, Flow!Return, n, Flow!NoError
  <2>2. /\ v4' \in Mains /\ v4'.at = "returned" /\ v4'.err = 0 /\ v4'.result = v4.result /\ v4'.cancelled = v4.cancelled
    <3>1. 0 \in 0..7
      OBVIOUS
    <3> QED
      BY <1>2, <2>1, <3>1, FlowReturns
  <2>3. Flow!TypeOK'
    BY <1>1, <1>2, <2>1, <2>2, FlowType
  <2>4. Flow!CommonOK'
    BY <1>1, <1>c, <2>1, <2>2 DEF Flow!CommonOK, Flow!Is, Flow!MaxSteps
  <2>5. Flow!SequenceOK'
    <3>1. \A a \in 1..n : v2[a] = "ok"
      BY <1>3, <1>6
    <3>2. \A a \in Flow!Steps : v2[a] = "ok"
      BY <1>2, <1>6, <3>1
    <3> QED
      BY <1>2, <2>1, <2>2, <3>2 DEF Flow!SequenceOK, Flow!AllOk, Flow!NoError, Flow!Returned
  <2> QED
    BY <1>1, <2>3, <2>4, <2>5, FlowKept
<1>7. CASE v2[n] = "ok" /\ n /= Len(v1.steps)
  <2>0. n + 1 \in 1..6 /\ n + 1 \in Flow!Steps /\ v2[n + 1] = "idle"
    <3> DEFINE len == Len(v1.steps)
    <3>1. n \in 1..len /\ len \in 1..6 /\ n /= len
      BY <1>2, <1>3, <1>7
    <3> HIDE DEF len
    <3>2. n + 1 \in 1..6 /\ n + 1 \in 1..len /\ n + 1 \in (n + 1)..6
      BY <3>1
    <3> QED
      BY <1>2, <1>3, <3>2 DEF len
  <2>1. v2' = Flow!Started({n + 1}) /\ v4' = [v4 EXCEPT !.next = v4.next + 1]
    BY <1>1, <1>7 DEF Flow!NextInSequence, n
  <2>2. /\ v4' \in Mains /\ v4'.at = v4.at /\ v4'.next = n + 1 /\ v4'.err = v4.err /\ v4'.result = v4.result
        /\ v4'.cancelled = v4.cancelled
    BY <1>2, <1>3, <2>0, <2>1 DEF Mains, n
  <2>a. \A a \in 1..6 : a \in {n + 1} => v2[a] /= "ok"
    BY <2>0
  <2>b. /\ v2' \in [1..6 -> Flow!States] /\ v3' \in [1..6 -> BOOLEAN]
        /\ \A a \in 1..6 : v2'[a] = IF a \in {n + 1} THEN "running" ELSE v2[a]
        /\ \A a \in 1..6 : v2'[a] = "ok" => v3'[a]
    BY <1>1, <1>2, <2>1, <2>a, FlowActs
  <2>3. Flow!TypeOK'
    BY <1>1, <1>2, <2>b, <2>2, FlowType
  <2>4. Flow!CommonOK'
    BY <1>1, <1>c, <2>b, <2>2 DEF Flow!CommonOK, Flow!Is, Flow!MaxSteps, Flow!NoError
  <2>5. Flow!SequenceOK'
    BY <1>1, <1>2, <1>3, <1>7, <2>0, <2>b, <2>2 DEF Flow!SequenceOK, Flow!AllOk, Flow!Idle, Flow!MaxSteps, Flow!NoError, Flow!Returned
  <2> QED
    BY <1>1, <2>3, <2>4, <2>5, FlowKept
<1> QED
  BY <1>5, <1>6, <1>7


LEMMA FlowCalm ==
  ASSUME Flow!IInv, v1.kind \notin {"first", "race", "cleanup"}, v4.at \notin {"start", "returned"}
  PROVE  /\ v4.result = 0 /\ ~v4.cancelled /\ (v4.at \in {"await", "parallel", "collect"} => v4.err = 0)
         /\ \A a \in 1..6 : v2[a] \in {"idle", "running", "ok", "failed"}
         /\ \A a \in 1..6 : v2[a] = "ok" => v3[a]
<1>1. Flow!CommonOK /\ v2 \in [1..6 -> Flow!States] /\ v4 \in Mains
  BY DEF Flow!IInv, Flow!TypeOK, Flow!MaxSteps, Mains, Flow!InvalidChoice, Flow!Dead
<1>2. v4.result = 0 /\ ~v4.cancelled /\ (v4.at \in {"await", "parallel", "collect"} => v4.err = 0)
  BY <1>1 DEF Flow!CommonOK, Flow!Is, Flow!NoError, Mains
<1>3. \A a \in 1..6 : v2[a] = "ok" => v3[a]
  BY <1>1 DEF Flow!CommonOK, Flow!MaxSteps
<1>4. \A a \in 1..6 : v2[a] \notin {"cancelling", "canceled", "abandoned"}
  BY <1>1 DEF Flow!CommonOK, Flow!MaxSteps, Flow!Is, Flow!Returned
<1>5. \A a \in 1..6 : v2[a] \in {"idle", "running", "ok", "failed"}
  BY <1>1, <1>4 DEF Flow!States
<1> QED
  BY <1>2, <1>3, <1>5

LEMMA FlowStaysCalm ==
  ASSUME v1' = v1, v1.kind \notin {"first", "race", "cleanup"}, v4'.at /= "start", v4'.result = 0, ~v4'.cancelled,
         v4'.at \in {"await", "parallel", "collect"} => v4'.err = 0,
         \A a \in 1..6 : v2'[a] = "ok" => v3'[a],
         \A a \in 1..6 : v2'[a] \in {"cancelling", "canceled", "abandoned"} => v1.kind = "parallel" /\ v4'.at = "returned"
  PROVE  Flow!CommonOK'
  BY DEF Flow!CommonOK, Flow!Is, Flow!NoError, Flow!MaxSteps, Flow!Returned

LEMMA FlowNext ==
  ASSUME v4 \in Mains, NEW n \in 1..6, v4' = [v4 EXCEPT !.next = n]
  PROVE  /\ v4' \in Mains /\ v4'.at = v4.at /\ v4'.err = v4.err /\ v4'.next = n
         /\ v4'.taken = v4.taken /\ v4'.result = v4.result /\ v4'.branch = v4.branch
         /\ v4'.fired = v4.fired /\ v4'.cancelled = v4.cancelled
<1>1. v4' \in Mains
  BY DEF Mains
<1> QED
  BY <1>1 DEF Mains

(* A choice by the result of the first step, one item or several. *)
LEMMA FlowChoice ==
  ASSUME Flow!IInv, NEW known \in BOOLEAN, Flow!ChooseOrder(known)
  PROVE  Flow!IInv'
<1> DEFINE n == v4.next
<1>1. /\ UNCHANGED <<v1, v3>> /\ v1.kind = "choice" /\ v4.at = "await" /\ Flow!Ready(n)
  BY DEF Flow!ChooseOrder, Flow!Is
<1>2. /\ Flow!TypeOK /\ Flow!CommonOK /\ v4 \in Mains
      /\ v2 \in [1..6 -> Flow!States] /\ v3 \in [1..6 -> BOOLEAN]
  BY <1>1, FlowFacts
<1>c. /\ v4.result = 0 /\ v4.err = 0 /\ ~v4.cancelled
      /\ \A a \in 1..6 : v2[a] \in {"idle", "running", "ok", "failed"}
      /\ \A a \in 1..6 : v2[a] = "ok" => v3[a]
  BY <1>1, FlowCalm
<1>3. n \in {1, 2} /\ v2[n] /= "idle" /\ (n = 2 => v2[1] = "ok") /\ (n = 1 => v2[2] = "idle")
  BY <1>1 DEF Flow!IInv, Flow!Is, Flow!ChoiceOK, Flow!AllOk, Flow!Idle
<1>4. v2[n] \in {"ok", "failed"}
  BY <1>1, <1>c, <1>3 DEF Flow!Ready
<1> HIDE DEF n
<1>5. CASE n = 1 /\ v2[1] = "ok" /\ known
  <2>1. v2' = Flow!Started({2}) /\ v4' = [v4 EXCEPT !.next = 2]
    BY <1>5 DEF Flow!ChooseOrder, n
  <2>2. /\ v4' \in Mains /\ v4'.at = v4.at /\ v4'.next = 2 /\ v4'.err = v4.err /\ v4'.result = v4.result
        /\ v4'.cancelled = v4.cancelled
    BY <1>2, <2>1, FlowNext
  <2>3. /\ v2' \in [1..6 -> Flow!States] /\ v3' \in [1..6 -> BOOLEAN]
        /\ \A a \in 1..6 : v2'[a] = IF a \in {2} THEN "running" ELSE v2[a]
        /\ \A a \in 1..6 : v2'[a] = "ok" => v3'[a]
    BY <1>1, <1>2, <1>3, <1>5, <2>1, FlowActs
  <2>4. Flow!TypeOK'
    BY <1>1, <1>2, <2>2, <2>3, FlowType
  <2>5. Flow!CommonOK'
    BY <1>1, <1>c, <2>2, <2>3, FlowStaysCalm
  <2>6. Flow!ChoiceOK'
    BY <1>1, <1>5, <2>2, <2>3 DEF Flow!ChoiceOK, Flow!AllOk, Flow!Idle, Flow!Returned
  <2> QED
    BY <1>1, <2>4, <2>5, <2>6, FlowKept
<1>6. CASE ~(n = 1 /\ v2[1] = "ok" /\ known)
  <2> DEFINE e == IF v2[n] /= "ok" THEN n ELSE IF n = 1 THEN 7 ELSE 0
  <2>1. UNCHANGED v2 /\ v4' = [v4 EXCEPT !.at = "returned", !.err = e]
    BY <1>3, <1>6 DEF Flow!ChooseOrder, Flow!Return, Flow!NoError, Flow!InvalidChoice, Flow!MaxSteps, n
  <2>2. e \in 0..7 /\ (v2[n] /= "ok" => e = n) /\ (v2[n] = "ok" /\ n = 1 => e = 7) /\ (v2[n] = "ok" /\ n = 2 => e = 0)
    BY <1>3
  <2> HIDE DEF e
  <2>3. /\ v4' \in Mains /\ v4'.at = "returned" /\ v4'.err = e /\ v4'.result = v4.result /\ v4'.cancelled = v4.cancelled
    BY <1>2, <2>1, <2>2, FlowReturns
  <2>4. Flow!TypeOK'
    BY <1>1, <1>2, <2>1, <2>3, FlowType
  <2>5. Flow!CommonOK'
    BY <1>1, <1>c, <2>1, <2>3, FlowStaysCalm
  <2>6. CASE v2[n] /= "ok"
    <3>1. e \in {1, 2} /\ v2[e] = "failed" /\ (e = 2 => v2[1] = "ok") /\ (e = 1 => v2[2] = "idle")
      BY <1>3, <1>4, <2>2, <2>6
    <3>2. Flow!ChoiceOK'
      BY <2>1, <2>3, <3>1 DEF Flow!ChoiceOK, Flow!AllOk, Flow!Idle, Flow!NoError, Flow!InvalidChoice, Flow!MaxSteps, Flow!Returned
    <3> QED
      BY <1>1, <2>4, <2>5, <3>2, FlowKept
  <2>7. CASE v2[n] = "ok"
    <3>1. (e = 7 /\ v2[1] = "ok" /\ v2[2] = "idle") \/ (e = 0 /\ v2[1] = "ok" /\ v2[2] = "ok")
      BY <1>3, <2>2, <2>7
    <3>2. Flow!ChoiceOK'
      BY <2>1, <2>3, <3>1 DEF Flow!ChoiceOK, Flow!AllOk, Flow!Idle, Flow!NoError, Flow!InvalidChoice, Flow!MaxSteps, Flow!Returned
    <3> QED
      BY <1>1, <2>4, <2>5, <3>2, FlowKept
  <2> QED
    BY <2>6, <2>7
<1> QED
  BY <1>5, <1>6

LEMMA FlowFillBasket ==
  ASSUME Flow!IInv, NEW items \in 0..2, NEW known \in BOOLEAN, Flow!FillBasket(items, known)
  PROVE  Flow!IInv'
<1>1. /\ UNCHANGED <<v1, v3>> /\ v1.kind = "basket" /\ v4.at = "await" /\ Flow!Ready(1)
  BY DEF Flow!FillBasket, Flow!Is
<1>2. /\ Flow!TypeOK /\ Flow!CommonOK /\ v4 \in Mains
      /\ v2 \in [1..6 -> Flow!States] /\ v3 \in [1..6 -> BOOLEAN]
  BY <1>1, FlowFacts
<1>c. /\ v4.result = 0 /\ v4.err = 0 /\ ~v4.cancelled
      /\ \A a \in 1..6 : v2[a] \in {"idle", "running", "ok", "failed"}
      /\ \A a \in 1..6 : v2[a] = "ok" => v3[a]
  BY <1>1, FlowCalm
<1>3. v2[1] \in {"ok", "failed"} /\ \A a \in 2..6 : v2[a] = "idle"
  BY <1>1, <1>c DEF Flow!IInv, Flow!Is, Flow!BasketOK, Flow!Idle, Flow!Ready, Flow!MaxSteps
<1> DEFINE S == IF v2[1] = "ok" THEN 2..(items + 1) ELSE {}
<1>4. /\ v2' \in [1..6 -> Flow!States] /\ v3' \in [1..6 -> BOOLEAN]
      /\ \A a \in 1..6 : v2'[a] = IF a \in S THEN "running" ELSE v2[a]
      /\ \A a \in 1..6 : v2'[a] = "ok" => v3'[a]
  <2>1. CASE v2[1] = "ok"
    <3>1. v2' = Flow!Started(2..(items + 1))
      BY <2>1 DEF Flow!FillBasket
    <3>2. \A a \in 1..6 : a \in 2..(items + 1) => v2[a] /= "ok"
      BY <1>3
    <3> QED
      BY <1>1, <1>2, <2>1, <3>1, <3>2, FlowActs
  <2>2. CASE v2[1] /= "ok"
    <3>1. v2' = v2
      BY <2>2 DEF Flow!FillBasket
    <3> QED
      BY <1>1, <1>2, <1>c, <2>2, <3>1
  <2> QED
    BY <2>1, <2>2
<1>5. v2[1] /= "ok" => v2'[1] = "failed"
  BY <1>3, <1>4
<1> HIDE DEF S
<1>6. CASE v2[1] = "ok" /\ known
  <2>1. v4' = [v4 EXCEPT !.at = "collect", !.taken = 2..(items + 1)]
    BY <1>6 DEF Flow!FillBasket
  <2>2. 2..(items + 1) \in SUBSET (1..6)
    OBVIOUS
  <2>3. v4' \in Mains
    BY <1>2, <2>1, <2>2 DEF Mains
  <2>4. v4'.at = "collect" /\ v4'.err = v4.err /\ v4'.result = v4.result /\ v4'.cancelled = v4.cancelled
    BY <1>2, <2>1 DEF Mains
  <2>5. Flow!TypeOK'
    BY <1>1, <1>2, <1>4, <2>3, FlowType
  <2>6. Flow!CommonOK'
    BY <1>1, <1>c, <1>4, <2>4, FlowStaysCalm
  <2>7. Flow!BasketOK'
    BY <2>4 DEF Flow!BasketOK, Flow!Returned
  <2> QED
    BY <1>1, <2>5, <2>6, <2>7, FlowKept
<1>7. CASE ~(v2[1] = "ok" /\ known)
  <2> DEFINE e == IF v2[1] = "ok" THEN 7 ELSE 1
  <2>1. v4' = [v4 EXCEPT !.at = "returned", !.err = e]
    BY <1>7 DEF Flow!FillBasket, Flow!Return, Flow!InvalidChoice, Flow!MaxSteps
  <2>2. e \in 0..7 /\ (e = 7 \/ (e = 1 /\ v2'[1] = "failed"))
    BY <1>5
  <2> HIDE DEF e
  <2>3. /\ v4' \in Mains /\ v4'.at = "returned" /\ v4'.err = e /\ v4'.result = v4.result /\ v4'.cancelled = v4.cancelled
    BY <1>2, <2>1, <2>2, FlowReturns
  <2>5. Flow!TypeOK'
    BY <1>1, <1>2, <1>4, <2>3, FlowType
  <2>6. Flow!CommonOK'
    BY <1>1, <1>c, <1>4, <2>3, FlowStaysCalm
  <2>7. Flow!BasketOK'
    BY <2>2, <2>3 DEF Flow!BasketOK, Flow!Returned, Flow!NoError, Flow!InvalidChoice, Flow!MaxSteps
  <2> QED
    BY <1>1, <2>5, <2>6, <2>7, FlowKept
<1> QED
  BY <1>6, <1>7

LEMMA FlowBasketOrdered ==
  ASSUME Flow!IInv, Flow!BasketOrdered
  PROVE  Flow!IInv'
<1>1. /\ UNCHANGED <<v1, v2, v3>> /\ v1.kind = "basket" /\ v4.at = "collect"
      /\ v4' = [v4 EXCEPT !.at = "returned", !.err = 0]
  BY DEF Flow!BasketOrdered, Flow!Is, Flow!Return, Flow!NoError
<1>2. /\ Flow!TypeOK /\ v4 \in Mains /\ v2 \in [1..6 -> Flow!States] /\ v3 \in [1..6 -> BOOLEAN]
  BY <1>1, FlowFacts
<1>c. /\ v4.result = 0 /\ ~v4.cancelled
      /\ \A a \in 1..6 : v2[a] \in {"idle", "running", "ok", "failed"}
      /\ \A a \in 1..6 : v2[a] = "ok" => v3[a]
  BY <1>1, FlowCalm
<1>3. /\ v4' \in Mains /\ v4'.at = "returned" /\ v4'.err = 0 /\ v4'.result = v4.result /\ v4'.cancelled = v4.cancelled
  BY <1>1, <1>2, FlowReturns
<1>4. Flow!TypeOK'
  BY <1>1, <1>2, <1>3, FlowType
<1>5. Flow!CommonOK'
  BY <1>1, <1>c, <1>3, FlowStaysCalm
<1>6. Flow!BasketOK'
  BY <1>3 DEF Flow!BasketOK, Flow!Returned, Flow!NoError
<1> QED
  BY <1>1, <1>4, <1>5, <1>6, FlowKept

(* All steps at once: their results in order or as they come, or the first of them only. *)
LEMMA FlowTakeResult ==
  ASSUME Flow!IInv, NEW a \in Flow!Steps, Flow!TakeResult(a)
  PROVE  Flow!IInv'
<1>1. /\ UNCHANGED <<v1, v2, v3>> /\ v1.kind \in {"ordered", "selector"} /\ v4.at = "await"
      /\ a \notin v4.taken /\ Flow!Ready(a)
  BY DEF Flow!TakeResult
<1>2. /\ Flow!TypeOK /\ v4 \in Mains /\ v2 \in [1..6 -> Flow!States] /\ v3 \in [1..6 -> BOOLEAN]
      /\ Flow!Steps' = Flow!Steps /\ Flow!Steps \subseteq 1..6
  BY <1>1, FlowFacts
<1>c. /\ v4.result = 0 /\ v4.err = 0 /\ ~v4.cancelled
      /\ \A b \in 1..6 : v2[b] \in {"idle", "running", "ok", "failed"}
      /\ \A b \in 1..6 : v2[b] = "ok" => v3[b]
  BY <1>1, FlowCalm
<1>3. v2[a] \in {"ok", "failed"} /\ v4.taken \subseteq Flow!Steps /\ \A b \in v4.taken : v2[b] = "ok"
  BY <1>1, <1>2, <1>c DEF Flow!IInv, Flow!ResultsOK, Flow!AllOk, Flow!Ready
<1>4. CASE v2[a] /= "ok"
  <2>1. v4' = [v4 EXCEPT !.at = "returned", !.err = a] /\ a \in 0..7 /\ a /= 0
    BY <1>2, <1>4 DEF Flow!TakeResult, Flow!Return
  <2>2. /\ v4' \in Mains /\ v4'.at = "returned" /\ v4'.err = a /\ v4'.result = v4.result /\ v4'.cancelled = v4.cancelled
        /\ v4'.taken = v4.taken
    BY <1>2, <2>1, FlowReturns
  <2>3. Flow!TypeOK'
    BY <1>1, <1>2, <2>2, FlowType
  <2>4. Flow!CommonOK'
    BY <1>1, <1>c, <2>2, FlowStaysCalm
  <2>5. Flow!ResultsOK'
    BY <1>1, <1>2, <1>3, <1>4, <2>1, <2>2 DEF Flow!ResultsOK, Flow!AllOk, Flow!Returned, Flow!NoError
  <2> QED
    BY <1>1, <2>3, <2>4, <2>5, FlowKept
<1>5. CASE v2[a] = "ok"
  <2> DEFINE at == IF v4.taken \union {a} = Flow!Steps THEN "returned" ELSE v4.at
             taken == v4.taken \union {a}
  <2>1. v4' = [v4 EXCEPT !.taken = taken, !.at = at]
    BY <1>5 DEF Flow!TakeResult
  <2>2. /\ at \in {"await", "returned"} /\ taken \in SUBSET (1..6) /\ taken \subseteq Flow!Steps
        /\ (at = "returned" => taken = Flow!Steps) /\ \A b \in taken : v2[b] = "ok"
    BY <1>1, <1>2, <1>3, <1>5
  <2> HIDE DEF at, taken
  <2>3. v4' \in Mains
    BY <1>2, <2>1, <2>2 DEF Mains
  <2>4. v4'.at = at /\ v4'.taken = taken /\ v4'.err = v4.err /\ v4'.result = v4.result /\ v4'.cancelled = v4.cancelled
    BY <1>2, <2>1 DEF Mains
  <2>5. Flow!TypeOK'
    BY <1>1, <1>2, <2>3, FlowType
  <2>6. Flow!CommonOK'
    BY <1>1, <1>c, <2>2, <2>4, FlowStaysCalm
  <2>7. Flow!ResultsOK'
    BY <1>1, <1>2, <1>c, <2>2, <2>4 DEF Flow!ResultsOK, Flow!AllOk, Flow!Returned, Flow!NoError
  <2> QED
    BY <1>1, <2>5, <2>6, <2>7, FlowKept
<1> QED
  BY <1>4, <1>5

LEMMA FlowPickFirst ==
  ASSUME Flow!IInv, NEW a \in Flow!Steps, Flow!PickFirst(a)
  PROVE  Flow!IInv'
<1> DEFINE r == IF v2[a] = "ok" THEN a ELSE 0
<1>1. /\ UNCHANGED <<v1, v3>> /\ v1.kind = "first" /\ v4.at = "await"
      /\ v4' = [v4 EXCEPT !.at = "collect", !.result = r] /\ v2' = Flow!Cancelled(Flow!Steps, "cancelling")
  BY DEF Flow!PickFirst, Flow!Is
<1>2. /\ Flow!TypeOK /\ Flow!CommonOK /\ v4 \in Mains
      /\ Flow!Steps' = Flow!Steps /\ Flow!Steps \subseteq 1..6
  BY <1>1, FlowFacts
<1>3. v4.err = 0 /\ ~v4.cancelled
  BY <1>1, <1>2 DEF Flow!CommonOK, Flow!Is, Flow!NoError
<1>4. r \in 0..6 /\ (r /= 0 => r = a /\ v2[r] = "ok")
  BY <1>2
<1> HIDE DEF r
<1>5. v4' \in Mains
  BY <1>1, <1>2, <1>4 DEF Mains
<1>6. v4'.at = "collect" /\ v4'.result = r /\ v4'.err = v4.err /\ v4'.cancelled = v4.cancelled
  BY <1>1, <1>2 DEF Mains
<1>7. /\ v2' \in [1..6 -> Flow!States] /\ v3' \in [1..6 -> BOOLEAN]
      /\ \A b \in 1..6 : v2'[b] = IF b \in Flow!Steps /\ v2[b] = "running" THEN "cancelling" ELSE v2[b]
      /\ \A b \in 1..6 : v2'[b] = "ok" => v3'[b]
  BY <1>1, <1>2, FlowCancels
<1>8. Flow!TypeOK'
  BY <1>1, <1>2, <1>5, <1>7, FlowType
<1>9. Flow!CommonOK'
  BY <1>1, <1>3, <1>6, <1>7 DEF Flow!CommonOK, Flow!Is, Flow!NoError, Flow!MaxSteps
<1>10. Flow!FirstOK'
  <2>1. r /= 0 => r \in Flow!Steps /\ v2'[r] = "ok"
    BY <1>2, <1>4, <1>7
  <2> QED
    BY <1>2, <1>3, <1>6, <2>1 DEF Flow!FirstOK, Flow!NoError, Flow!Returned
<1> QED
  BY <1>1, <1>8, <1>9, <1>10, FlowKept

LEMMA FlowOthersCancelled ==
  ASSUME Flow!IInv, Flow!OthersCancelled
  PROVE  Flow!IInv'
<1>1. /\ UNCHANGED <<v1, v2, v3>> /\ v1.kind = "first" /\ v4.at = "collect"
      /\ v4' = [v4 EXCEPT !.at = "returned", !.err = 0] /\ \A a \in Flow!Steps : Flow!Ready(a)
  BY DEF Flow!OthersCancelled, Flow!Is, Flow!Return, Flow!NoError
<1>2. /\ Flow!TypeOK /\ Flow!CommonOK /\ v4 \in Mains
      /\ Flow!Steps' = Flow!Steps /\ v2 \in [1..6 -> Flow!States] /\ v3 \in [1..6 -> BOOLEAN]
  BY <1>1, FlowFacts
<1>3. ~v4.cancelled /\ (v4.result /= 0 => v4.result \in Flow!Steps /\ v2[v4.result] = "ok")
  BY <1>1, <1>2 DEF Flow!CommonOK, Flow!Is, Flow!FirstOK, Flow!IInv
<1>4. /\ v4' \in Mains /\ v4'.at = "returned" /\ v4'.err = 0 /\ v4'.result = v4.result /\ v4'.cancelled = v4.cancelled
  BY <1>1, <1>2, FlowReturns
<1>5. Flow!TypeOK'
  BY <1>1, <1>2, <1>4, FlowType
<1>6. Flow!CommonOK'
  BY <1>1, <1>2, <1>3, <1>4 DEF Flow!CommonOK, Flow!Is, Flow!NoError, Flow!MaxSteps
<1>7. Flow!FirstOK'
  <2>1. \A a \in Flow!Steps : Flow!Ready(a)'
    BY <1>1 DEF Flow!Ready
  <2> QED
    BY <1>1, <1>2, <1>3, <1>4, <2>1 DEF Flow!FirstOK, Flow!NoError, Flow!Returned
<1> QED
  BY <1>1, <1>5, <1>6, <1>7, FlowKept

(* dsl: the first step, two branches at once, the last step. *)
LEMMA FlowEnterParallel ==
  ASSUME Flow!IInv, Flow!EnterParallel
  PROVE  Flow!IInv'
<1> DEFINE n == v4.next
<1>1. /\ UNCHANGED <<v1, v3>> /\ v1.kind = "parallel" /\ v4.at = "await" /\ Flow!Ready(n)
  BY DEF Flow!EnterParallel, Flow!Is
<1>2. /\ Flow!TypeOK /\ Flow!CommonOK /\ v4 \in Mains /\ Flow!Steps' = Flow!Steps
      /\ v2 \in [1..6 -> Flow!States] /\ v3 \in [1..6 -> BOOLEAN]
  BY <1>1, FlowFacts
<1>s. Flow!Steps = 1..6
  <2>1. v1 \in Flow!Samples
    BY <1>1, FlowFacts
  <2>2. Len(v1.steps) = 6
    BY <1>1, <2>1, FlowSample
  <2>3. Flow!Steps = 1..Len(v1.steps)
    BY <2>1, FlowSteps
  <2> QED
    BY <2>2, <2>3
<1>c. /\ v4.result = 0 /\ v4.err = 0 /\ ~v4.cancelled
      /\ \A b \in 1..6 : v2[b] \in {"idle", "running", "ok", "failed"}
      /\ \A b \in 1..6 : v2[b] = "ok" => v3[b]
  BY <1>1, FlowCalm
<1>3. \/ n = 1 /\ (\A a \in 2..6 : v2[a] = "idle") /\ v4.taken = {} /\ \A b \in Flow!Branches : v4.branch[b] = 1
      \/ n = 6 /\ \A a \in 1..5 : v2[a] = "ok"
  BY <1>1 DEF Flow!IInv, Flow!Is, Flow!ParallelOK, Flow!AllOk, Flow!Idle, Flow!MaxSteps
<1>4. n \in {1, 6} /\ v2[n] \in {"ok", "failed"}
  BY <1>1, <1>c, <1>3 DEF Flow!Ready
<1> HIDE DEF n
<1>5. CASE v2[n] /= "ok" \/ n = 6
  <2> DEFINE e == IF v2[n] /= "ok" THEN n ELSE 0
  <2>1. UNCHANGED v2 /\ v4' = [v4 EXCEPT !.at = "returned", !.err = e]
    BY <1>5 DEF Flow!EnterParallel, Flow!Return, Flow!NoError, n
  <2>2. e \in 0..7 /\ (e /= 0 => e \in 1..6 /\ v2[e] = "failed") /\ (e = 0 => \A a \in 1..6 : v2[a] = "ok")
    <3>1. CASE v2[n] /= "ok"
      BY <1>4, <3>1
    <3>2. CASE v2[n] = "ok"
      <4>1. n = 6 /\ v2[6] = "ok" /\ \A a \in 1..5 : v2[a] = "ok"
        BY <1>3, <1>5, <3>2
      <4>2. \A a \in 1..6 : a = 6 \/ a \in 1..5
        OBVIOUS
      <4> QED
        BY <3>2, <4>1, <4>2
    <3> QED
      BY <3>1, <3>2
  <2> HIDE DEF e
  <2>3. /\ v4' \in Mains /\ v4'.at = "returned" /\ v4'.err = e /\ v4'.result = v4.result /\ v4'.cancelled = v4.cancelled
    BY <1>2, <2>1, <2>2, FlowReturns
  <2>4. Flow!TypeOK'
    BY <1>1, <1>2, <2>1, <2>3, FlowType
  <2>5. Flow!CommonOK'
    BY <1>1, <1>c, <2>1, <2>3, FlowStaysCalm
  <2>6. Flow!ParallelOK'
    BY <1>2, <1>s, <2>1, <2>2, <2>3 DEF Flow!ParallelOK, Flow!AllOk, Flow!NoError, Flow!Returned
  <2> QED
    BY <1>1, <2>4, <2>5, <2>6, FlowKept
<1>6. CASE v2[n] = "ok" /\ n = 1
  <2>1. v2' = Flow!Started({Flow!BranchOf[b][1] : b \in Flow!Branches}) /\ v4' = [v4 EXCEPT !.at = "parallel"]
    BY <1>6 DEF Flow!EnterParallel, n
  <2>2. {Flow!BranchOf[b][1] : b \in Flow!Branches} = {2, 4}
    <3>1. Flow!Branches = {1, 2}
      BY DEF Flow!Branches
    <3>2. Flow!BranchOf[1][1] = 2 /\ Flow!BranchOf[2][1] = 4
      BY <1>1, <3>1, FlowBranches
    <3> QED
      BY <3>1, <3>2
  <2>3. \A a \in 1..6 : a \in {2, 4} => v2[a] /= "ok"
    BY <1>3, <1>6
  <2>4. /\ v2' \in [1..6 -> Flow!States] /\ v3' \in [1..6 -> BOOLEAN]
        /\ \A a \in 1..6 : v2'[a] = IF a \in {2, 4} THEN "running" ELSE v2[a]
        /\ \A a \in 1..6 : v2'[a] = "ok" => v3'[a]
    BY <1>1, <1>2, <2>1, <2>2, <2>3, FlowActs
  <2>5. v4' \in Mains
    BY <1>2, <2>1 DEF Mains
  <2>6. /\ v4'.at = "parallel" /\ v4'.result = v4.result /\ v4'.err = v4.err /\ v4'.cancelled = v4.cancelled
        /\ v4'.taken = v4.taken /\ v4'.branch = v4.branch
    BY <1>2, <2>1 DEF Mains
  <2>7. Flow!TypeOK'
    BY <1>1, <1>2, <2>4, <2>5, FlowType
  <2>8. Flow!CommonOK'
    BY <1>1, <1>c, <2>4, <2>6, FlowStaysCalm
  <2>9. Flow!ParallelOK'
    <3>1. v2'[1] = "ok" /\ v2'[2] = "running" /\ v2'[3] = "idle" /\ v2'[4] = "running" /\ v2'[5] = "idle" /\ v2'[6] = "idle"
      BY <1>3, <1>6, <2>4
    <3>2. \A b \in Flow!Branches : v2'[2 * b] /= "idle" /\ v2'[2 * b + 1] = "idle"
      BY <3>1 DEF Flow!Branches
    <3> QED
      BY <1>3, <1>6, <2>6, <3>1, <3>2 DEF Flow!ParallelOK, Flow!AllOk, Flow!Idle, Flow!Returned
  <2> QED
    BY <1>1, <2>7, <2>8, <2>9, FlowKept
<1> QED
  BY <1>4, <1>5, <1>6

(* What an invariant of the parallel part says of one branch. *)
ParallelBranch(b) ==
  \/ v4.branch[b] = 1 /\ b \notin v4.taken /\ v2[2 * b] /= "idle" /\ v2[2 * b + 1] = "idle"
  \/ v4.branch[b] = 2 /\ v2[2 * b] = "ok" /\ v2[2 * b + 1] /= "idle" /\ (b \in v4.taken => v2[2 * b + 1] = "ok")

LEMMA FlowInParallel ==
  ASSUME Flow!IInv, v4.at = "parallel"
  PROVE  /\ v1.kind = "parallel" /\ v2[1] = "ok" /\ v2[6] = "idle" /\ v4.taken \subseteq {1, 2}
         /\ \A b \in {1, 2} : ParallelBranch(b)
<1>1. v1 \in Flow!Samples
  BY DEF Flow!IInv, Flow!TypeOK
<1>2. v1.kind = "parallel"
  BY <1>1, FlowSample DEF Flow!IInv, Flow!Is, Flow!SequenceOK, Flow!ChoiceOK, Flow!BasketOK, Flow!ResultsOK,
     Flow!FirstOK, Flow!GoroutinesOK, Flow!TimerOK, Flow!SagaOK, Flow!CleanupOK, Flow!RaceOK
<1> QED
  BY <1>2 DEF Flow!IInv, Flow!Is, Flow!ParallelOK, Flow!AllOk, Flow!Idle, Flow!Branches, ParallelBranch

LEMMA FlowBranchGoesOn ==
  ASSUME Flow!IInv, NEW b \in Flow!Branches, Flow!BranchGoesOn(b)
  PROVE  Flow!IInv'
<1>1. /\ v4.at = "parallel" /\ UNCHANGED <<v1, v3>>
  BY DEF Flow!BranchGoesOn
<1>2. /\ Flow!TypeOK /\ Flow!CommonOK /\ v4 \in Mains
      /\ v2 \in [1..6 -> Flow!States] /\ v3 \in [1..6 -> BOOLEAN]
  BY <1>1, FlowFacts
<1>3. /\ v1.kind = "parallel" /\ v2[1] = "ok" /\ v2[6] = "idle" /\ v4.taken \subseteq {1, 2}
      /\ \A c \in {1, 2} : ParallelBranch(c)
  BY <1>1, FlowInParallel
<1>c. /\ v4.result = 0 /\ v4.err = 0 /\ ~v4.cancelled
      /\ \A a \in 1..6 : v2[a] \in {"idle", "running", "ok", "failed"}
      /\ \A a \in 1..6 : v2[a] = "ok" => v3[a]
  BY <1>1, <1>3, FlowCalm
<1>4. /\ b \in {1, 2} /\ Len(Flow!BranchOf[b]) = 2 /\ Flow!BranchOf[b][1] = 2 * b /\ Flow!BranchOf[b][2] = 2 * b + 1
  BY <1>3, FlowBranches
<1>5. v4.branch[b] = 1 /\ b \notin v4.taken /\ v2[2 * b] = "ok" /\ v2[2 * b + 1] = "idle"
  <2>1. v4.branch[b] < 2 /\ v2[Flow!BranchOf[b][v4.branch[b]]] = "ok"
    BY <1>4 DEF Flow!BranchGoesOn
  <2>2. v4.branch[b] = 1
    BY <1>3, <1>4, <2>1 DEF ParallelBranch
  <2> QED
    BY <1>3, <1>4, <2>1, <2>2 DEF ParallelBranch
<1>6. v2' = Flow!Started({2 * b + 1}) /\ v4' = [v4 EXCEPT !.branch[b] = 2]
  <2>1. v2' = Flow!Started({Flow!BranchOf[b][v4.branch[b] + 1]}) /\ v4' = [v4 EXCEPT !.branch[b] = v4.branch[b] + 1]
    BY DEF Flow!BranchGoesOn
  <2>2. v4.branch[b] + 1 = 2
    BY <1>5
  <2> QED
    BY <1>4, <2>1, <2>2
<1>7. /\ v2' \in [1..6 -> Flow!States] /\ v3' \in [1..6 -> BOOLEAN]
      /\ \A a \in 1..6 : v2'[a] = IF a \in {2 * b + 1} THEN "running" ELSE v2[a]
      /\ \A a \in 1..6 : v2'[a] = "ok" => v3'[a]
  <2>1. \A a \in 1..6 : a \in {2 * b + 1} => v2[a] /= "ok"
    BY <1>5
  <2> QED
    BY <1>1, <1>2, <1>6, <2>1, FlowActs
<1>8. v4.branch \in [Flow!Branches -> 1..3]
  BY <1>2 DEF Mains
<1>9. /\ v4'.at = v4.at /\ v4'.result = v4.result /\ v4'.err = v4.err /\ v4'.cancelled = v4.cancelled
      /\ v4'.taken = v4.taken /\ v4'.branch = [v4.branch EXCEPT ![b] = 2]
  BY <1>2, <1>6 DEF Mains
<1>10. v4'.branch \in [Flow!Branches -> 1..3] /\ \A c \in Flow!Branches : v4'.branch[c] = IF c = b THEN 2 ELSE v4.branch[c]
  BY <1>8, <1>9
<1>11. v4' \in Mains
  <2>1. v4' = [v4 EXCEPT !.branch = [v4.branch EXCEPT ![b] = 2]]
    BY <1>6
  <2>2. [v4.branch EXCEPT ![b] = 2] \in [Flow!Branches -> 1..3]
    BY <1>8
  <2> QED
    BY <1>2, <2>1, <2>2 DEF Mains
<1>12. Flow!TypeOK'
  BY <1>1, <1>2, <1>7, <1>11, FlowType
<1>13. Flow!CommonOK'
  BY <1>1, <1>3, <1>c, <1>7, <1>9, FlowStaysCalm
<1>14. Flow!ParallelOK'
  <2>1. \A c \in {1, 2} : ParallelBranch(c)'
    <3> SUFFICES ASSUME NEW c \in {1, 2} PROVE ParallelBranch(c)'
      OBVIOUS
    <3>1. CASE c = b
      <4>1. v4'.branch[c] = 2 /\ c \notin v4'.taken /\ v2'[2 * c] = "ok" /\ v2'[2 * c + 1] /= "idle"
        BY <1>4, <1>5, <1>7, <1>9, <1>10, <3>1
      <4> QED
        BY <4>1 DEF ParallelBranch
    <3>2. CASE c /= b
      <4>1. v2'[2 * c] = v2[2 * c] /\ v2'[2 * c + 1] = v2[2 * c + 1]
        BY <1>4, <1>7, <3>2
      <4>2. v4'.branch[c] = v4.branch[c] /\ v4'.taken = v4.taken
        BY <1>9, <1>10, <3>2 DEF Flow!Branches
      <4>3. ParallelBranch(c)
        BY <1>3
      <4> QED
        BY <4>1, <4>2, <4>3 DEF ParallelBranch
    <3> QED
      BY <3>1, <3>2
  <2>2. v2'[1] = "ok" /\ v2'[6] = "idle"
    BY <1>3, <1>4, <1>7
  <2> QED
    BY <1>1, <1>3, <1>9, <2>1, <2>2 DEF Flow!ParallelOK, Flow!AllOk, Flow!Idle, Flow!Branches, Flow!Returned, ParallelBranch
<1> QED
  BY <1>1, <1>3, <1>12, <1>13, <1>14, FlowKept


LEMMA FlowAwaits ==
  ASSUME v4 \in Mains, NEW a \in {"start", "await", "collect", "parallel", "undo", "returned"}, NEW n \in 1..6,
         v4' = [v4 EXCEPT !.at = a, !.next = n]
  PROVE  /\ v4' \in Mains /\ v4'.at = a /\ v4'.err = v4.err /\ v4'.next = n
         /\ v4'.taken = v4.taken /\ v4'.result = v4.result /\ v4'.branch = v4.branch
         /\ v4'.fired = v4.fired /\ v4'.cancelled = v4.cancelled
<1>1. v4' \in Mains
  BY DEF Mains
<1> QED
  BY <1>1 DEF Mains

LEMMA FlowParallelSelects ==
  ASSUME Flow!IInv, NEW b \in Flow!Branches, Flow!ParallelSelects(b)
  PROVE  Flow!IInv'
<1> DEFINE k == Flow!BranchOf[b][v4.branch[b]]
<1>1. v4.at = "parallel" /\ UNCHANGED <<v1, v3>> /\ b \notin v4.taken /\ Flow!Ready(k)
  BY DEF Flow!ParallelSelects
<1>2. /\ Flow!TypeOK /\ Flow!CommonOK /\ v4 \in Mains /\ Flow!Steps' = Flow!Steps
      /\ v2 \in [1..6 -> Flow!States] /\ v3 \in [1..6 -> BOOLEAN]
  BY <1>1, FlowFacts
<1>3. /\ v1.kind = "parallel" /\ v2[1] = "ok" /\ v2[6] = "idle" /\ v4.taken \subseteq {1, 2}
      /\ \A c \in {1, 2} : ParallelBranch(c)
  BY <1>1, FlowInParallel
<1>c. /\ v4.result = 0 /\ v4.err = 0 /\ ~v4.cancelled
      /\ \A a \in 1..6 : v2[a] \in {"idle", "running", "ok", "failed"}
      /\ \A a \in 1..6 : v2[a] = "ok" => v3[a]
  BY <1>1, <1>3, FlowCalm
<1>s. Flow!Steps = 1..6
  <2>1. v1 \in Flow!Samples
    BY <1>1, FlowFacts
  <2>2. Len(v1.steps) = 6
    BY <1>3, <2>1, FlowSample
  <2>3. Flow!Steps = 1..Len(v1.steps)
    BY <2>1, FlowSteps
  <2> QED
    BY <2>2, <2>3
<1>4. /\ b \in {1, 2} /\ Len(Flow!BranchOf[b]) = 2 /\ Flow!BranchOf[b][1] = 2 * b /\ Flow!BranchOf[b][2] = 2 * b + 1
  BY <1>3, FlowBranches
<1>5. k \in 1..6 /\ (v4.branch[b] = 1 \/ (v4.branch[b] = 2 /\ k = 2 * b + 1)) /\ v2[k] \in {"ok", "failed"}
  <2>1. ParallelBranch(b)
    BY <1>3, <1>4
  <2>a. v4.branch[b] = 1 \/ v4.branch[b] = 2
    BY <2>1 DEF ParallelBranch
  <2>2. (v4.branch[b] = 1 /\ k = 2 * b) \/ (v4.branch[b] = 2 /\ k = 2 * b + 1)
    BY <1>4, <2>a
  <2>3. k \in 1..6
    BY <1>4, <2>2
  <2> QED
    BY <1>1, <1>c, <2>2, <2>3 DEF Flow!Ready
<1>6. v2[k] = "ok" => v4.branch[b] = 2
  BY <1>4 DEF Flow!ParallelSelects
<1>7. CASE v2[k] /= "ok"
  <2>1. v2' = Flow!Cancelled(Flow!Steps, "abandoned") /\ v4' = [v4 EXCEPT !.at = "returned", !.err = k]
    BY <1>7 DEF Flow!ParallelSelects, Flow!Return
  <2>2. k \in 0..7
    BY <1>5
  <2> HIDE DEF k
  <2>3. /\ v4' \in Mains /\ v4'.at = "returned" /\ v4'.err = k /\ v4'.result = v4.result /\ v4'.cancelled = v4.cancelled
    BY <1>2, <2>1, <2>2, FlowReturns
  <2>4. /\ v2' \in [1..6 -> Flow!States] /\ v3' \in [1..6 -> BOOLEAN]
        /\ \A a \in 1..6 : v2'[a] = IF a \in Flow!Steps /\ v2[a] = "running" THEN "abandoned" ELSE v2[a]
        /\ \A a \in 1..6 : v2'[a] = "ok" => v3'[a]
    BY <1>1, <1>2, <2>1, FlowCancels
  <2>5. Flow!TypeOK'
    BY <1>1, <1>2, <2>3, <2>4, FlowType
  <2>6. Flow!CommonOK'
    BY <1>1, <1>3, <1>c, <2>3, <2>4, FlowStaysCalm
  <2>7. Flow!ParallelOK'
    <3>1. k /= 0 /\ k \in Flow!Steps /\ v2'[k] = "failed"
      BY <1>5, <1>7, <1>s, <2>4
    <3> QED
      BY <1>2, <2>3, <3>1 DEF Flow!ParallelOK, Flow!NoError, Flow!Returned
  <2> QED
    BY <1>1, <1>3, <2>5, <2>6, <2>7, FlowKept
<1>8. CASE v2[k] = "ok" /\ v4.taken \union {b} = Flow!Branches
  <2>1. v2' = Flow!Started({6}) /\ v4' = [v4 EXCEPT !.at = "await", !.next = 6]
    BY <1>8 DEF Flow!ParallelSelects
  <2>2. v4' \in Mains
    BY <1>2, <2>1, FlowAwaits
  <2>3. /\ v4'.at = "await" /\ v4'.next = 6 /\ v4'.result = v4.result /\ v4'.err = v4.err /\ v4'.cancelled = v4.cancelled
    BY <1>2, <2>1, FlowAwaits
  <2>4. /\ v2' \in [1..6 -> Flow!States] /\ v3' \in [1..6 -> BOOLEAN]
        /\ \A a \in 1..6 : v2'[a] = IF a \in {6} THEN "running" ELSE v2[a]
        /\ \A a \in 1..6 : v2'[a] = "ok" => v3'[a]
    <3>1. \A a \in 1..6 : a \in {6} => v2[a] /= "ok"
      BY <1>3
    <3> QED
      BY <1>1, <1>2, <2>1, <3>1, FlowActs
  <2>5. Flow!TypeOK'
    BY <1>1, <1>2, <2>2, <2>4, FlowType
  <2>6. Flow!CommonOK'
    BY <1>1, <1>3, <1>c, <2>3, <2>4, FlowStaysCalm
  <2>7. \A c \in {1, 2} : v2[2 * c] = "ok" /\ v2[2 * c + 1] = "ok"
    <3> SUFFICES ASSUME NEW c \in {1, 2} PROVE v2[2 * c] = "ok" /\ v2[2 * c + 1] = "ok"
      OBVIOUS
    <3>1. ParallelBranch(c) /\ (c \in v4.taken \/ c = b)
      BY <1>3, <1>8 DEF Flow!Branches
    <3> QED
      BY <1>5, <1>6, <1>8, <3>1 DEF ParallelBranch
  <2>8. v2[2] = "ok" /\ v2[3] = "ok" /\ v2[4] = "ok" /\ v2[5] = "ok"
    <3>1. v2[2 * 1] = "ok" /\ v2[2 * 1 + 1] = "ok" /\ v2[2 * 2] = "ok" /\ v2[2 * 2 + 1] = "ok"
      BY <2>7
    <3> QED
      BY <3>1
  <2>9. Flow!ParallelOK'
    <3>1. \A a \in 1..5 : v2'[a] = "ok"
      BY <1>3, <2>4, <2>8
    <3>2. v2'[6] = "running"
      BY <2>4
    <3> QED
      BY <2>3, <3>1, <3>2 DEF Flow!ParallelOK, Flow!AllOk, Flow!Returned
  <2> QED
    BY <1>1, <1>3, <2>5, <2>6, <2>9, FlowKept
<1>9. CASE v2[k] = "ok" /\ v4.taken \union {b} /= Flow!Branches
  <2> DEFINE taken == v4.taken \union {b}
  <2>1. UNCHANGED v2 /\ v4' = [v4 EXCEPT !.taken = taken]
    BY <1>9 DEF Flow!ParallelSelects
  <2>2. taken \in SUBSET (1..6) /\ taken \subseteq {1, 2}
    BY <1>3, <1>4
  <2> HIDE DEF taken
  <2>3. v4' \in Mains
    BY <1>2, <2>1, <2>2 DEF Mains
  <2>4. /\ v4'.at = v4.at /\ v4'.taken = taken /\ v4'.result = v4.result /\ v4'.err = v4.err
        /\ v4'.cancelled = v4.cancelled /\ v4'.branch = v4.branch
    BY <1>2, <2>1 DEF Mains
  <2>5. Flow!TypeOK'
    BY <1>1, <1>2, <2>1, <2>3, FlowType
  <2>6. Flow!CommonOK'
    BY <1>1, <1>3, <1>c, <2>1, <2>4, FlowStaysCalm
  <2>7. \A c \in {1, 2} : ParallelBranch(c)'
    <3> SUFFICES ASSUME NEW c \in {1, 2} PROVE ParallelBranch(c)'
      OBVIOUS
    <3>1. ParallelBranch(c) /\ (c \in taken => c \in v4.taken \/ c = b)
      BY <1>3 DEF taken
    <3>2. c = b => v4.branch[c] = 2 /\ v2[2 * c + 1] = "ok"
      BY <1>5, <1>6, <1>9
    <3> QED
      BY <2>1, <2>4, <3>1, <3>2 DEF ParallelBranch
  <2>8. Flow!ParallelOK'
    BY <1>1, <1>3, <2>1, <2>2, <2>4, <2>7 DEF Flow!ParallelOK, Flow!AllOk, Flow!Idle, Flow!Branches, Flow!Returned, ParallelBranch
  <2> QED
    BY <1>1, <1>3, <2>5, <2>6, <2>8, FlowKept
<1> QED
  BY <1>7, <1>8, <1>9

(* goroutine: what an invariant says of one coroutine. *)
Coroutine(b) ==
  \/ v4.branch[b] = 1 /\ b \notin v4.taken /\ v2[2 * b - 1] /= "idle" /\ v2[2 * b] = "idle"
  \/ v4.branch[b] = 2 /\ v2[2 * b - 1] = "ok" /\ v2[2 * b] /= "idle" /\ (b \in v4.taken => v2[2 * b] = "ok")
  \/ v4.branch[b] = 3 /\ b \notin v4.taken

LEMMA FlowCoroutines ==
  ASSUME Flow!IInv, NEW S \in SUBSET Flow!Branches, Flow!CoroutinesRun(S)
  PROVE  Flow!IInv'
<1> DEFINE now(b) == Flow!BranchOf[b][v4.branch[b]]
           last == CHOOSE b \in S : \A c \in S : c <= b
           err == IF v2[now(last)] = "ok" THEN 0 ELSE now(last)
           taken == v4.taken \union {b \in S : v2[now(b)] = "ok" /\ v4.branch[b] = 2}
           branch == [b \in Flow!Branches |-> IF b \notin S \/ b \in taken THEN v4.branch[b]
                                              ELSE IF v2[now(b)] = "ok" THEN 2 ELSE 3]
           at == IF err /= 0 \/ taken = Flow!Branches THEN "returned" ELSE v4.at
           new == {Flow!BranchOf[b][2] : b \in {c \in S : v2[now(c)] = "ok" /\ v4.branch[c] = 1}}
<1>1. /\ UNCHANGED <<v1, v3>> /\ v1.kind = "goroutines" /\ v4.at = "await" /\ S /= {}
      /\ \A b \in S : v4.branch[b] < 3 /\ Flow!Ready(now(b)) /\ b \notin v4.taken
      /\ v2' = Flow!Started(new)
      /\ v4' = [v4 EXCEPT !.branch = branch, !.taken = taken, !.err = err, !.at = at]
  BY DEF Flow!CoroutinesRun, Flow!Is, Flow!Dead, Flow!NoError
<1>2. /\ Flow!TypeOK /\ Flow!CommonOK /\ v4 \in Mains /\ Flow!Steps' = Flow!Steps
      /\ v2 \in [1..6 -> Flow!States] /\ v3 \in [1..6 -> BOOLEAN]
  BY <1>1, FlowFacts
<1>c. /\ v4.result = 0 /\ v4.err = 0 /\ ~v4.cancelled
      /\ \A a \in 1..6 : v2[a] \in {"idle", "running", "ok", "failed"}
      /\ \A a \in 1..6 : v2[a] = "ok" => v3[a]
  BY <1>1, FlowCalm
<1>s. Flow!Steps = 1..4
  <2>1. v1 \in Flow!Samples
    BY <1>1, FlowFacts
  <2>2. Len(v1.steps) = 4
    BY <1>1, <2>1, FlowSample
  <2>3. Flow!Steps = 1..Len(v1.steps)
    BY <2>1, FlowSteps
  <2> QED
    BY <2>2, <2>3
<1>3. v4.taken \subseteq {1, 2} /\ \A b \in {1, 2} : Coroutine(b)
  BY <1>1 DEF Flow!IInv, Flow!Is, Flow!GoroutinesOK, Flow!Branches, Flow!Dead, Coroutine
<1>b. S \subseteq {1, 2} /\ Flow!Branches = {1, 2}
  BY DEF Flow!Branches
<1>4. ASSUME NEW b \in {1, 2}
      PROVE  Flow!BranchOf[b][1] = 2 * b - 1 /\ Flow!BranchOf[b][2] = 2 * b
  BY <1>1, <1>b, FlowBranches
<1>5. ASSUME NEW b \in S
      PROVE  /\ b \in {1, 2} /\ now(b) \in 1..4 /\ v2[now(b)] \in {"ok", "failed"} /\ b \notin v4.taken
             /\ (v4.branch[b] = 1 /\ now(b) = 2 * b - 1 /\ v2[2 * b] = "idle")
                \/ (v4.branch[b] = 2 /\ now(b) = 2 * b /\ v2[2 * b - 1] = "ok")
  <2>1. b \in {1, 2} /\ Coroutine(b) /\ v4.branch[b] < 3 /\ Flow!Ready(now(b)) /\ b \notin v4.taken
    BY <1>1, <1>3, <1>b
  <2>2. (v4.branch[b] = 1 /\ now(b) = 2 * b - 1 /\ v2[2 * b] = "idle")
         \/ (v4.branch[b] = 2 /\ now(b) = 2 * b /\ v2[2 * b - 1] = "ok")
    BY <1>4, <2>1 DEF Coroutine
  <2>3. now(b) \in 1..4
    BY <2>1, <2>2
  <2> QED
    BY <1>c, <2>1, <2>2, <2>3 DEF Flow!Ready
<1>6. last \in S
  <2>1. \E b \in S : \A c \in S : c <= b
    <3>1. CASE 2 \in S
      BY <1>b, <3>1
    <3>2. CASE 2 \notin S
      <4>1. PICK b \in S : TRUE
        BY <1>1
      <4>2. \A c \in S : c = 1
        BY <1>b, <3>2
      <4>3. b \in S /\ b = 1
        BY <4>1, <4>2
      <4> QED
        BY <4>2, <4>3
    <3> QED
      BY <3>1, <3>2
  <2> QED
    BY <2>1
<1> HIDE DEF last
<1>7. err \in 0..7 /\ (err /= 0 => err \in 1..4 /\ v2[err] = "failed")
  BY <1>5, <1>6
<1>8. taken \subseteq {1, 2} /\ taken \in SUBSET (1..6) /\ \A b \in {1, 2} : b \in taken <=>
                    b \in v4.taken \/ (b \in S /\ v2[now(b)] = "ok" /\ v4.branch[b] = 2)
  <2> HIDE DEF now
  <2>1. taken \subseteq {1, 2}
    BY <1>3, <1>b
  <2>2. taken \in SUBSET (1..6)
    BY <2>1
  <2>3. \A b \in {1, 2} : b \in taken <=> b \in v4.taken \/ (b \in S /\ v2[now(b)] = "ok" /\ v4.branch[b] = 2)
    OBVIOUS
  <2> QED
    BY <2>1, <2>2, <2>3
<1>9. v4.branch \in [Flow!Branches -> 1..3]
  BY <1>2 DEF Mains
<1>10. /\ branch \in [Flow!Branches -> 1..3]
       /\ \A b \in {1, 2} : branch[b] = IF b \notin S \/ b \in taken THEN v4.branch[b]
                                       ELSE IF v2[now(b)] = "ok" THEN 2 ELSE 3
  <2> HIDE DEF taken, now
  <2> QED
    BY <1>9, <1>b
<1>11. at \in {"await", "returned"} /\ (at = "await" => err = 0) /\ (at = "returned" /\ err = 0 => taken = Flow!Branches)
  BY <1>1
<1>12. \A a \in 1..6 : a \in new <=> \E b \in S : v2[now(b)] = "ok" /\ v4.branch[b] = 1 /\ a = 2 * b
  BY <1>4, <1>b
<1> HIDE DEF err, taken, branch, at, new
<1>13. v4' \in Mains
  BY <1>1, <1>2, <1>7, <1>8, <1>10, <1>11 DEF Mains
<1>14. /\ v4'.at = at /\ v4'.taken = taken /\ v4'.err = err /\ v4'.branch = branch
       /\ v4'.result = v4.result /\ v4'.cancelled = v4.cancelled
  BY <1>1, <1>2 DEF Mains
<1>15. /\ v2' \in [1..6 -> Flow!States] /\ v3' \in [1..6 -> BOOLEAN]
       /\ \A a \in 1..6 : v2'[a] = IF a \in new THEN "running" ELSE v2[a]
       /\ \A a \in 1..6 : v2'[a] = "ok" => v3'[a]
  <2>1. \A a \in 1..6 : a \in new => v2[a] /= "ok"
    BY <1>5, <1>12
  <2> QED
    BY <1>1, <1>2, <2>1, FlowActs
<1>16. Flow!TypeOK'
  BY <1>1, <1>2, <1>13, <1>15, FlowType
<1>17. Flow!CommonOK'
  BY <1>1, <1>c, <1>11, <1>14, <1>15, FlowStaysCalm
<1>18. ASSUME NEW b \in {1, 2} PROVE Coroutine(b)'
  <2>0. /\ v2'[2 * b - 1] = v2[2 * b - 1]
        /\ v2'[2 * b] = IF b \in S /\ v2[now(b)] = "ok" /\ v4.branch[b] = 1 THEN "running" ELSE v2[2 * b]
    <3>1. 2 * b - 1 \in 1..6 /\ 2 * b \in 1..6 /\ \A c \in {1, 2} : 2 * c /= 2 * b - 1 /\ (2 * c = 2 * b => c = b)
      OBVIOUS
    <3>2. 2 * b - 1 \notin new /\ (2 * b \in new <=> b \in S /\ v2[now(b)] = "ok" /\ v4.branch[b] = 1)
      BY <1>b, <1>12, <3>1
    <3> QED
      BY <1>15, <3>1, <3>2
  <2>1. Coroutine(b) /\ v4'.branch[b] = branch[b] /\ v4'.taken = taken
    BY <1>3, <1>14
  <2>2. CASE b \notin S
    <3>1. v4'.branch[b] = v4.branch[b] /\ (b \in taken <=> b \in v4.taken) /\ v2'[2 * b] = v2[2 * b]
      BY <1>8, <1>10, <2>0, <2>1, <2>2
    <3> QED
      BY <2>0, <2>1, <3>1 DEF Coroutine
  <2>3. CASE b \in S /\ v4.branch[b] = 1
    <3>1. b \notin taken /\ now(b) = 2 * b - 1
      BY <1>5, <1>8, <2>3
    <3>2. CASE v2[now(b)] = "ok"
      <4>1. v4'.branch[b] = 2 /\ v2'[2 * b] = "running" /\ v2'[2 * b - 1] = "ok"
        BY <1>10, <2>0, <2>1, <2>3, <3>1, <3>2
      <4> QED
        BY <2>1, <3>1, <4>1 DEF Coroutine
    <3>3. CASE v2[now(b)] /= "ok"
      <4>1. v4'.branch[b] = 3
        BY <1>10, <2>1, <2>3, <3>1, <3>3
      <4> QED
        BY <2>1, <3>1, <4>1 DEF Coroutine
    <3> QED
      BY <3>2, <3>3
  <2>4. CASE b \in S /\ v4.branch[b] = 2
    <3>1. now(b) = 2 * b /\ v2[2 * b - 1] = "ok" /\ v2'[2 * b] = v2[2 * b] /\ b \notin v4.taken
      BY <1>5, <2>0, <2>4
    <3>2. CASE v2[now(b)] = "ok"
      <4>1. v4'.branch[b] = 2 /\ v2'[2 * b] = "ok" /\ v2'[2 * b - 1] = "ok"
        BY <1>8, <1>10, <2>0, <2>1, <2>4, <3>1, <3>2
      <4> QED
        BY <4>1 DEF Coroutine
    <3>3. CASE v2[now(b)] /= "ok"
      <4>1. b \notin taken /\ v4'.branch[b] = 3
        BY <1>8, <1>10, <2>1, <2>4, <3>1, <3>3
      <4> QED
        BY <2>1, <4>1 DEF Coroutine
    <3> QED
      BY <3>2, <3>3
  <2> QED
    BY <1>5, <2>2, <2>3, <2>4
<1>19. Flow!GoroutinesOK'
  <2>1. v4'.at = "returned" /\ v4'.err /= 0 => v4'.err \in Flow!Steps /\ v2'[v4'.err] = "failed"
    <3>1. \A a \in 1..6 : v2[a] = "failed" => v2'[a] = "failed"
      <4>1. \A a \in new : a \in 1..6 => v2[a] = "idle"
        BY <1>5, <1>12
      <4> QED
        BY <1>15, <4>1
    <3> QED
      BY <1>7, <1>14, <1>s, <3>1
  <2> QED
    BY <1>2, <1>8, <1>11, <1>14, <1>18, <1>b, <2>1 DEF Flow!GoroutinesOK, Flow!Dead, Flow!NoError, Flow!Returned, Coroutine
<1> QED
  BY <1>1, <1>16, <1>17, <1>19, FlowKept


(* timer: the order, and the email when the timer is first. *)
LEMMA FlowOrderProcessed ==
  ASSUME Flow!IInv, Flow!OrderProcessed
  PROVE  Flow!IInv'
<1>1. /\ UNCHANGED <<v1, v2, v3>> /\ v1.kind = "timer" /\ v4.at = "await" /\ v4.next = 1 /\ Flow!Ready(1)
      /\ v4' = [v4 EXCEPT !.at = "returned", !.err = 0]
  BY DEF Flow!OrderProcessed, Flow!Is, Flow!Return, Flow!NoError
<1>2. /\ Flow!TypeOK /\ v4 \in Mains /\ v2 \in [1..6 -> Flow!States] /\ v3 \in [1..6 -> BOOLEAN]
  BY <1>1, FlowFacts
<1>c. /\ v4.result = 0 /\ v4.err = 0 /\ ~v4.cancelled
      /\ \A a \in 1..6 : v2[a] \in {"idle", "running", "ok", "failed"}
      /\ \A a \in 1..6 : v2[a] = "ok" => v3[a]
  BY <1>1, FlowCalm
<1>3. v2[2] = "idle" \/ Flow!Ready(2)
  BY <1>1 DEF Flow!IInv, Flow!Is, Flow!TimerOK
<1>4. /\ v4' \in Mains /\ v4'.at = "returned" /\ v4'.err = 0 /\ v4'.result = v4.result /\ v4'.cancelled = v4.cancelled
  BY <1>1, <1>2, FlowReturns
<1>5. Flow!TypeOK'
  BY <1>1, <1>2, <1>4, FlowType
<1>6. Flow!CommonOK'
  BY <1>1, <1>c, <1>4, FlowStaysCalm
<1>7. Flow!TimerOK'
  BY <1>1, <1>3, <1>4 DEF Flow!TimerOK, Flow!Returned, Flow!Ready, Flow!NoError
<1> QED
  BY <1>1, <1>5, <1>6, <1>7, FlowKept

LEMMA FlowDelayNotified ==
  ASSUME Flow!IInv, Flow!DelayNotified
  PROVE  Flow!IInv'
<1>1. /\ UNCHANGED <<v1, v3>> /\ v1.kind = "timer" /\ v4.at = "await" /\ v2[2] = "idle"
      /\ v2' = Flow!Started({2}) /\ v4' = [v4 EXCEPT !.next = 2]
  BY DEF Flow!DelayNotified, Flow!Is
<1>2. /\ Flow!TypeOK /\ Flow!CommonOK /\ v4 \in Mains /\ v2 \in [1..6 -> Flow!States] /\ v3 \in [1..6 -> BOOLEAN]
  BY <1>1, FlowFacts
<1>c. /\ v4.result = 0 /\ v4.err = 0 /\ ~v4.cancelled
      /\ \A a \in 1..6 : v2[a] \in {"idle", "running", "ok", "failed"}
      /\ \A a \in 1..6 : v2[a] = "ok" => v3[a]
  BY <1>1, FlowCalm
<1>3. v2[1] /= "idle"
  BY <1>1 DEF Flow!IInv, Flow!Is, Flow!TimerOK
<1>4. /\ v4' \in Mains /\ v4'.at = v4.at /\ v4'.next = 2 /\ v4'.err = v4.err /\ v4'.result = v4.result
      /\ v4'.cancelled = v4.cancelled
  BY <1>1, <1>2, FlowNext
<1>5. /\ v2' \in [1..6 -> Flow!States] /\ v3' \in [1..6 -> BOOLEAN]
      /\ \A a \in 1..6 : v2'[a] = IF a \in {2} THEN "running" ELSE v2[a]
      /\ \A a \in 1..6 : v2'[a] = "ok" => v3'[a]
  <2>1. \A a \in 1..6 : a \in {2} => v2[a] /= "ok"
    BY <1>1
  <2> QED
    BY <1>1, <1>2, <2>1, FlowActs
<1>6. Flow!TypeOK'
  BY <1>1, <1>2, <1>4, <1>5, FlowType
<1>7. Flow!CommonOK'
  BY <1>1, <1>c, <1>4, <1>5, FlowStaysCalm
<1>8. Flow!TimerOK'
  BY <1>1, <1>c, <1>3, <1>4, <1>5 DEF Flow!TimerOK, Flow!Returned, Flow!NoError
<1> QED
  BY <1>1, <1>6, <1>7, <1>8, FlowKept

LEMMA FlowEmailSent ==
  ASSUME Flow!IInv, Flow!EmailSent
  PROVE  Flow!IInv'
<1>1. /\ UNCHANGED <<v1, v2, v3>> /\ v1.kind = "timer" /\ v4.at = "await" /\ Flow!Ready(2)
      /\ v4' = [v4 EXCEPT !.next = 1]
  BY DEF Flow!EmailSent, Flow!Is
<1>2. /\ Flow!TypeOK /\ Flow!CommonOK /\ v4 \in Mains /\ v2 \in [1..6 -> Flow!States] /\ v3 \in [1..6 -> BOOLEAN]
  BY <1>1, FlowFacts
<1>c. /\ v4.result = 0 /\ v4.err = 0 /\ ~v4.cancelled
      /\ \A a \in 1..6 : v2[a] \in {"idle", "running", "ok", "failed"}
      /\ \A a \in 1..6 : v2[a] = "ok" => v3[a]
  BY <1>1, FlowCalm
<1>3. v2[1] /= "idle"
  BY <1>1 DEF Flow!IInv, Flow!Is, Flow!TimerOK
<1>4. /\ v4' \in Mains /\ v4'.at = v4.at /\ v4'.next = 1 /\ v4'.err = v4.err /\ v4'.result = v4.result
      /\ v4'.cancelled = v4.cancelled
  BY <1>1, <1>2, FlowNext
<1>6. Flow!TypeOK'
  BY <1>1, <1>2, <1>4, FlowType
<1>7. Flow!CommonOK'
  BY <1>1, <1>c, <1>4, FlowStaysCalm
<1>8. Flow!TimerOK'
  BY <1>1, <1>c, <1>3, <1>4 DEF Flow!TimerOK, Flow!Returned, Flow!NoError, Flow!Ready
<1> QED
  BY <1>1, <1>6, <1>7, <1>8, FlowKept

(* saga: forwards, and back by the compensations. *)
LEMMA FlowTransferGoesOn ==
  ASSUME Flow!IInv, Flow!TransferGoesOn
  PROVE  Flow!IInv'
<1> DEFINE n == v4.next
<1>1. /\ UNCHANGED <<v1, v3>> /\ v1.kind = "saga" /\ v4.at = "await" /\ Flow!Ready(n)
  BY DEF Flow!TransferGoesOn, Flow!Is
<1>2. /\ Flow!TypeOK /\ Flow!CommonOK /\ v4 \in Mains /\ v2 \in [1..6 -> Flow!States] /\ v3 \in [1..6 -> BOOLEAN]
  BY <1>1, FlowFacts
<1>c. /\ v4.result = 0 /\ v4.err = 0 /\ ~v4.cancelled
      /\ \A a \in 1..6 : v2[a] \in {"idle", "running", "ok", "failed"}
      /\ \A a \in 1..6 : v2[a] = "ok" => v3[a]
  BY <1>1, FlowCalm
<1>3. /\ n \in 1..3 /\ v2[n] /= "idle" /\ (\A a \in 1..(n - 1) : v2[a] = "ok") /\ (\A a \in (n + 1)..5 : v2[a] = "idle")
      /\ v2[3] /= "ok"
  BY <1>1 DEF Flow!IInv, Flow!Is, Flow!SagaOK, Flow!AllOk, Flow!Idle
<1>4. v2[n] \in {"ok", "failed"} /\ (n = 1 \/ n = 2 \/ n = 3)
  BY <1>1, <1>c, <1>3 DEF Flow!Ready
<1> HIDE DEF n
<1>5. CASE v2[n] = "ok"
  <2>1. v2' = Flow!Started({n + 1}) /\ v4' = [v4 EXCEPT !.next = n + 1]
    BY <1>5 DEF Flow!TransferGoesOn, n
  <2>2. n \in {1, 2} /\ n + 1 \in 1..6 /\ v2[n + 1] = "idle"
    BY <1>3, <1>4, <1>5
  <2>3. /\ v4' \in Mains /\ v4'.at = v4.at /\ v4'.next = n + 1 /\ v4'.err = v4.err /\ v4'.result = v4.result
        /\ v4'.cancelled = v4.cancelled
    BY <1>2, <2>1, <2>2, FlowNext
  <2>4. /\ v2' \in [1..6 -> Flow!States] /\ v3' \in [1..6 -> BOOLEAN]
        /\ \A a \in 1..6 : v2'[a] = IF a \in {n + 1} THEN "running" ELSE v2[a]
        /\ \A a \in 1..6 : v2'[a] = "ok" => v3'[a]
    <3>1. \A a \in 1..6 : a \in {n + 1} => v2[a] /= "ok"
      BY <2>2
    <3> QED
      BY <1>1, <1>2, <2>1, <3>1, FlowActs
  <2>5. Flow!TypeOK'
    BY <1>1, <1>2, <2>3, <2>4, FlowType
  <2>6. Flow!CommonOK'
    BY <1>1, <1>c, <2>3, <2>4, FlowStaysCalm
  <2>7. Flow!SagaOK'
    BY <1>1, <1>3, <1>5, <2>2, <2>3, <2>4 DEF Flow!SagaOK, Flow!AllOk, Flow!Idle, Flow!Returned
  <2> QED
    BY <1>1, <2>5, <2>6, <2>7, FlowKept
<1>6. CASE v2[n] /= "ok" /\ n = 1
  <2>1. UNCHANGED v2 /\ v4' = [v4 EXCEPT !.at = "returned", !.err = 1]
    BY <1>6 DEF Flow!TransferGoesOn, Flow!Return, n
  <2>3. /\ v4' \in Mains /\ v4'.at = "returned" /\ v4'.err = 1 /\ v4'.result = v4.result
        /\ v4'.cancelled = v4.cancelled
    BY <1>2, <2>1, FlowReturns
  <2>5. Flow!TypeOK'
    BY <1>1, <1>2, <2>1, <2>3, FlowType
  <2>6. Flow!CommonOK'
    BY <1>1, <1>c, <2>1, <2>3, FlowStaysCalm
  <2>7. Flow!SagaOK'
    BY <1>1, <1>3, <1>4, <1>6, <2>1, <2>3 DEF Flow!SagaOK, Flow!AllOk, Flow!Idle, Flow!Returned
  <2> QED
    BY <1>1, <2>5, <2>6, <2>7, FlowKept
<1>7. CASE v2[n] /= "ok" /\ n /= 1
  <2> DEFINE u == IF n = 3 THEN 4 ELSE 5
  <2>1. v2' = Flow!Started({u}) /\ v4' = [v4 EXCEPT !.at = "undo", !.err = n, !.next = n - 1]
    <3>1. v2' = Flow!Started({Flow!Compensation(n - 1)}) /\ v4' = [v4 EXCEPT !.at = "undo", !.err = n, !.next = n - 1]
      BY <1>7 DEF Flow!TransferGoesOn, n
    <3>2. Flow!Compensation(n - 1) = u
      BY <1>4, <1>7 DEF Flow!Compensation
    <3> QED
      BY <3>1, <3>2
  <2>2. n \in 0..7 /\ n - 1 \in 1..6 /\ (u = 4 \/ u = 5) /\ v2[u] = "idle" /\ v2[4] = "idle" /\ v2[5] = "idle"
    BY <1>3, <1>4, <1>7
  <2>a. (n = 3 => u = 4) /\ (n = 2 => u = 5)
    OBVIOUS
  <2> HIDE DEF u
  <2>3. v4' \in Mains
    BY <1>2, <2>1, <2>2 DEF Mains
  <2>4. v4'.at = "undo" /\ v4'.next = n - 1 /\ v4'.err = n /\ v4'.result = v4.result /\ v4'.cancelled = v4.cancelled
    BY <1>2, <2>1 DEF Mains
  <2>5. /\ v2' \in [1..6 -> Flow!States] /\ v3' \in [1..6 -> BOOLEAN]
        /\ \A a \in 1..6 : v2'[a] = IF a \in {u} THEN "running" ELSE v2[a]
        /\ \A a \in 1..6 : v2'[a] = "ok" => v3'[a]
    <3>1. \A a \in 1..6 : a \in {u} => v2[a] /= "ok"
      BY <2>2
    <3> QED
      BY <1>1, <1>2, <2>1, <3>1, FlowActs
  <2>6. Flow!TypeOK'
    BY <1>1, <1>2, <2>3, <2>5, FlowType
  <2>7. Flow!CommonOK'
    BY <1>1, <1>c, <2>4, <2>5, FlowStaysCalm
  <2>8. Flow!SagaOK'
    <3>1. CASE n = 2
      BY <1>1, <1>3, <1>4, <1>7, <2>2, <2>a, <2>4, <2>5, <3>1 DEF Flow!SagaOK, Flow!AllOk, Flow!Idle, Flow!Returned
    <3>2. CASE n = 3
      BY <1>1, <1>3, <1>4, <1>7, <2>2, <2>a, <2>4, <2>5, <3>2 DEF Flow!SagaOK, Flow!AllOk, Flow!Idle, Flow!Returned
    <3> QED
      BY <1>4, <1>7, <3>1, <3>2
  <2> QED
    BY <1>1, <2>6, <2>7, <2>8, FlowKept
<1> QED
  BY <1>5, <1>6, <1>7

LEMMA FlowTransferUndone ==
  ASSUME Flow!IInv, Flow!TransferUndone
  PROVE  Flow!IInv'
<1> DEFINE n == v4.next
           e == v4.err
<1>1. /\ UNCHANGED <<v1, v3>> /\ v1.kind = "saga" /\ v4.at = "undo" /\ Flow!Ready(Flow!Compensation(n))
  BY DEF Flow!TransferUndone, Flow!Is
<1>2. /\ Flow!TypeOK /\ Flow!CommonOK /\ v4 \in Mains /\ v2 \in [1..6 -> Flow!States] /\ v3 \in [1..6 -> BOOLEAN]
  BY <1>1, FlowFacts
<1>c. /\ v4.result = 0 /\ ~v4.cancelled
      /\ \A a \in 1..6 : v2[a] \in {"idle", "running", "ok", "failed"}
      /\ \A a \in 1..6 : v2[a] = "ok" => v3[a]
  BY <1>1, FlowCalm
<1>3. /\ e \in 1..3 /\ v2[e] = "failed" /\ (\A a \in 1..(e - 1) : v2[a] = "ok") /\ (\A a \in (e + 1)..3 : v2[a] = "idle")
      /\ v2[3] /= "ok"
      /\ \/ n = 2 /\ e = 3 /\ v2[4] /= "idle" /\ v2[5] = "idle"
         \/ n = 1 /\ e = 3 /\ Flow!Ready(4) /\ v2[5] /= "idle"
         \/ n = 1 /\ e = 2 /\ v2[4] = "idle" /\ v2[5] /= "idle"
  BY <1>1 DEF Flow!IInv, Flow!Is, Flow!SagaOK, Flow!AllOk, Flow!Idle
<1>4. (n = 2 => Flow!Ready(4)) /\ (n = 1 => Flow!Ready(5)) /\ (n = 1 \/ n = 2)
  BY <1>1, <1>3 DEF Flow!Compensation
<1> HIDE DEF n, e
<1>5. CASE n = 1
  <2>1. UNCHANGED v2 /\ v4' = [v4 EXCEPT !.at = "returned"]
    BY <1>5 DEF Flow!TransferUndone, n
  <2>2. v4' \in Mains
    BY <1>2, <2>1 DEF Mains
  <2>3. v4'.at = "returned" /\ v4'.err = e /\ v4'.result = v4.result /\ v4'.cancelled = v4.cancelled
    BY <1>2, <2>1 DEF Mains, e
  <2>5. Flow!TypeOK'
    BY <1>1, <1>2, <2>1, <2>2, FlowType
  <2>6. Flow!CommonOK'
    BY <1>1, <1>c, <2>1, <2>3, FlowStaysCalm
  <2>7. Flow!SagaOK'
    BY <1>1, <1>3, <1>4, <1>5, <2>1, <2>3 DEF Flow!SagaOK, Flow!AllOk, Flow!Idle, Flow!Returned, Flow!Ready
  <2> QED
    BY <1>1, <2>5, <2>6, <2>7, FlowKept
<1>6. CASE n = 2
  <2>1. v2' = Flow!Started({5}) /\ v4' = [v4 EXCEPT !.next = 1]
    BY <1>6 DEF Flow!TransferUndone, Flow!Compensation, n
  <2>3. /\ v4' \in Mains /\ v4'.at = v4.at /\ v4'.next = 1 /\ v4'.err = e /\ v4'.result = v4.result
        /\ v4'.cancelled = v4.cancelled
    BY <1>2, <2>1, FlowNext DEF e
  <2>4. /\ v2' \in [1..6 -> Flow!States] /\ v3' \in [1..6 -> BOOLEAN]
        /\ \A a \in 1..6 : v2'[a] = IF a \in {5} THEN "running" ELSE v2[a]
        /\ \A a \in 1..6 : v2'[a] = "ok" => v3'[a]
    <3>1. \A a \in 1..6 : a \in {5} => v2[a] /= "ok"
      BY <1>3, <1>6
    <3> QED
      BY <1>1, <1>2, <2>1, <3>1, FlowActs
  <2>5. Flow!TypeOK'
    BY <1>1, <1>2, <2>3, <2>4, FlowType
  <2>6. Flow!CommonOK'
    BY <1>1, <1>c, <2>3, <2>4, FlowStaysCalm
  <2>7. Flow!SagaOK'
    BY <1>1, <1>3, <1>4, <1>6, <2>3, <2>4 DEF Flow!SagaOK, Flow!AllOk, Flow!Idle, Flow!Returned, Flow!Ready
  <2> QED
    BY <1>1, <2>5, <2>6, <2>7, FlowKept
<1> QED
  BY <1>4, <1>5, <1>6


(* cancellation: the clean-up has a context of its own. *)
LEMMA FlowCancelledReturns ==
  ASSUME Flow!IInv, Flow!CancelledActivityReturns
  PROVE  Flow!IInv'
<1>1. /\ UNCHANGED <<v1, v3>> /\ v1.kind = "cleanup" /\ v4.at = "await" /\ v4.next = 1 /\ Flow!Ready(1)
  BY DEF Flow!CancelledActivityReturns, Flow!Is
<1>2. /\ Flow!TypeOK /\ Flow!CommonOK /\ v4 \in Mains /\ v2 \in [1..6 -> Flow!States] /\ v3 \in [1..6 -> BOOLEAN]
  BY <1>1, FlowFacts
<1>3. /\ v2[1] /= "ok" /\ v2[2] = "idle" /\ v2[1] /= "idle"
      /\ v2[1] \in {"cancelling", "canceled", "abandoned"} => v4.cancelled
  BY <1>1 DEF Flow!IInv, Flow!Is, Flow!CleanupOK
<1>c. v4.result = 0 /\ \A a \in 1..6 : v2[a] = "ok" => v3[a]
  BY <1>1, <1>2 DEF Flow!CommonOK, Flow!Is, Flow!MaxSteps
<1>4. CASE v4.cancelled
  <2>1. v2' = Flow!Started({2}) /\ v4' = [v4 EXCEPT !.next = 2, !.err = 1]
    BY <1>4 DEF Flow!CancelledActivityReturns
  <2>2. v4' \in Mains
    <3>1. 2 \in 1..6 /\ 1 \in 0..7
      OBVIOUS
    <3> QED
      BY ONLY <1>2, <2>1, <3>1 DEF Mains
  <2>3. v4'.at = v4.at /\ v4'.next = 2 /\ v4'.err = 1 /\ v4'.result = v4.result /\ v4'.cancelled = v4.cancelled
    BY <1>2, <2>1 DEF Mains
  <2>4. /\ v2' \in [1..6 -> Flow!States] /\ v3' \in [1..6 -> BOOLEAN]
        /\ \A a \in 1..6 : v2'[a] = IF a \in {2} THEN "running" ELSE v2[a]
        /\ \A a \in 1..6 : v2'[a] = "ok" => v3'[a]
    <3>1. \A a \in 1..6 : a \in {2} => v2[a] /= "ok"
      BY <1>3
    <3> QED
      BY <1>1, <1>2, <2>1, <3>1, FlowActs
  <2>5. Flow!TypeOK'
    BY <1>1, <1>2, <2>2, <2>4, FlowType
  <2>6. Flow!CommonOK'
    BY <1>1, <1>c, <2>3, <2>4 DEF Flow!CommonOK, Flow!Is, Flow!MaxSteps
  <2>7. Flow!CleanupOK'
    BY <1>1, <1>3, <1>4, <2>3, <2>4 DEF Flow!CleanupOK, Flow!Returned, Flow!Ready
  <2> QED
    BY <1>1, <2>5, <2>6, <2>7, FlowKept
<1>5. CASE ~v4.cancelled
  <2>1. UNCHANGED v2 /\ v4' = [v4 EXCEPT !.at = "returned", !.err = 1]
    BY <1>5 DEF Flow!CancelledActivityReturns, Flow!Return
  <2>3. /\ v4' \in Mains /\ v4'.at = "returned" /\ v4'.err = 1 /\ v4'.result = v4.result
        /\ v4'.cancelled = v4.cancelled
    BY <1>2, <2>1, FlowReturns
  <2>5. Flow!TypeOK'
    BY <1>1, <1>2, <2>1, <2>3, FlowType
  <2>6. Flow!CommonOK'
    BY <1>1, <1>c, <2>1, <2>3 DEF Flow!CommonOK, Flow!Is, Flow!MaxSteps
  <2>7. Flow!CleanupOK'
    BY <1>1, <1>3, <1>5, <2>1, <2>3 DEF Flow!CleanupOK, Flow!Returned, Flow!Ready
  <2> QED
    BY <1>1, <2>5, <2>6, <2>7, FlowKept
<1> QED
  BY <1>4, <1>5

LEMMA FlowCleanupReturns ==
  ASSUME Flow!IInv, Flow!CleanupReturns
  PROVE  Flow!IInv'
<1>1. /\ UNCHANGED <<v1, v2, v3>> /\ v1.kind = "cleanup" /\ v4.at = "await" /\ v4.next = 2 /\ Flow!Ready(2)
      /\ v4' = [v4 EXCEPT !.at = "returned"]
  BY DEF Flow!CleanupReturns, Flow!Is
<1>2. /\ Flow!TypeOK /\ Flow!CommonOK /\ v4 \in Mains /\ v2 \in [1..6 -> Flow!States] /\ v3 \in [1..6 -> BOOLEAN]
  BY <1>1, FlowFacts
<1>3. v2[1] /= "ok" /\ v4.cancelled /\ Flow!Ready(1) /\ v4.err = 1
  BY <1>1 DEF Flow!IInv, Flow!Is, Flow!CleanupOK, Flow!NoError
<1>4. v4' \in Mains
  BY <1>1, <1>2 DEF Mains
<1>5. v4'.at = "returned" /\ v4'.err = v4.err /\ v4'.result = v4.result /\ v4'.cancelled = v4.cancelled
  BY <1>1, <1>2 DEF Mains
<1>6. Flow!TypeOK'
  BY <1>1, <1>2, <1>4, FlowType
<1>7. Flow!CommonOK'
  BY <1>1, <1>2, <1>5 DEF Flow!CommonOK, Flow!Is, Flow!MaxSteps
<1>8. Flow!CleanupOK'
  BY <1>1, <1>3, <1>5 DEF Flow!CleanupOK, Flow!Returned, Flow!Ready, Flow!NoError
<1> QED
  BY <1>1, <1>6, <1>7, <1>8, FlowKept

(* nexus-cancelation: each operation that resolves cancels the others. *)
LEMMA FlowResolves ==
  ASSUME Flow!IInv, NEW a \in Flow!Steps, Flow!OperationResolves(a)
  PROVE  Flow!IInv'
<1> DEFINE taken == v4.taken \union {a}
<1>1. /\ UNCHANGED <<v1, v3>> /\ v1.kind = "race" /\ v4.at = "await" /\ a \notin v4.taken /\ Flow!Ready(a)
      /\ v4' = [v4 EXCEPT !.taken = taken] /\ v2' = Flow!Cancelled(Flow!Steps, "cancelling")
  BY DEF Flow!OperationResolves, Flow!Is
<1>2. /\ Flow!TypeOK /\ Flow!CommonOK /\ v4 \in Mains /\ Flow!Steps' = Flow!Steps /\ Flow!Steps \subseteq 1..6
      /\ v2 \in [1..6 -> Flow!States]
  BY <1>1, FlowFacts
<1>3. /\ v4.taken \subseteq Flow!Steps
      /\ \A b \in Flow!Steps : v2[b] /= "canceled" /\ (b \in v4.taken => Flow!Ready(b))
      /\ v4.taken = {} => \A b \in Flow!Steps : v2[b] \notin {"cancelling", "abandoned"}
      /\ v4.taken /= {} => \E b \in v4.taken : v2[b] \in {"ok", "failed"}
  BY <1>1 DEF Flow!IInv, Flow!Is, Flow!RaceOK
<1>c. v4.result = 0 /\ v4.err = 0 /\ ~v4.cancelled
  BY <1>1, <1>2 DEF Flow!CommonOK, Flow!Is, Flow!NoError, Flow!Returned
<1>4. taken \in SUBSET (1..6) /\ taken \subseteq Flow!Steps /\ taken /= {}
  BY <1>2, <1>3
<1> HIDE DEF taken
<1>5. v4' \in Mains
  BY <1>1, <1>2, <1>4 DEF Mains
<1>6. v4'.at = "await" /\ v4'.taken = taken /\ v4'.err = v4.err /\ v4'.result = v4.result /\ v4'.cancelled = v4.cancelled
  BY <1>1, <1>2 DEF Mains
<1>7. /\ v2' \in [1..6 -> Flow!States] /\ v3' \in [1..6 -> BOOLEAN]
      /\ \A b \in 1..6 : v2'[b] = IF b \in Flow!Steps /\ v2[b] = "running" THEN "cancelling" ELSE v2[b]
      /\ \A b \in 1..6 : v2'[b] = "ok" => v3'[b]
  BY <1>1, <1>2, FlowCancels
<1>8. Flow!TypeOK'
  BY <1>1, <1>2, <1>5, <1>7, FlowType
<1>9. Flow!CommonOK'
  BY <1>1, <1>c, <1>6, <1>7 DEF Flow!CommonOK, Flow!Is, Flow!NoError, Flow!MaxSteps
<1>10. Flow!RaceOK'
  <2>1. \E b \in taken : v2'[b] \in {"ok", "failed"}
    <3>1. CASE v4.taken = {}
      <4>1. v2[a] \in {"ok", "failed"}
        BY <1>1, <1>3, <3>1 DEF Flow!Ready
      <4>2. v2'[a] = v2[a]
        BY <1>2, <1>7, <4>1
      <4> QED
        BY <4>1, <4>2 DEF taken
    <3>2. CASE v4.taken /= {}
      <4>1. PICK b \in v4.taken : v2[b] \in {"ok", "failed"}
        BY <1>3, <3>2
      <4>2. b \in 1..6 /\ v2'[b] = v2[b]
        BY <1>2, <1>3, <1>7, <4>1
      <4> QED
        BY <4>1, <4>2 DEF taken
    <3> QED
      BY <3>1, <3>2
  <2>2. \A b \in Flow!Steps : v2'[b] /= "canceled" /\ (b \in taken => Flow!Ready(b)')
    <3> SUFFICES ASSUME NEW b \in Flow!Steps PROVE v2'[b] /= "canceled" /\ (b \in taken => Flow!Ready(b)')
      OBVIOUS
    <3>1. b \in taken => Flow!Ready(b)
      BY <1>1, <1>3 DEF taken
    <3>2. b \in 1..6 /\ (v2'[b] = v2[b] \/ (v2'[b] = "cancelling" /\ v2[b] = "running"))
      BY <1>2, <1>7
    <3> QED
      BY <1>3, <3>1, <3>2 DEF Flow!Ready
  <2> QED
    BY <1>2, <1>4, <1>6, <2>1, <2>2 DEF Flow!RaceOK, Flow!Returned
<1> QED
  BY <1>1, <1>8, <1>9, <1>10, FlowKept

LEMMA FlowRaceOver ==
  ASSUME Flow!IInv, Flow!RaceOver
  PROVE  Flow!IInv'
<1> DEFINE failed == {a \in Flow!Steps : v2[a] = "failed"}
           won == {a \in Flow!Steps : v2[a] = "ok"}
<1>1. /\ UNCHANGED <<v1, v2, v3>> /\ v1.kind = "race" /\ v4.at = "await" /\ v4.taken = Flow!Steps
  BY DEF Flow!RaceOver, Flow!Is
<1>2. /\ Flow!TypeOK /\ Flow!CommonOK /\ v4 \in Mains /\ Flow!Steps' = Flow!Steps /\ Flow!Steps \subseteq 1..6
      /\ v2 \in [1..6 -> Flow!States] /\ v3 \in [1..6 -> BOOLEAN] /\ 1 \in Flow!Steps
  BY <1>1, FlowFacts
<1>3. /\ \A b \in Flow!Steps : v2[b] /= "canceled" /\ (b \in v4.taken => Flow!Ready(b))
      /\ \E b \in v4.taken : v2[b] \in {"ok", "failed"}
  <2>1. v4.taken /= {}
    BY <1>1, <1>2
  <2> QED
    BY <1>1, <2>1 DEF Flow!IInv, Flow!Is, Flow!RaceOK
<1>c. v4.result = 0 /\ v4.err = 0 /\ ~v4.cancelled /\ \A a \in 1..6 : v2[a] = "ok" => v3[a]
  BY <1>1, <1>2 DEF Flow!CommonOK, Flow!Is, Flow!NoError, Flow!Returned, Flow!MaxSteps
<1>f. failed \subseteq Nat /\ won \subseteq Nat /\ IsFiniteSet(failed) /\ IsFiniteSet(won)
  <2>1. failed \subseteq 1..6 /\ won \subseteq 1..6
    BY <1>2
  <2>2. 1 \in Int /\ 6 \in Int
    OBVIOUS
  <2>4. IsFiniteSet(1..6)
    BY <2>2, FS_Interval
  <2>3. \A a \in 1..6 : a \in Nat
    OBVIOUS
  <2> QED
    BY <2>1, <2>3, <2>4, FS_Subset
<1>4. CASE failed /= {}
  <2> DEFINE e == CHOOSE a \in failed : \A b \in failed : a <= b
  <2>1. v4' = [v4 EXCEPT !.at = "returned", !.err = e]
    BY <1>4 DEF Flow!RaceOver, Flow!Return
  <2>2. e \in failed
    <3>1. \E a \in failed : \A b \in failed : a <= b
      BY <1>4, <1>f, SmallestLargest
    <3> QED
      BY <3>1
  <2> HIDE DEF e
  <2>a. e \in Flow!Steps /\ v2[e] = "failed"
    BY <2>2
  <2>3. e \in Flow!Steps /\ v2[e] = "failed" /\ e \in 0..7 /\ e /= 0
    BY <1>2, <2>a
  <2>4. /\ v4' \in Mains /\ v4'.at = "returned" /\ v4'.err = e /\ v4'.result = v4.result /\ v4'.taken = v4.taken
        /\ v4'.cancelled = v4.cancelled
    BY <1>2, <2>1, <2>3, FlowReturns
  <2>5. Flow!TypeOK'
    BY <1>1, <1>2, <2>4, FlowType
  <2>6. Flow!CommonOK'
    BY <1>1, <1>c, <2>4 DEF Flow!CommonOK, Flow!Is, Flow!NoError, Flow!MaxSteps
  <2>7. Flow!RaceOK'
    BY <1>1, <1>2, <1>3, <2>3, <2>4 DEF Flow!RaceOK, Flow!Returned, Flow!NoError, Flow!Ready
  <2> QED
    BY <1>1, <2>5, <2>6, <2>7, FlowKept
<1>5. CASE failed = {}
  <2> DEFINE r == IF won = {} THEN 0 ELSE CHOOSE a \in won : \A b \in won : b <= a
  <2>1. v4' = [v4 EXCEPT !.at = "returned", !.result = r]
    BY <1>5 DEF Flow!RaceOver
  <2>2. won /= {}
    BY <1>1, <1>3, <1>5
  <2>3. r \in won
    <3>1. \E a \in won : \A b \in won : b <= a
      BY <1>f, <2>2, SmallestLargest
    <3> QED
      BY <2>2, <3>1
  <2> HIDE DEF r
  <2>a. r \in Flow!Steps /\ v2[r] = "ok"
    BY <2>3
  <2>4. r \in Flow!Steps /\ v2[r] = "ok" /\ r \in 0..6 /\ r /= 0
    BY <1>2, <2>a
  <2>5. v4' \in Mains
    BY <1>2, <2>1, <2>4 DEF Mains
  <2>6. v4'.at = "returned" /\ v4'.err = v4.err /\ v4'.result = r /\ v4'.taken = v4.taken /\ v4'.cancelled = v4.cancelled
    BY <1>2, <2>1 DEF Mains
  <2>7. Flow!TypeOK'
    BY <1>1, <1>2, <2>5, FlowType
  <2>8. Flow!CommonOK'
    BY <1>1, <1>c, <2>6 DEF Flow!CommonOK, Flow!Is, Flow!NoError, Flow!MaxSteps, Flow!Returned
  <2>9. Flow!RaceOK'
    BY <1>1, <1>2, <1>c, <1>3, <2>4, <2>6 DEF Flow!RaceOK, Flow!Returned, Flow!NoError, Flow!Ready
  <2> QED
    BY <1>1, <2>7, <2>8, <2>9, FlowKept
<1> QED
  BY <1>4, <1>5

LEMMA FlowInit == Flow!Init => Flow!IInv
<1> SUFFICES ASSUME Flow!Init PROVE Flow!IInv
  OBVIOUS
<1>1. /\ v1 \in Flow!Samples /\ v2 = [a \in 1..6 |-> "idle"] /\ v3 = [a \in 1..6 |-> FALSE]
      /\ v4 = [at |-> "start", next |-> 1, taken |-> {}, result |-> 0, err |-> 0,
               branch |-> [b \in Flow!Branches |-> 1], fired |-> FALSE, cancelled |-> FALSE]
  BY DEF Flow!Init, Flow!MaxSteps, Flow!NoError
<1>2. /\ v4.at = "start" /\ v4.next = 1 /\ v4.taken = {} /\ v4.result = 0 /\ v4.err = 0 /\ ~v4.cancelled
      /\ v4.branch = [b \in Flow!Branches |-> 1] /\ \A a \in 1..6 : v2[a] = "idle"
  BY <1>1
<1>3. v4 \in Mains
  <2>1. [b \in Flow!Branches |-> 1] \in [Flow!Branches -> 1..3]
    OBVIOUS
  <2> QED
    BY <1>1, <2>1 DEF Mains
<1>4. Flow!TypeOK
  BY <1>1, <1>3 DEF Flow!TypeOK, Flow!States, Flow!MaxSteps, Flow!InvalidChoice, Flow!Dead, Mains
<1>5. Flow!CommonOK
  BY <1>2 DEF Flow!CommonOK, Flow!Idle, Flow!MaxSteps, Flow!NoError
<1>6. Flow!Steps \subseteq 1..6
  BY <1>1, FlowSteps
<1> QED
  BY <1>2, <1>4, <1>5, <1>6 DEF Flow!IInv, Flow!SequenceOK, Flow!ChoiceOK, Flow!BasketOK, Flow!ResultsOK, Flow!FirstOK,
     Flow!ParallelOK, Flow!GoroutinesOK, Flow!TimerOK, Flow!SagaOK, Flow!CleanupOK, Flow!RaceOK, Flow!AllOk,
     Flow!Returned, Flow!NoError

LEMMA FlowStep ==
  ASSUME Flow!IInv, [Flow!Next]_Flow!vars
  PROVE  Flow!IInv'
<1>1. CASE UNCHANGED Flow!vars
  BY <1>1 DEF Flow!vars, Flow!IInv, Flow!TypeOK, Flow!CommonOK, Flow!SequenceOK, Flow!ChoiceOK, Flow!BasketOK,
     Flow!ResultsOK, Flow!FirstOK, Flow!ParallelOK, Flow!GoroutinesOK, Flow!TimerOK, Flow!SagaOK, Flow!CleanupOK,
     Flow!RaceOK, Flow!AllOk, Flow!Idle, Flow!Returned, Flow!Ready, Flow!Steps, Flow!Is
<1>2. CASE Flow!Control
  BY <1>2, FlowBegin, FlowSequence, FlowChoice, FlowFillBasket, FlowBasketOrdered, FlowTakeResult, FlowPickFirst,
     FlowResolves, FlowOthersCancelled, FlowEnterParallel, FlowBranchGoesOn, FlowParallelSelects, FlowCoroutines,
     FlowOrderProcessed, FlowDelayNotified, FlowEmailSent, FlowTransferGoesOn, FlowTransferUndone,
     FlowCancelledReturns, FlowCleanupReturns, FlowRaceOver DEF Flow!Control
<1>3. CASE \E a \in Flow!Steps : Flow!Outcome(a)
  BY <1>3, FlowOutcome
<1>4. CASE Flow!CancelWorkflow
  BY <1>4, FlowCancelWorkflow
<1>5. CASE Flow!TimerFires
  BY <1>5, FlowTimerFires
<1>6. CASE \E a \in Flow!Steps : Flow!AbandonedStepWorks(a)
  BY <1>6, FlowAbandoned
<1> QED
  BY <1>1, <1>2, <1>3, <1>4, <1>5, <1>6 DEF Flow!Next, Flow!Progress

(* What the invariant says of a program that has returned. *)
LEMMA FlowSafe ==
  ASSUME Flow!IInv
  PROVE  Flow!ResultEarned /\ Flow!FailureUndone /\ Flow!NothingLeftAtWork
<1>1. Flow!TypeOK /\ Flow!CommonOK /\ v1 \in Flow!Samples /\ v4 \in Mains /\ v2 \in [1..6 -> Flow!States]
  BY DEF Flow!IInv, Flow!TypeOK, Flow!MaxSteps, Flow!InvalidChoice, Flow!Dead, Mains
<1>2. /\ Flow!Steps = 1..Len(v1.steps) /\ Len(v1.steps) \in 1..6 /\ Flow!Steps \subseteq 1..6
  BY <1>1, FlowSteps
<1>3. \A a \in 1..6 : v2[a] = "ok" => v3[a]
  BY <1>1 DEF Flow!CommonOK, Flow!MaxSteps
<1>4. Flow!FailureUndone
  <2>1. ASSUME v1.kind = "saga" PROVE Flow!SagaOK
    BY <2>1 DEF Flow!IInv, Flow!Is
  <2>2. ASSUME v1.kind = "cleanup" PROVE Flow!CleanupOK
    BY <2>2 DEF Flow!IInv, Flow!Is
  <2>3. ASSUME v1.kind = "saga"
        PROVE  /\ \A a \in {1, 2} : v2[Flow!Compensation(a)] /= "idle" => v2[a] = "ok"
               /\ v2[5] /= "idle" /\ v2[2] = "ok" => Flow!Ready(4)
               /\ Flow!Returned => \A a \in {1, 2} : v2[a] = "ok" => Flow!Ready(Flow!Compensation(a))
    <3>0. v4.at = "start" => \A a \in 1..6 : v2[a] = "idle"
      BY <1>1 DEF Flow!CommonOK, Flow!Idle, Flow!MaxSteps
    <3>1. Flow!Compensation(1) = 5 /\ Flow!Compensation(2) = 4
      BY DEF Flow!Compensation
    <3>2. (v2[5] /= "idle" => v2[1] = "ok") /\ (v2[4] /= "idle" => v2[2] = "ok")
      BY <2>1, <2>3, <3>0 DEF Flow!SagaOK, Flow!AllOk, Flow!Idle, Flow!Returned, Flow!Ready
    <3>3. v2[5] /= "idle" /\ v2[2] = "ok" => Flow!Ready(4)
      BY <2>1, <2>3, <3>0 DEF Flow!SagaOK, Flow!AllOk, Flow!Idle, Flow!Returned
    <3>4. Flow!Returned => (v2[1] = "ok" => Flow!Ready(5)) /\ (v2[2] = "ok" => Flow!Ready(4))
      BY <2>1, <2>3, <3>0 DEF Flow!SagaOK, Flow!AllOk, Flow!Idle, Flow!Returned
    <3> QED
      BY <3>1, <3>2, <3>3, <3>4
  <2>4. ASSUME v1.kind = "cleanup", Flow!Returned PROVE v2[2] /= "idle" <=> v4.cancelled
    BY <2>2, <2>4 DEF Flow!CleanupOK, Flow!Ready
  <2> QED
    BY <2>3, <2>4 DEF Flow!FailureUndone, Flow!Is
<1>5. Flow!NothingLeftAtWork
  <2> SUFFICES ASSUME Flow!Returned, v1.kind \in {"sequence", "choice", "first", "timer", "saga", "cleanup", "race"},
                      NEW a \in Flow!Steps
               PROVE  ~Flow!AtWork(a)
    BY DEF Flow!NothingLeftAtWork
  <2>0. a \in 1..6
    BY <1>2
  <2>1. CASE v1.kind = "sequence"
    <3>1. Flow!SequenceOK
      BY <2>1 DEF Flow!IInv, Flow!Is
    <3> QED
      BY <1>2, <2>0, <3>1 DEF Flow!SequenceOK, Flow!AllOk, Flow!Idle, Flow!Returned, Flow!AtWork, Flow!MaxSteps
  <2>2. CASE v1.kind = "choice"
    <3>1. Flow!ChoiceOK /\ Len(v1.steps) = 2
      BY <1>1, <2>2, FlowSample DEF Flow!IInv, Flow!Is
    <3>2. a = 1 \/ a = 2
      BY <1>2, <3>1
    <3> QED
      BY <3>1, <3>2 DEF Flow!ChoiceOK, Flow!AllOk, Flow!Idle, Flow!Returned, Flow!AtWork
  <2>3. CASE v1.kind = "first"
    <3>1. Flow!FirstOK
      BY <2>3 DEF Flow!IInv, Flow!Is
    <3> QED
      BY <3>1 DEF Flow!FirstOK, Flow!Returned, Flow!AtWork, Flow!Ready
  <2>4. CASE v1.kind = "timer"
    <3>1. Flow!TimerOK /\ Len(v1.steps) = 2
      BY <1>1, <2>4, FlowSample DEF Flow!IInv, Flow!Is
    <3>2. a = 1 \/ a = 2
      BY <1>2, <3>1
    <3> QED
      BY <3>1, <3>2 DEF Flow!TimerOK, Flow!Returned, Flow!AtWork, Flow!Ready
  <2>5. CASE v1.kind = "saga"
    <3>1. Flow!SagaOK /\ Len(v1.steps) = 5
      BY <1>1, <2>5, FlowSample DEF Flow!IInv, Flow!Is
    <3>2. a = 1 \/ a = 2 \/ a = 3 \/ a = 4 \/ a = 5
      BY <1>2, <3>1
    <3> QED
      BY <3>1, <3>2 DEF Flow!SagaOK, Flow!AllOk, Flow!Idle, Flow!Returned, Flow!AtWork, Flow!Ready
  <2>6. CASE v1.kind = "cleanup"
    <3>1. Flow!CleanupOK /\ Len(v1.steps) = 2
      BY <1>1, <2>6, FlowSample DEF Flow!IInv, Flow!Is
    <3>2. a = 1 \/ a = 2
      BY <1>2, <3>1
    <3> QED
      BY <3>1, <3>2 DEF Flow!CleanupOK, Flow!Returned, Flow!AtWork, Flow!Ready
  <2>7. CASE v1.kind = "race"
    <3>1. Flow!RaceOK
      BY <2>7 DEF Flow!IInv, Flow!Is
    <3> QED
      BY <3>1 DEF Flow!RaceOK, Flow!Returned, Flow!AtWork, Flow!Ready
  <2> QED
    BY <2>1, <2>2, <2>3, <2>4, <2>5, <2>6, <2>7
<1>6. Flow!ResultEarned
  <2>1. ASSUME Flow!Succeeded, v1.kind \in {"sequence", "choice", "ordered", "selector", "parallel", "goroutines"},
               NEW a \in Flow!Steps
        PROVE  v2[a] = "ok"
    <3>0. Flow!Returned /\ v4.err = 0
      BY <2>1 DEF Flow!Succeeded, Flow!NoError
    <3>1. CASE v1.kind = "sequence"
      BY <3>0, <3>1 DEF Flow!IInv, Flow!Is, Flow!SequenceOK, Flow!AllOk, Flow!NoError
    <3>2. CASE v1.kind = "choice"
      <4>1. Flow!ChoiceOK /\ Len(v1.steps) = 2
        BY <1>1, <3>2, FlowSample DEF Flow!IInv, Flow!Is
      <4>2. a = 1 \/ a = 2
        BY <1>2, <4>1
      <4> QED
        BY <3>0, <4>1, <4>2 DEF Flow!ChoiceOK, Flow!AllOk, Flow!NoError, Flow!InvalidChoice, Flow!MaxSteps
    <3>3. CASE v1.kind \in {"ordered", "selector"}
      BY <3>0, <3>3 DEF Flow!IInv, Flow!ResultsOK, Flow!AllOk, Flow!NoError
    <3>4. CASE v1.kind = "parallel"
      BY <3>0, <3>4 DEF Flow!IInv, Flow!Is, Flow!ParallelOK, Flow!AllOk, Flow!NoError
    <3>5. CASE v1.kind = "goroutines"
      <4>1. Flow!GoroutinesOK /\ Len(v1.steps) = 4
        BY <1>1, <3>5, FlowSample DEF Flow!IInv, Flow!Is
      <4>2. a = 1 \/ a = 2 \/ a = 3 \/ a = 4
        BY <1>2, <4>1
      <4>3. \A b \in {1, 2} : v2[2 * b - 1] = "ok" /\ v2[2 * b] = "ok"
        BY <3>0, <4>1 DEF Flow!GoroutinesOK, Flow!Branches, Flow!NoError, Flow!Returned
      <4>4. v2[2 * 1 - 1] = "ok" /\ v2[2 * 1] = "ok" /\ v2[2 * 2 - 1] = "ok" /\ v2[2 * 2] = "ok"
        BY <4>3
      <4> QED
        BY <4>2, <4>4
    <3> QED
      BY <2>1, <3>1, <3>2, <3>3, <3>4, <3>5
  <2>2. ASSUME Flow!Succeeded, v1.kind = "race" PROVE v4.result /= 0
    BY <1>2, <2>2 DEF Flow!IInv, Flow!Is, Flow!RaceOK, Flow!Succeeded, Flow!NoError
  <2>3. ASSUME Flow!Succeeded, v4.result /= 0 PROVE v2[v4.result] = "ok"
    <3>1. Flow!Returned /\ v4.err = 0 /\ (v1.kind = "first" \/ v1.kind = "race")
      BY <1>1, <2>3 DEF Flow!CommonOK, Flow!Is, Flow!Succeeded, Flow!NoError
    <3> QED
      BY <2>3, <3>1 DEF Flow!IInv, Flow!Is, Flow!FirstOK, Flow!RaceOK, Flow!NoError
  <2>4. ASSUME Flow!Returned, v4.err \in Flow!Steps, ~v4.cancelled PROVE v2[v4.err] = "failed"
    <3>0. v4.err \in 1..6 /\ v4.err /= 0 /\ v4.err /= 7
      BY <1>2, <2>4
    <3>1. CASE v1.kind \in {"sequence", "ordered", "selector", "parallel", "goroutines", "race"}
      BY <2>4, <3>0, <3>1 DEF Flow!IInv, Flow!Is, Flow!SequenceOK, Flow!ResultsOK, Flow!ParallelOK, Flow!GoroutinesOK,
         Flow!RaceOK, Flow!NoError
    <3>2. CASE v1.kind \in {"choice", "basket", "saga"}
      BY <2>4, <3>0, <3>2 DEF Flow!IInv, Flow!Is, Flow!ChoiceOK, Flow!BasketOK, Flow!SagaOK, Flow!NoError,
         Flow!InvalidChoice, Flow!MaxSteps, Flow!Returned
    <3>3. CASE v1.kind \in {"first", "timer"}
      BY <3>0, <3>3 DEF Flow!IInv, Flow!Is, Flow!FirstOK, Flow!TimerOK, Flow!NoError
    <3>4. CASE v1.kind = "cleanup"
      BY <2>4, <3>0, <3>4 DEF Flow!IInv, Flow!Is, Flow!CleanupOK, Flow!Ready, Flow!NoError
    <3> QED
      BY <1>1, <3>1, <3>2, <3>3, <3>4, FlowSample
  <2>5. Flow!Steps \subseteq 1..6
    BY <1>2
  <2> QED
    BY <1>3, <2>1, <2>2, <2>3, <2>4, <2>5 DEF Flow!ResultEarned, Flow!Is
<1> QED
  BY <1>4, <1>5, <1>6

================================================================================
