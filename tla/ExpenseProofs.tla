----------------------------- MODULE ExpenseProofs -----------------------------
(***************************************************************************)
(* For all sets of decisions and numbers of faults: an expense is only     *)
(* paid when someone has approved it.                                      *)
(***************************************************************************)
EXTENDS Expense, TLAPS

Parts == TypeOfRequests /\ RepeatedForFaults /\ ApprovalMade /\ PaymentAfterApproval

\* An approval that has been made stays made, when no type changes and no
\* handler goes back.
LEMMA ApprovedStays ==
  ASSUME Approved, type' = type,
         \A d \in Decisions : pc[d] \notin {"idle", "write", "gone"} => pc'[d] \notin {"idle", "write", "gone"}
  PROVE  Approved'
BY DEF Approved

\* One handler that goes on from a place that is not "over" takes no approval back.
LEMMA ApprovedStaysStep ==
  ASSUME TypeOK, Approved, NEW r \in Requests, NEW next,
         next \notin {"idle", "write", "gone"} \/ pc[r] \in {"idle", "write"},
         pc' = [pc EXCEPT ![r] = next], type' = type
  PROVE  Approved'
<1>1. \A d \in Decisions : pc[d] \notin {"idle", "write", "gone"} => pc'[d] \notin {"idle", "write", "gone"}
  BY DEF TypeOK, Requests
<1> QED BY <1>1, ApprovedStays

\* What is bounded by the faults stays bounded.
LEMMA FaultsGrow ==
  ASSUME NEW n \in Nat, NEW old \in Nat, NEW new \in {old, old + 1}
  PROVE  (n <= old => n <= new) /\ (n <= old + 1 => n <= new + 1)
OBVIOUS

\* There is always a number for the next attempt.
LEMMA NextAttempt ==
  ASSUME NEW n \in Nat, NEW f \in 0 .. MaxFaults, n <= f
  PROVE  n + 1 \in Attempts /\ n + 1 # 0 /\ n + 1 <= f + 1 /\ 0 <= f /\ 0 <= f + 1
BY BoundsAssumption DEF Attempts

\* The invariant holds in the initial states (main.go starts with empty maps).
THEOREM InitInvariant == Init => IInv
BY BoundsAssumption DEF Init, IInv, TypeOK, TypeOfRequests, RepeatedForFaults, ApprovalMade,
   PaymentAfterApproval, Requests, Attempts, States

\* A step that leaves everything as it is keeps the invariant.
LEMMA StutterKeeps == IInv /\ UNCHANGED vars => IInv'
BY DEF IInv, TypeOK, TypeOfRequests, RepeatedForFaults, ApprovalMade, PaymentAfterApproval, Approved,
   vars, serverVars, handlerVars, workflowVars, Requests, Attempts, States

\* Reading the state changes the program counter and oldState only.
LEMMA ReadStateKeeps ==
  ASSUME IInv, NEW d \in Decisions, ReadState(d), UNCHANGED <<workflowVars, faults>>
  PROVE  IInv'
<1> USE DEF serverVars, handlerVars, workflowVars
<1>1. TypeOK /\ d \in Requests /\ d \notin Attempts
  BY DecisionsAssumption, BoundsAssumption DEF IInv, Requests, Attempts
<1>2. PICK next \in {"gone", "write"} : pc' = [pc EXCEPT ![d] = next]
  BY DEF ReadState
<1>3. TypeOK'
  BY <1>1, <1>2 DEF ReadState, TypeOK, States
<1>4. \A p \in Attempts : pc'[p] = pc[p]
  BY <1>1, <1>2 DEF TypeOK
<1>5. Approved => Approved'
  BY <1>1, <1>2, ApprovedStaysStep DEF ReadState
<1>6. TypeOfRequests' /\ ApprovalMade' /\ PaymentAfterApproval'
  BY <1>4, <1>5 DEF ReadState, IInv, TypeOfRequests, ApprovalMade, PaymentAfterApproval
<1>7. RepeatedForFaults'
  BY <1>1, <1>4 DEF ReadState, IInv, RepeatedForFaults, TypeOK
<1> QED BY <1>3, <1>6, <1>7 DEF IInv

\* Writing the state of a decision: it is an approval, or none.
LEMMA WriteStateKeeps ==
  ASSUME IInv, NEW d \in Decisions, WriteState(d), UNCHANGED <<workflowVars, faults>>
  PROVE  IInv'
<1> USE DEF serverVars, handlerVars, workflowVars
<1>1. TypeOK /\ d \in Requests /\ d \notin Attempts
  BY DecisionsAssumption, BoundsAssumption DEF IInv, Requests, Attempts
<1>2. pc' = [pc EXCEPT ![d] = "check"] /\ pc'[d] = "check"
  BY <1>1 DEF WriteState, TypeOK
<1>3. NewState(d) = (IF type[d] = "approve" THEN "APPROVED" ELSE "REJECTED")
  BY <1>1 DEF NewState, IInv, TypeOfRequests, TypeOK
<1>4. TypeOK'
  BY <1>1, <1>2, <1>3 DEF WriteState, TypeOK, States
<1>5. \A p \in Attempts : pc'[p] = pc[p]
  BY <1>1, <1>2 DEF TypeOK
<1>6. Approved => Approved'
  BY <1>1, <1>2, ApprovedStaysStep DEF WriteState
<1>7. allExpense' = "APPROVED" => Approved'
  BY <1>2, <1>3 DEF WriteState, Approved
<1>8. TypeOfRequests' /\ ApprovalMade' /\ PaymentAfterApproval'
  BY <1>3, <1>5, <1>6, <1>7 DEF WriteState, IInv, TypeOfRequests, ApprovalMade, PaymentAfterApproval
<1>9. RepeatedForFaults'
  BY <1>1, <1>3, <1>5 DEF WriteState, IInv, RepeatedForFaults, TypeOK
<1> QED BY <1>4, <1>8, <1>9 DEF IInv

\* The rest of actionHandler, before it completes the activity.
LEMMA ReportKeeps ==
  ASSUME IInv, NEW r \in Requests,
         CheckApproved(r) \/ CheckRejected(r) \/ ReadToReport(r) \/ LookUpToken(r)
  PROVE  IInv'
<1> USE DEF serverVars, handlerVars, workflowVars
<1>1. TypeOK BY DEF IInv
<1>2. /\ UNCHANGED <<serverVars, type, oldState, workflowVars, faults>>
      /\ pc[r] \in {"check", "recheck", "report", "lookup"}
  BY DEF CheckApproved, CheckRejected, ReadToReport, LookUpToken
<1>3. PICK next \in {"recheck", "report", "lookup", "notify", "over"} : pc' = [pc EXCEPT ![r] = next]
  BY DEF CheckApproved, CheckRejected, ReadToReport, LookUpToken
<1>4. Approved => Approved'
  BY <1>1, <1>2, <1>3, ApprovedStaysStep
<1>5. /\ reported' \in [Requests -> States \cup {"none"}]
      /\ \A q \in Requests : reported'[q] \in {reported[q], allExpense}
      /\ token' \in [Requests -> Attempts \cup {0}]
  BY <1>1 DEF CheckApproved, CheckRejected, ReadToReport, LookUpToken, TypeOK
<1>6. TypeOK'
  <2>1. pc' \in [Requests -> {"idle", "write", "check", "recheck", "report", "lookup", "notify", "over", "gone"}]
    BY <1>1, <1>3 DEF TypeOK
  <2> QED BY <1>1, <1>2, <1>5, <2>1 DEF TypeOK
<1>7. \A q \in Requests : (pc'[q] = "idle" <=> pc[q] = "idle") /\ (pc'[q] = "write" <=> pc[q] = "write")
  BY <1>1, <1>2, <1>3 DEF TypeOK
<1>8. TypeOfRequests'
  BY <1>2 DEF IInv, TypeOfRequests
<1>9. ApprovalMade'
  BY <1>2, <1>4, <1>5 DEF IInv, ApprovalMade
<1>10. PaymentAfterApproval'
  BY <1>2, <1>7 DEF IInv, PaymentAfterApproval, Requests
<1>11. RepeatedForFaults'
  <2>1. payments = 0 \/ payments \in Requests
    BY <1>1 DEF TypeOK, Requests
  <2> QED BY <1>2, <1>7, <2>1 DEF IInv, RepeatedForFaults
<1> QED BY <1>6, <1>8, <1>9, <1>10, <1>11 DEF IInv

\* Telling the workflow: it goes on to the payment for an approval only.
LEMMA NotifyKeeps ==
  ASSUME IInv, NEW r \in Requests, Notify(r)
  PROVE  IInv'
<1> USE DEF serverVars, handlerVars, workflowVars
<1>1. TypeOK BY DEF IInv
<1>2. /\ UNCHANGED <<serverVars, type, oldState, reported, token, creates, attempts, payments>>
      /\ pc[r] = "notify" /\ pc' = [pc EXCEPT ![r] = "over"]
  BY DEF Notify
<1>3. Approved => Approved'
  BY <1>1, <1>2, ApprovedStaysStep
<1>4. \A q \in Requests : (pc'[q] = "idle" <=> pc[q] = "idle") /\ (pc'[q] = "write" <=> pc[q] = "write")
  BY <1>1, <1>2 DEF TypeOK
<1>5. \/ /\ step = "wait" /\ UNCHANGED faults /\ waiting' = 0 /\ status' = reported[r]
         /\ step' = (IF reported[r] = "APPROVED" THEN "pay" ELSE "ended")
      \/ UNCHANGED <<status, step, waiting>> /\ faults' \in {faults, faults + 1} /\ faults' <= MaxFaults
  BY <1>1, BoundsAssumption DEF Notify, Told, Fault, NoFault, TypeOK
<1>6. TypeOK'
  <2>1. status' \in States \cup {"none"} /\ step' \in {"create", "wait", "pay", "completed", "ended"}
    BY <1>1, <1>5 DEF TypeOK
  <2>2. waiting' \in Attempts \cup {0} /\ faults' \in 0 .. MaxFaults
    BY <1>1, <1>5, BoundsAssumption DEF TypeOK
  <2> QED BY <1>1, <1>2, <2>1, <2>2 DEF TypeOK
<1>7. TypeOfRequests'
  BY <1>2 DEF IInv, TypeOfRequests
<1>8. ApprovalMade'
  BY <1>2, <1>3, <1>5 DEF IInv, ApprovalMade
<1>9. PaymentAfterApproval'
  BY <1>2, <1>4, <1>5 DEF IInv, PaymentAfterApproval, Requests
<1>10. RepeatedForFaults'
  <2>1. payments = 0 \/ payments \in Requests
    BY <1>1 DEF TypeOK, Requests
  <2>2. CASE UNCHANGED <<status, step, waiting>> /\ faults' \in {faults, faults + 1}
    <3>1. faults \in Nat /\ creates \in Nat /\ attempts \in Nat /\ payments \in Nat
      BY <1>1, BoundsAssumption DEF TypeOK, Attempts
    <3>2. /\ creates <= faults' + 1 /\ attempts <= faults' + 1 /\ payments <= faults' + 1
          /\ (creates <= faults => creates <= faults')
          /\ (attempts <= faults => attempts <= faults')
          /\ (payments <= faults => payments <= faults')
      BY <2>2, <3>1, FaultsGrow DEF IInv, RepeatedForFaults
    <3> QED BY <1>2, <1>4, <2>1, <2>2, <3>2 DEF IInv, RepeatedForFaults
  <2>3. CASE step = "wait" /\ UNCHANGED faults /\ step' \in {"pay", "ended"}
    <3>1. payments = 0
      BY <1>1, <2>1, <2>3 DEF IInv, PaymentAfterApproval, RepeatedForFaults, TypeOK
    <3> QED BY <1>1, <1>2, <2>3, <3>1, BoundsAssumption DEF IInv, RepeatedForFaults, TypeOK, Attempts
  <2> QED BY <1>5, <2>2, <2>3
<1> QED BY <1>6, <1>7, <1>8, <1>9, <1>10 DEF IInv

\* A restart of the server only takes away what it knew.
LEMMA RestartKeeps ==
  ASSUME IInv, Restart
  PROVE  IInv'
<1> USE DEF serverVars, handlerVars, workflowVars
<1>1. TypeOK BY DEF IInv
<1>2. /\ allExpense' = "none" /\ tokenMap' = 0 /\ creating' = {} /\ registering' = {}
      /\ faults' = faults + 1 /\ faults' <= MaxFaults
      /\ UNCHANGED <<type, oldState, reported, token, creates, attempts, payments, step, status>>
  BY <1>1, BoundsAssumption DEF Restart, Fault, TypeOK
<1>3. /\ pc' \in [Requests -> {"idle", "write", "check", "recheck", "report", "lookup", "notify", "over", "gone"}]
      /\ \A r \in Requests : pc'[r] = "idle" <=> pc[r] = "idle"
      /\ \A r \in Requests :
           pc[r] \notin {"idle", "write", "gone"} => pc'[r] \notin {"idle", "write", "gone"}
  BY <1>1 DEF Restart, TypeOK
<1>4. TypeOK'
  BY <1>1, <1>2, <1>3, BoundsAssumption DEF Restart, TypeOK
<1>5. Approved => Approved'
  BY <1>2, <1>3, ApprovedStays DEF Requests
<1>6. TypeOfRequests' /\ ApprovalMade'
  BY <1>2, <1>5 DEF IInv, TypeOfRequests, ApprovalMade
<1>7. PaymentAfterApproval'
  BY <1>2, <1>3 DEF IInv, PaymentAfterApproval, Requests
<1>8. RepeatedForFaults'
  <2>1. faults \in Nat /\ creates \in Nat /\ attempts \in Nat /\ payments \in Nat
    BY <1>1, BoundsAssumption DEF TypeOK, Attempts
  <2>2. creates <= faults' /\ attempts <= faults' /\ payments <= faults' /\ faults' \in Nat
    BY <1>2, <2>1 DEF IInv, RepeatedForFaults
  <2> QED BY <1>2, <2>1, <2>2 DEF IInv, RepeatedForFaults
<1> QED BY <1>4, <1>6, <1>7, <1>8 DEF IInv

\* Steps of the activities that the handlers of /action take no part in.
LEMMA ActivityKeepsApproval ==
  ASSUME IInv, UNCHANGED <<handlerVars, payments, status>>,
         allExpense' \in {allExpense, "CREATED"},
         step' \in {step, "wait"}, step' # step => step = "create"
  PROVE  TypeOfRequests' /\ ApprovalMade' /\ PaymentAfterApproval'
<1>1. Approved' <=> Approved
  BY DEF Approved, handlerVars
<1> QED BY <1>1 DEF IInv, TypeOfRequests, ApprovalMade, PaymentAfterApproval, handlerVars

LEMMA FindNoExpenseKeeps ==
  ASSUME IInv, FindNoExpense
  PROVE  IInv'
<1>1. TypeOK BY DEF IInv
<1>2. /\ step = "create" /\ allExpense = "none" /\ creates' = creates + 1
      /\ creating' = creating \cup {creates + 1}
      /\ UNCHANGED <<allExpense, tokenMap, registering, handlerVars, attempts, waiting, payments, step, status>>
      /\ \/ creates \notin creating /\ faults' = faults
         \/ faults' = faults + 1 /\ faults < MaxFaults
  BY DEF FindNoExpense, Fault, NoFault
<1>3. faults \in Nat /\ creates \in Nat /\ attempts \in Nat /\ payments \in Nat
  BY <1>1, BoundsAssumption DEF TypeOK, Attempts
<1>4. creates <= faults' /\ faults' \in 0 .. MaxFaults
  BY <1>1, <1>2, <1>3, BoundsAssumption DEF IInv, RepeatedForFaults, TypeOK
<1>5. creates' \in Attempts
  BY <1>2, <1>3, <1>4, NextAttempt
<1>6. TypeOK'
  BY <1>1, <1>2, <1>4, <1>5 DEF TypeOK, handlerVars
<1>7. TypeOfRequests' /\ ApprovalMade' /\ PaymentAfterApproval'
  BY <1>2, ActivityKeepsApproval
<1>8. RepeatedForFaults'
  <2>1. attempts = 0 /\ payments = 0
    BY <1>2 DEF IInv, RepeatedForFaults, PaymentAfterApproval
  <2>2. creates' <= faults' + 1 /\ attempts' = 0 /\ payments' = 0
    BY <1>2, <1>3, <1>4, <2>1, NextAttempt
  <2>4. 0 <= faults' /\ 0 <= faults' + 1
    BY <1>3, <1>4, NextAttempt
  <2>3. creates' \in creating'
    BY <1>2
  <2> QED BY <2>2, <2>3, <2>4 DEF RepeatedForFaults
<1> QED BY <1>6, <1>7, <1>8 DEF IInv

LEMMA CreateExpenseKeeps ==
  ASSUME IInv, NEW c \in Attempts, CreateExpense(c)
  PROVE  IInv'
<1>1. TypeOK BY DEF IInv
<1>2. /\ allExpense' = "CREATED" /\ creating' = creating \ {c}
      /\ UNCHANGED <<tokenMap, registering, handlerVars, creates, attempts, waiting, payments, status>>
      /\ \/ step = "create" /\ step' = "wait"
         \/ step' = step
      /\ \/ faults' = faults
         \/ faults' = faults + 1 /\ faults < MaxFaults
  BY DEF CreateExpense, Fault, NoFault
<1>3. faults \in Nat /\ creates \in Nat /\ attempts \in Nat /\ payments \in Nat
  BY <1>1, BoundsAssumption DEF TypeOK, Attempts
<1>4. faults' \in 0 .. MaxFaults /\ faults <= faults'
  BY <1>1, <1>2, <1>3, BoundsAssumption DEF TypeOK
<1>5. TypeOK'
  BY <1>1, <1>2, <1>4 DEF TypeOK, handlerVars, States
<1>6. TypeOfRequests' /\ ApprovalMade' /\ PaymentAfterApproval'
  BY <1>2, ActivityKeepsApproval
<1>7. RepeatedForFaults'
  <2>1. creates <= faults' + 1 /\ attempts <= faults' + 1 /\ payments <= faults' + 1
    BY <1>2, <1>3, FaultsGrow DEF IInv, RepeatedForFaults
  <2>2. attempts <= faults => attempts <= faults'
    BY <1>2, <1>3, FaultsGrow
  <2>3. payments <= faults => payments <= faults'
    BY <1>2, <1>3, FaultsGrow
  <2>4. step = "create" => attempts = 0 /\ payments = 0 /\ 0 <= faults'
    BY <1>4 DEF IInv, RepeatedForFaults, PaymentAfterApproval
  <2> QED BY <1>2, <2>1, <2>2, <2>3, <2>4 DEF IInv, RepeatedForFaults, handlerVars
<1> QED BY <1>5, <1>6, <1>7 DEF IInv

LEMMA FindCreatedKeeps ==
  ASSUME IInv, FindCreated
  PROVE  IInv'
<1>1. TypeOK BY DEF IInv
<1>2. /\ step = "wait" /\ waiting = 0 /\ attempts' = attempts + 1 /\ waiting' = attempts + 1
      /\ registering' = registering \cup {attempts + 1}
      /\ UNCHANGED <<allExpense, tokenMap, creating, handlerVars, creates, payments, step, status, faults>>
  BY DEF FindCreated
<1>3. faults \in 0 .. MaxFaults /\ attempts \in Nat
  BY <1>1, BoundsAssumption DEF TypeOK, Attempts
<1>4. attempts <= faults
  BY <1>2 DEF IInv, RepeatedForFaults
<1>5. attempts' \in Attempts /\ attempts' <= faults + 1 /\ waiting' # 0
  BY <1>2, <1>3, <1>4, NextAttempt
<1>6. TypeOK'
  BY <1>1, <1>2, <1>5 DEF TypeOK, handlerVars
<1>7. TypeOfRequests' /\ ApprovalMade' /\ PaymentAfterApproval'
  BY <1>2, ActivityKeepsApproval
<1>8. RepeatedForFaults'
  BY <1>2, <1>5 DEF IInv, RepeatedForFaults, handlerVars
<1> QED BY <1>6, <1>7, <1>8 DEF IInv

LEMMA StoreTokenKeeps ==
  ASSUME IInv, NEW a \in Attempts, StoreToken(a)
  PROVE  IInv'
<1>1. UNCHANGED <<allExpense, creating, handlerVars, workflowVars, faults>>
      /\ tokenMap' = a /\ registering' = registering \ {a}
  BY DEF StoreToken
<1>2. TypeOK'
  BY <1>1 DEF IInv, TypeOK, handlerVars, workflowVars
<1>3. TypeOfRequests' /\ ApprovalMade' /\ PaymentAfterApproval'
  BY <1>1, ActivityKeepsApproval DEF workflowVars
<1>4. RepeatedForFaults'
  BY <1>1 DEF IInv, RepeatedForFaults, handlerVars, workflowVars
<1> QED BY <1>2, <1>3, <1>4 DEF IInv

LEMMA AttemptFailsKeeps ==
  ASSUME IInv, AttemptFails
  PROVE  IInv'
<1>1. TypeOK BY DEF IInv
<1>2. /\ step = "wait" /\ waiting' = 0 /\ faults' = faults + 1 /\ faults < MaxFaults
      /\ UNCHANGED <<serverVars, handlerVars, creates, attempts, payments, step, status>>
  BY DEF AttemptFails, Fault
<1>3. faults \in Nat /\ creates \in Nat /\ attempts \in Nat /\ payments \in Nat
  BY <1>1, BoundsAssumption DEF TypeOK, Attempts
<1>4. faults' \in 0 .. MaxFaults
  BY <1>2, <1>3, BoundsAssumption
<1>5. TypeOK'
  BY <1>1, <1>2, <1>4 DEF TypeOK, serverVars, handlerVars
<1>6. TypeOfRequests' /\ ApprovalMade' /\ PaymentAfterApproval'
  BY <1>2, ActivityKeepsApproval DEF serverVars
<1>7. RepeatedForFaults'
  <2>1. creates <= faults' /\ attempts <= faults' /\ payments <= faults' /\ faults' \in Nat
    BY <1>2, <1>3 DEF IInv, RepeatedForFaults
  <2> QED BY <1>2, <1>3, <2>1 DEF RepeatedForFaults
<1> QED BY <1>5, <1>6, <1>7 DEF IInv

\* An attempt of PaymentActivity looks the state up: the workflow has been
\* told of an approval.
LEMMA StartPaymentKeeps ==
  ASSUME IInv, NEW p \in Attempts, StartPayment(p)
  PROVE  IInv'
<1>1. TypeOK /\ p \in Requests
  BY DEF IInv, Requests
<1>2. /\ step = "pay" /\ p = payments + 1 /\ payments' = p
      /\ pc[p] = "idle" /\ pc' = [pc EXCEPT ![p] = "write"]
      /\ oldState' = [oldState EXCEPT ![p] = allExpense]
      /\ UNCHANGED <<serverVars, type, reported, token, creates, attempts, waiting, step, status>>
      /\ \/ ~(payments # 0 /\ pc[payments] = "write") /\ faults' = faults
         \/ faults' = faults + 1 /\ faults < MaxFaults
  BY DEF StartPayment, ReadState, Fault, NoFault
<1>3. faults \in Nat /\ creates \in Nat /\ attempts \in Nat /\ payments \in Nat
  BY <1>1, BoundsAssumption DEF TypeOK, Attempts
<1>4. faults' \in 0 .. MaxFaults /\ payments <= faults'
  <2>1. CASE ~(payments # 0 /\ pc[payments] = "write") /\ faults' = faults
    BY <1>1, <1>2, <1>3, <2>1, BoundsAssumption DEF IInv, RepeatedForFaults, TypeOK
  <2>2. CASE faults' = faults + 1 /\ faults < MaxFaults
    BY <1>3, <2>2, BoundsAssumption DEF IInv, RepeatedForFaults
  <2> QED BY <1>2, <2>1, <2>2
<1>5. TypeOK'
  BY <1>1, <1>2, <1>4 DEF TypeOK, serverVars, States
<1>6. Approved => Approved'
  BY <1>1, <1>2, ApprovedStaysStep
<1>7. status = "APPROVED"
  BY <1>2 DEF IInv, PaymentAfterApproval
<1>8. TypeOfRequests' /\ ApprovalMade' /\ PaymentAfterApproval'
  BY <1>2, <1>6, <1>7 DEF IInv, TypeOfRequests, ApprovalMade, PaymentAfterApproval, serverVars
<1>9. RepeatedForFaults'
  <2>1. payments' <= faults' + 1 /\ 0 <= faults'
    BY <1>2, <1>3, <1>4, NextAttempt
  <2>2. creates <= faults' + 1 /\ attempts <= faults' + 1
    BY <1>2, <1>3, FaultsGrow DEF IInv, RepeatedForFaults
  <2>3. pc'[payments'] = "write"
    BY <1>1, <1>2 DEF TypeOK
  <2> QED BY <1>2, <2>1, <2>2, <2>3 DEF RepeatedForFaults, serverVars
<1> QED BY <1>5, <1>8, <1>9 DEF IInv

LEMMA PayKeeps ==
  ASSUME IInv, NEW p \in Attempts, Pay(p)
  PROVE  IInv'
<1>1. TypeOK /\ p \in Requests
  BY DEF IInv, Requests
<1>2. NewState(p) = "COMPLETED"
  BY <1>1 DEF NewState, IInv, TypeOfRequests, TypeOK
<1>3. /\ pc[p] = "write" /\ pc' = [pc EXCEPT ![p] = "check"] /\ allExpense' = "COMPLETED"
      /\ UNCHANGED <<tokenMap, creating, registering, type, oldState, reported, token,
                     creates, attempts, waiting, payments, status>>
      /\ \/ step = "pay" /\ step' = "completed" /\ faults' = faults
         \/ step' = step /\ faults' = faults /\ (step # "pay" \/ p # payments)
         \/ step' = step /\ faults' = faults + 1 /\ faults < MaxFaults
  BY <1>2 DEF Pay, WriteState, Fault, NoFault
<1>4. faults \in Nat /\ creates \in Nat /\ attempts \in Nat /\ payments \in Nat
  BY <1>1, BoundsAssumption DEF TypeOK, Attempts
<1>5. faults' \in 0 .. MaxFaults
  BY <1>1, <1>3, <1>4, BoundsAssumption DEF TypeOK
<1>6. TypeOK'
  BY <1>1, <1>3, <1>5 DEF TypeOK, States
<1>7. Approved => Approved'
  BY <1>1, <1>3, ApprovedStaysStep
<1>8. status = "APPROVED" /\ step \notin {"create", "wait"}
  BY <1>3 DEF IInv, PaymentAfterApproval
<1>9. TypeOfRequests' /\ ApprovalMade' /\ PaymentAfterApproval'
  BY <1>3, <1>7, <1>8 DEF IInv, TypeOfRequests, ApprovalMade, PaymentAfterApproval
<1>10. RepeatedForFaults'
  <2>1. creates <= faults' + 1 /\ attempts <= faults' + 1 /\ payments <= faults' + 1
    BY <1>3, <1>4, FaultsGrow DEF IInv, RepeatedForFaults
  <2>2. payments <= faults' \/ payments = 0 \/ pc'[payments] = "write" \/ step' # "pay"
    <3>1. CASE step' = step /\ faults' = faults /\ (step # "pay" \/ p # payments)
      <4>1. payments = 0 \/ payments \in Requests
        BY <1>1 DEF TypeOK, Requests
      <4> QED BY <1>1, <1>3, <3>1, <4>1 DEF IInv, RepeatedForFaults, TypeOK
    <3>2. CASE step' = step /\ faults' = faults + 1
      BY <1>4, <3>2 DEF IInv, RepeatedForFaults
    <3> QED BY <1>3, <3>1, <3>2
  <2>3. step' \notin {"create", "wait"}
    BY <1>3, <1>8
  <2> QED BY <1>3, <2>1, <2>2, <2>3 DEF RepeatedForFaults
<1> QED BY <1>6, <1>9, <1>10 DEF IInv

\* Every step of the specification keeps the invariant.
THEOREM NextKeepsInvariant == IInv /\ [Next]_vars => IInv'
<1> SUFFICES ASSUME IInv, [Next]_vars PROVE IInv'
  OBVIOUS
<1>1. CASE \E d \in Decisions : Decide(d)
  BY <1>1, ReadStateKeeps, WriteStateKeeps DEF Decide
<1>2. CASE \E r \in Requests : ActionHandler(r)
  BY <1>2, ReportKeeps, NotifyKeeps DEF ActionHandler
<1>3. CASE Activity
  BY <1>3, FindNoExpenseKeeps, FindCreatedKeeps, CreateExpenseKeeps, StoreTokenKeeps,
     StartPaymentKeeps, PayKeeps DEF Activity
<1>4. CASE AttemptFails
  BY <1>4, AttemptFailsKeeps
<1>5. CASE Restart
  BY <1>5, RestartKeeps
<1>6. CASE UNCHANGED vars
  BY <1>6, StutterKeeps
<1> QED BY <1>1, <1>2, <1>3, <1>4, <1>5, <1>6 DEF Next

\* The invariant of the server and the workflow holds in every reachable state.
THEOREM Invariant == Spec => []IInv
BY InitInvariant, NextKeepsInvariant, PTL DEF Spec

\* No expense is paid for without an approval, for all numbers of requests and
\* faults (ui/main.go:99-102, workflow.go:42-48).
THEOREM PaidOnApprovalHolds == Spec => []PaidOnApproval
<1>1. IInv => PaidOnApproval
  BY DEF IInv, ApprovalMade, PaymentAfterApproval, PaidOnApproval
<1> QED BY <1>1, Invariant, PTL
==============================================================================
