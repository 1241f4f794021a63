---------------------------- MODULE RecoveryProofs ----------------------------
(***************************************************************************)
(* Theorems of Recovery, for every number of trips, activities, attempts   *)
(* and faults: the batches are disjoint and cover the list; no execution   *)
(* is skipped; no event is counted twice and no trip is left closed unless *)
(* an attempt that timed out is still at work.                             *)
(***************************************************************************)
EXTENDS Recovery, TLAPS

USE RecoveryAssumption

\* A product with a larger factor leaves room for one more.
LEMMA Room ==
  ASSUME NEW i \in Nat, NEW j \in Nat, NEW b \in Nat, i < j
  PROVE  i * b + b <= j * b
<1> DEFINE d == j - i - 1
<1>1. d \in Nat /\ j = i + 1 + d
  OBVIOUS
<1>2. d * b \in Nat
  BY <1>1
<1>3. (i + 1 + d) * b = i * b + b + d * b
  BY <1>1
<1> QED
  BY <1>1, <1>2, <1>3

\* Quotient and remainder.
LEMMA Division ==
  ASSUME NEW n \in Nat, NEW k \in Nat \ {0}
  PROVE  /\ n \div k \in Nat /\ n % k \in 0 .. k - 1
         /\ n = k * (n \div k) + (n % k)
  OBVIOUS

\* The number of activities and the size of a batch once the list is not empty.
LEMMA BatchSizeFacts ==
  ASSUME count \in Nat, count > 0
  PROVE  /\ ActivityCount \in Nat \ {0} /\ ActivityCount <= Wanted
         /\ BatchSize \in Nat \ {0}
         /\ count <= ActivityCount * BatchSize
<1>1. ActivityCount \in Nat \ {0} /\ ActivityCount <= Wanted
  BY DEF ActivityCount, Wanted
<1> DEFINE k == ActivityCount
           q == count \div k
           m == count % k
<1>2. q \in Nat /\ m \in 0 .. k - 1 /\ count = k * q + m
  BY <1>1, Division
<1>3. BatchSize = q + (IF m # 0 THEN 1 ELSE 0)
  BY DEF BatchSize
<1> HIDE DEF k, q, m
<1>4. k \in Nat \ {0}
  BY <1>1 DEF k
<1>5. k * (q + 1) = k * q + k
  BY <1>2, <1>4
<1>6. CASE m # 0
  BY <1>2, <1>3, <1>4, <1>5, <1>6, <1>1 DEF k
<1>7. CASE m = 0
  <2>1. BatchSize = q /\ count = k * q
    BY <1>2, <1>3, <1>4, <1>7
  <2>2. q # 0
    BY <2>1, <1>4
  <2> QED
    BY <2>1, <2>2, <1>1, <1>2 DEF k
<1> QED
  BY <1>6, <1>7

\* A batch is an interval of the list.
LEMMA BatchFacts ==
  ASSUME count \in Nat, NEW i \in Activities, i < ActivityCount
  PROVE  /\ StartIndex(i) \in Nat /\ EndIndex(i) \in Nat /\ EndIndex(i) <= count
         /\ Batch(i) = StartIndex(i) .. EndIndex(i) - 1
         /\ count > 0
<1>1. count > 0 /\ i \in Nat
  BY DEF ActivityCount, Activities, Wanted
<1>2. BatchSize \in Nat
  BY <1>1, BatchSizeFacts
<1>3. StartIndex(i) \in Nat
  BY <1>1, <1>2 DEF StartIndex
<1> QED
  BY <1>1, <1>2, <1>3 DEF EndIndex, Batch

\* Batches lie in the list.
LEMMA BatchType ==
  ASSUME count \in 0 .. MaxTrips, NEW i \in Activities, NEW t \in Batch(i)
  PROVE  t \in Nat /\ t < count /\ t \in Trips /\ i < ActivityCount
<1>1. i < ActivityCount
  BY DEF Batch
<1> QED
  BY <1>1, BatchFacts DEF Trips

\* Two activities have no execution in common.
LEMMA BatchesDisjoint ==
  ASSUME count \in 0 .. MaxTrips, NEW i \in Activities, NEW j \in Activities, i # j,
         NEW t \in Batch(i)
  PROVE  t \notin Batch(j)
<1>1. ASSUME NEW a \in Activities, NEW b \in Activities, a < b, b < ActivityCount
      PROVE  EndIndex(a) <= StartIndex(b)
  <2>1. count > 0 /\ a \in Nat /\ b \in Nat
    BY <1>1, BatchFacts DEF Activities
  <2>2. BatchSize \in Nat
    BY <2>1, BatchSizeFacts
  <2>3. StartIndex(a) + BatchSize <= StartIndex(b) /\ StartIndex(a) \in Nat /\ StartIndex(b) \in Nat
    BY <1>1, <2>1, <2>2, Room DEF StartIndex
  <2> QED
    BY <2>1, <2>2, <2>3 DEF EndIndex
<1>2. SUFFICES ASSUME t \in Batch(j) PROVE FALSE
  OBVIOUS
<1>3. i < ActivityCount /\ j < ActivityCount
  BY <1>2, BatchType
<1>4. /\ Batch(i) = StartIndex(i) .. EndIndex(i) - 1 /\ Batch(j) = StartIndex(j) .. EndIndex(j) - 1
      /\ StartIndex(i) \in Nat /\ EndIndex(i) \in Nat /\ StartIndex(j) \in Nat /\ EndIndex(j) \in Nat
  BY <1>3, BatchFacts
<1>5. i < j \/ j < i
  BY DEF Activities, Wanted
<1> QED
  BY <1>1, <1>2, <1>3, <1>4, <1>5

\* Every execution of the list is in the batch of an activity.
LEMMA BatchesCover ==
  ASSUME count \in 0 .. MaxTrips, NEW t \in 0 .. count - 1
  PROVE  \E i \in Activities : i < ActivityCount /\ t \in Batch(i)
<1> DEFINE b == BatchSize
           i == t \div b
<1>1. count > 0 /\ t \in Nat /\ count \in Nat
  OBVIOUS
<1>2. /\ b \in Nat \ {0} /\ ActivityCount \in Nat \ {0} /\ ActivityCount <= Wanted
      /\ count <= ActivityCount * b
  BY <1>1, BatchSizeFacts
<1>3. i \in Nat /\ b * i <= t /\ t < b * i + b
  <2> HIDE DEF b
  <2>1. t \div b \in Nat /\ t % b \in 0 .. b - 1 /\ t = b * (t \div b) + (t % b)
    BY <1>1, <1>2, Division
  <2> QED
    BY <2>1, <1>1, <1>2
<1>4. i < ActivityCount
  <2>1. SUFFICES ASSUME ActivityCount <= i PROVE FALSE
    BY <1>2, <1>3
  <2>2. ActivityCount * b <= i * b
    <3>1. CASE ActivityCount = i
      BY <3>1, <1>2, <1>3
    <3>2. CASE ActivityCount < i
      <4>1. ActivityCount * b + b <= i * b
        BY <3>2, <1>2, <1>3, Room
      <4> QED
        BY <4>1, <1>2, <1>3
    <3> QED
      BY <2>1, <3>1, <3>2, <1>2, <1>3
  <2>3. i * b = b * i
    BY <1>2, <1>3
  <2> QED
    BY <2>2, <2>3, <1>1, <1>2, <1>3
<1>5. i \in Activities
  BY <1>2, <1>3, <1>4 DEF Activities, Wanted
<1>6. StartIndex(i) = b * i
  BY <1>2, <1>3 DEF StartIndex
<1>7. t \in StartIndex(i) .. EndIndex(i) - 1
  BY <1>1, <1>2, <1>3, <1>6 DEF EndIndex
<1>8. t \in Batch(i)
  BY <1>4, <1>7 DEF Batch
<1> QED
  BY <1>4, <1>5, <1>8
------------------------------------------------------------------------------
\* The list does not change, and so neither do the batches.
LEMMA ListKept ==
  ASSUME [Next]_vars
  PROVE  /\ count' = count
         /\ ActivityCount' = ActivityCount
         /\ \A i \in Activities : Batch(i)' = Batch(i) /\ EndIndex(i)' = EndIndex(i)
<1>1. count' = count
  BY DEF Next, vars, tripVars, SendTrip, TripContinues, RecoverStep, List, ListNothing,
    CompleteRecover, StartAttempt, AttemptWithoutList, AttemptTimesOut, AttemptStep,
    ReadHistory, Terminate, StartRun, Inject, Recovered, ReturnNil, AttemptFails
<1> QED
  BY <1>1 DEF ActivityCount, Batch, EndIndex, StartIndex, BatchSize

\* What an attempt is and where it starts.
LEMMA AttemptFacts ==
  ASSUME NEW p \in Attempts
  PROVE  p[1] \in Activities /\ p[2] \in 1 .. MaxAttempts /\ p = <<p[1], p[2]>>
  BY DEF Attempts

LEMMA FirstAttempt ==
  ASSUME NEW i \in Activities, TypeOK, Scheduling, status[i] = "scheduled"
  PROVE  /\ <<i, attempts[i] + 1>> \in Attempts
         /\ attempts[i] + 1 \in 1 .. MaxAttempts
         /\ i < ActivityCount
         /\ ResumeIndex(i) \in Nat
         /\ progress[i] < ResumeIndex(i)
         /\ \A t \in Batch(i) : t <= progress[i] \/ ResumeIndex(i) <= t
         /\ ResumeIndex(i) < EndIndex(i) => ResumeIndex(i) \in Batch(i)
<1>1. i < ActivityCount /\ attempts[i] < MaxAttempts /\ attempts[i] \in Nat
  BY DEF Scheduling, TypeOK
<1>2. /\ StartIndex(i) \in Nat /\ EndIndex(i) \in Nat
      /\ Batch(i) = StartIndex(i) .. EndIndex(i) - 1
  BY <1>1, BatchFacts DEF TypeOK
<1>3. progress[i] = -1 \/ progress[i] \in StartIndex(i) .. EndIndex(i) - 1
  BY <1>2 DEF Scheduling
<1>4. <<i, attempts[i] + 1>> \in Attempts
  BY <1>1 DEF Attempts
<1>5. attempts[i] + 1 \in 1 .. MaxAttempts
  BY <1>1
<1>6. /\ ResumeIndex(i) \in Nat /\ progress[i] < ResumeIndex(i)
      /\ StartIndex(i) <= ResumeIndex(i)
      /\ ResumeIndex(i) = StartIndex(i) \/ ResumeIndex(i) = progress[i] + 1
  BY <1>2, <1>3 DEF ResumeIndex
<1>7. \A t \in Batch(i) : t <= progress[i] \/ ResumeIndex(i) <= t
  BY <1>2, <1>3, <1>6
<1>8. ResumeIndex(i) < EndIndex(i) => ResumeIndex(i) \in Batch(i)
  BY <1>2, <1>6
<1> QED
  BY <1>1, <1>4, <1>5, <1>6, <1>7, <1>8
------------------------------------------------------------------------------
\* Where nothing is listed yet, nothing is at work.
LEMMA IInvInit == Init => IInv
<1> SUFFICES ASSUME Init PROVE IInv
  OBVIOUS
<1>1. TypeOK
  BY DEF Init, TypeOK, Off, Work, WorkPc
<1>2. Scheduling /\ Alone
  BY DEF Init, Scheduling, Alone, Active, Off
<1>3. Covering
  <2>1. \A p \in Attempts : ~Active(p)
    BY DEF Init, Active, Off
  <2>2. \A i \in Activities : \A t \in Batch(i) : t \in Nat
    BY BatchType DEF Init
  <2> QED
    BY <2>1, <2>2 DEF Init, Covering
<1>4. Reopening /\ NoEventTwice
  <2>1. \A i \in Activities : \A t \in Batch(i) : open[t] /\ t \in Trips
    BY BatchType DEF Init
  <2>2. \A p \in Attempts : ~Active(p)
    BY DEF Init, Active, Off
  <2>3. Reopening
    BY <2>1, <2>2 DEF Reopening, ReopeningAt
  <2>4. NoEventTwice
    <3>1. \A t \in Trips : base[t] = 0 /\ signals[t] = 0 /\ sent[t] = 0
      BY DEF Init
    <3> QED
      BY <2>1, <3>1 DEF NoEventTwice
  <2> QED
    BY <2>3, <2>4
<1>5. Budget
  BY DEF Init, Budget, Off
<1> QED
  BY <1>1, <1>2, <1>3, <1>4, <1>5 DEF IInv
------------------------------------------------------------------------------
\* An attempt that remembers something new is still one.
LEMMA WorkUpdate ==
  ASSUME TypeOK, NEW p \in Attempts, NEW r \in Work, work' = [work EXCEPT ![p] = r],
         r.pc # "off" => r.index \in Batch(p[1])
  PROVE  /\ work' \in [Attempts -> Work]
         /\ \A q \in Attempts : work'[q].pc # "off" => work'[q].index \in Batch(q[1])
<1>1. \A q \in Attempts : work'[q] = IF q = p THEN r ELSE work[q]
  BY DEF TypeOK
<1> QED
  BY <1>1 DEF TypeOK

\* Types are kept; an attempt starts in its batch and goes on within it.
LEMMA TypeStep == TypeOK /\ Scheduling /\ [Next]_vars => TypeOK'
<1> SUFFICES ASSUME TypeOK, Scheduling, [Next]_vars PROVE TypeOK'
  OBVIOUS
<1>0. /\ count' = count
      /\ \A p \in Attempts : p[1] \in Activities /\ Batch(p[1])' = Batch(p[1])
  BY ListKept, AttemptFacts
<1>1. CASE UNCHANGED vars
  BY <1>0, <1>1 DEF TypeOK, vars
<1>2. ASSUME NEW t \in Trips, SendTrip(t) \/ TripContinues(t) PROVE TypeOK'
  <2>1. /\ base' \in [Trips -> Nat] /\ signals' \in [Trips -> Nat]
        /\ sent' \in [Trips -> Nat] /\ handle' \subseteq Attempts
    <3>1. CASE SendTrip(t)
      <4>1. /\ sent' = [sent EXCEPT ![t] = @ + 1] /\ signals' = [signals EXCEPT ![t] = @ + 1]
            /\ UNCHANGED <<base, handle>>
        BY <3>1 DEF SendTrip, Signal
      <4> QED
        BY <4>1 DEF TypeOK
    <3>2. CASE TripContinues(t)
      <4>1. /\ base' = [base EXCEPT ![t] = @ + RunLength] /\ signals' = [signals EXCEPT ![t] = 0]
            /\ UNCHANGED sent /\ handle' \subseteq handle
        BY <3>2 DEF TripContinues, HandlesOfOthers
      <4> QED
        BY <4>1 DEF TypeOK
    <3> QED
      BY <1>2, <3>1, <3>2
  <2>2. UNCHANGED <<open, wfPc, status, attempts, progress, work, faults, overdue, recovered>>
    BY <1>2 DEF SendTrip, TripContinues, actVars
  <2> QED
    BY <1>0, <2>1, <2>2 DEF TypeOK
<1>3. CASE RecoverStep
  <2>1. /\ status' \in [Activities -> {"none", "scheduled", "running", "done", "failed"}]
        /\ wfPc' \in {"list", "wait", "completed", "panicked"}
    BY <1>3 DEF TypeOK, RecoverStep, List, ListNothing, CompleteRecover, tripVars, actVars
  <2>2. UNCHANGED <<count, base, signals, handle, open, sent, attempts, progress, work,
                    faults, overdue, recovered>>
    BY <1>3 DEF RecoverStep, List, ListNothing, CompleteRecover, tripVars, actVars
  <2> QED
    BY <1>0, <2>1, <2>2 DEF TypeOK
<1>4. ASSUME NEW i \in Activities, StartAttempt(i) PROVE TypeOK'
  <2> DEFINE p == <<i, attempts[i] + 1>>
  <2>1. /\ p \in Attempts /\ attempts[i] + 1 \in 0 .. MaxAttempts /\ ResumeIndex(i) \in Nat
        /\ ResumeIndex(i) < EndIndex(i) => ResumeIndex(i) \in Batch(i)
    BY <1>4, FirstAttempt DEF StartAttempt
  <2>2. /\ attempts' \in [Activities -> 0 .. MaxAttempts]
        /\ status' \in [Activities -> {"none", "scheduled", "running", "done", "failed"}]
    BY <1>4, <2>1 DEF TypeOK, StartAttempt
  <2>3. /\ work' \in [Attempts -> Work]
        /\ \A q \in Attempts : work'[q].pc # "off" => work'[q].index \in Batch(q[1])
    <3> DEFINE r == [Off EXCEPT !.pc = "read", !.index = ResumeIndex(i)]
    <3>1. r \in Work /\ r.index = ResumeIndex(i)
      BY <2>1 DEF Off, Work, WorkPc
    <3>2. CASE UNCHANGED work
      BY <3>2 DEF TypeOK
    <3>3. CASE ResumeIndex(i) < EndIndex(i) /\ work' = [work EXCEPT ![p] = r]
      <4> HIDE DEF r, p
      <4>1. p \in Attempts /\ r.index \in Batch(p[1])
        BY <2>1, <3>1, <3>3 DEF p
      <4> QED
        BY <3>1, <3>3, <4>1, WorkUpdate
    <3> QED
      BY <1>4, <3>2, <3>3 DEF StartAttempt
  <2> QED
    <3>1. UNCHANGED <<count, base, signals, handle, open, sent, wfPc, progress, faults,
                      overdue, recovered>>
      BY <1>4 DEF StartAttempt, tripVars
    <3> QED
      BY <1>0, <2>2, <2>3, <3>1 DEF TypeOK
<1>5. ASSUME NEW i \in Activities, AttemptWithoutList(i) PROVE TypeOK'
  <2>1. attempts[i] + 1 \in 1 .. MaxAttempts
    <3>1. status[i] = "scheduled"
      BY <1>5 DEF AttemptWithoutList
    <3> QED
      BY <3>1, FirstAttempt
  <2> QED
    BY <1>0, <1>5, <2>1 DEF TypeOK, AttemptWithoutList, Fault, tripVars
<1>6. ASSUME NEW i \in Activities, AttemptTimesOut(i) PROVE TypeOK'
  BY <1>0, <1>6 DEF TypeOK, AttemptTimesOut, Fault, Retry, tripVars
<1>7. ASSUME NEW p \in Attempts, AttemptStep(p) PROVE TypeOK'
  <2>1. p[1] \in Activities
    BY AttemptFacts
  <2>2. work[p].pc # "off" => work[p].index \in Trips
    BY <2>1, BatchType DEF TypeOK
  <2>3. CASE ReadHistory(p)
    <3>1. work[p].index \in Trips /\ work[p] \in Work /\ work[p].pc = "read"
      BY <2>2, <2>3 DEF ReadHistory, TypeOK
    <3> DEFINE r == [work[p] EXCEPT !.pc = IF open[work[p].index] THEN "terminate" ELSE "start",
                                    !.base = base[work[p].index],
                                    !.signals = signals[work[p].index]]
    <3>2. work' = [work EXCEPT ![p] = r]
      BY <2>3 DEF ReadHistory
    <3>3. base[work[p].index] \in Nat /\ signals[work[p].index] \in Nat
      BY <3>1 DEF TypeOK
    <3>4. r \in Work /\ r.index = work[p].index
      BY <3>1, <3>3 DEF Work, WorkPc
    <3>5. work[p].index \in Batch(p[1])
      BY <3>1 DEF TypeOK
    <3> HIDE DEF r
    <3>6. /\ work' \in [Attempts -> Work]
          /\ \A q \in Attempts : work'[q].pc # "off" => work'[q].index \in Batch(q[1])
      BY <3>2, <3>4, <3>5, WorkUpdate
    <3>7. UNCHANGED <<count, base, signals, handle, open, sent, wfPc, status, attempts,
                      progress, faults, overdue, recovered>>
      BY <2>3 DEF ReadHistory, tripVars
    <3> QED
      BY <1>0, <3>6, <3>7 DEF TypeOK
  <2>4. CASE Terminate(p)
    <3>1. work[p].index \in Trips /\ work[p] \in Work /\ work[p].pc = "terminate"
      BY <2>2, <2>4 DEF Terminate, TypeOK
    <3>2. work' = [work EXCEPT ![p] = [work[p] EXCEPT !.pc = "start"]]
      BY <2>4 DEF Terminate
    <3>3. [work[p] EXCEPT !.pc = "start"] \in Work
      BY <3>1 DEF Work, WorkPc
    <3>4. /\ work' \in [Attempts -> Work]
          /\ \A q \in Attempts : work'[q].pc # "off" => work'[q].index \in Batch(q[1])
      BY <3>1, <3>2, <3>3, WorkUpdate DEF TypeOK, Work
    <3>5. open' \in [Trips -> BOOLEAN]
      BY <2>4, <3>1 DEF TypeOK, Terminate
    <3> QED
      BY <1>0, <2>4, <3>4, <3>5 DEF TypeOK, Terminate
  <2>5. CASE StartRun(p)
    <3>1. work[p].index \in Trips /\ work[p] \in Work /\ work[p].pc = "start"
      BY <2>2, <2>5 DEF StartRun, TypeOK
    <3>2. work' = [work EXCEPT ![p] = [work[p] EXCEPT !.pc = "inject"]]
      BY <2>5 DEF StartRun
    <3>3. [work[p] EXCEPT !.pc = "inject"] \in Work
      BY <3>1 DEF Work, WorkPc
    <3>4. /\ work' \in [Attempts -> Work]
          /\ \A q \in Attempts : work'[q].pc # "off" => work'[q].index \in Batch(q[1])
      BY <3>1, <3>2, <3>3, WorkUpdate DEF TypeOK, Work
    <3>5. /\ base' \in [Trips -> Nat] /\ signals' \in [Trips -> Nat]
          /\ open' \in [Trips -> BOOLEAN]
      <4>1. work[p].base \in Nat
        BY <3>1 DEF Work
      <4>2. CASE UNCHANGED <<open, base, signals>>
        BY <4>2 DEF TypeOK
      <4>3. CASE /\ open' = [open EXCEPT ![work[p].index] = TRUE]
                 /\ base' = [base EXCEPT ![work[p].index] = work[p].base]
                 /\ signals' = [signals EXCEPT ![work[p].index] = 0]
        BY <3>1, <4>1, <4>3 DEF TypeOK
      <4> QED
        BY <2>5, <4>2, <4>3 DEF StartRun
    <3>6. handle' \subseteq Attempts
      BY <2>5 DEF TypeOK, StartRun, HandlesOfOthers
    <3> QED
      BY <1>0, <2>5, <3>4, <3>5, <3>6 DEF TypeOK, StartRun
  <2>6. CASE Inject(p)
    <3>1. work[p].index \in Trips /\ work[p] \in Work /\ work[p].signals > 0
      BY <2>2, <2>6 DEF Inject, TypeOK
    <3>2. work' = [work EXCEPT ![p] = [work[p] EXCEPT !.signals = work[p].signals - 1]]
      BY <2>6 DEF Inject
    <3>3. [work[p] EXCEPT !.signals = work[p].signals - 1] \in Work
      <4>1. work[p].signals \in Nat
        BY <3>1 DEF Work
      <4>2. work[p].signals - 1 \in Nat
        BY <3>1, <4>1
      <4> QED
        BY <3>1, <4>2 DEF Work
    <3>4. /\ work' \in [Attempts -> Work]
          /\ \A q \in Attempts : work'[q].pc # "off" => work'[q].index \in Batch(q[1])
      BY <3>1, <3>2, <3>3, WorkUpdate DEF TypeOK, Work
    <3>5. signals' \in [Trips -> Nat]
      <4>1. CASE Signal(work[p].index)
        BY <3>1, <4>1 DEF TypeOK, Signal
      <4>2. CASE UNCHANGED signals
        BY <4>2 DEF TypeOK
      <4> QED
        BY <2>6, <4>1, <4>2 DEF Inject
    <3> QED
      BY <1>0, <2>6, <3>4, <3>5 DEF TypeOK, Inject
  <2>7. CASE Recovered(p)
    <3> DEFINE t == work[p].index
    <3>1. t \in Batch(p[1]) /\ t \in Trips /\ p[1] < ActivityCount
      BY <2>1, <2>2, <2>7, BatchType DEF TypeOK, Recovered
    <3>2. t + 1 < EndIndex(p[1]) => t + 1 \in Batch(p[1]) /\ t + 1 \in Nat
      <4>1. count \in Nat
        BY DEF TypeOK
      <4>2. /\ StartIndex(p[1]) \in Nat /\ EndIndex(p[1]) \in Nat
            /\ Batch(p[1]) = StartIndex(p[1]) .. EndIndex(p[1]) - 1
        BY <2>1, <3>1, <4>1, BatchFacts
      <4> HIDE DEF t
      <4> QED
        BY <3>1, <4>2
    <3>3. PICK r \in {[Off EXCEPT !.pc = "read", !.index = t + 1],
                     [Off EXCEPT !.pc = "return", !.index = t], Off} :
            /\ work' = [work EXCEPT ![p] = r]
            /\ r.pc = "read" => t + 1 < EndIndex(p[1])
      BY <2>7 DEF Recovered, Off
    <3>4. r \in Work /\ (r.pc # "off" => r.index \in Batch(p[1]))
      <4> HIDE DEF t
      <4>1. t \in Nat
        BY <3>1 DEF Trips
      <4>2. CASE r = [Off EXCEPT !.pc = "read", !.index = t + 1]
        BY <3>2, <3>3, <4>2 DEF Off, Work, WorkPc
      <4>3. CASE r = [Off EXCEPT !.pc = "return", !.index = t]
        BY <3>1, <4>1, <4>3 DEF Off, Work, WorkPc
      <4>4. CASE r = Off
        BY <4>4 DEF Off, Work, WorkPc
      <4> QED
        BY <3>3, <4>2, <4>3, <4>4
    <3>5. progress' \in [Activities -> -1 .. MaxTrips - 1] /\ recovered' \subseteq Trips
      <4>1. t \in -1 .. MaxTrips - 1
        BY <3>1 DEF Trips
      <4>2. recovered' = recovered \cup {t}
            /\ (progress' = [progress EXCEPT ![p[1]] = t] \/ UNCHANGED progress)
        BY <2>7 DEF Recovered
      <4> HIDE DEF t
      <4> QED
        BY <2>1, <3>1, <4>1, <4>2 DEF TypeOK
    <3> QED
      <4>1. /\ work' \in [Attempts -> Work]
            /\ \A q \in Attempts : work'[q].pc # "off" => work'[q].index \in Batch(q[1])
        BY <3>3, <3>4, WorkUpdate
      <4>2. handle' \subseteq Attempts
        BY <2>7 DEF Recovered, TypeOK
      <4> QED
        BY <1>0, <2>7, <3>5, <4>1, <4>2 DEF TypeOK, Recovered
  <2>8. CASE ReturnNil(p)
    BY <1>0, <2>1, <2>8 DEF TypeOK, ReturnNil, Off, Work, WorkPc, tripVars
  <2>9. CASE AttemptFails(p)
    <3>1. Off \in Work /\ work' = [work EXCEPT ![p] = Off]
      BY <2>9 DEF AttemptFails, Off, Work, WorkPc
    <3>2. /\ work' \in [Attempts -> Work]
          /\ \A q \in Attempts : work'[q].pc # "off" => work'[q].index \in Batch(q[1])
      BY <3>1, WorkUpdate DEF Off
    <3>3. /\ status' \in [Activities -> {"none", "scheduled", "running", "done", "failed"}]
          /\ faults' \in Nat
      BY <2>1, <2>9 DEF TypeOK, AttemptFails, Retry, Fault
    <3> QED
      BY <1>0, <2>9, <3>2, <3>3 DEF TypeOK, AttemptFails
  <2> QED
    BY <1>7, <2>3, <2>4, <2>5, <2>6, <2>7, <2>8, <2>9 DEF AttemptStep
<1> QED
  BY <1>1, <1>2, <1>3, <1>4, <1>5, <1>6, <1>7 DEF Next

\* An activity under way that the server moves on stays under its policy.
LEMMA ActivityUpdate ==
  ASSUME TypeOK, Scheduling, NEW i \in Activities, status[i] \in {"scheduled", "running"},
         NEW v \in {"scheduled", "running", "done", "failed"},
         status' = [status EXCEPT ![i] = v],
         \A j \in Activities \ {i} : attempts'[j] = attempts[j],
         v = "scheduled" => attempts'[i] < MaxAttempts,
         wfPc' = wfPc, progress' = progress, [Next]_vars
  PROVE  Scheduling'
<1>1. /\ ActivityCount' = ActivityCount
      /\ \A j \in Activities : Batch(j)' = Batch(j)
  BY ListKept
<1>2. \A j \in Activities : status'[j] = IF j = i THEN v ELSE status[j]
  BY DEF TypeOK
<1>3. wfPc \notin {"list", "completed"} /\ i < ActivityCount
  BY DEF Scheduling
<1> QED
  BY <1>1, <1>2, <1>3 DEF Scheduling

LEMMA SchedulingStep == TypeOK /\ Scheduling /\ [Next]_vars => Scheduling'
<1> SUFFICES ASSUME TypeOK, Scheduling, [Next]_vars PROVE Scheduling'
  OBVIOUS
<1>0. /\ count' = count /\ ActivityCount' = ActivityCount
      /\ \A i \in Activities : Batch(i)' = Batch(i)
  BY ListKept
<1>1. CASE UNCHANGED <<wfPc, status, attempts, progress>>
  BY <1>0, <1>1 DEF Scheduling
<1>2. ASSUME NEW t \in Trips, SendTrip(t) \/ TripContinues(t) PROVE Scheduling'
  BY <1>1, <1>2 DEF SendTrip, TripContinues, actVars
<1>3. CASE RecoverStep
  <2>1. CASE List
    <3>1. \A i \in Activities :
            status'[i] = IF i < ActivityCount THEN "scheduled" ELSE "none"
      BY <2>1 DEF List
    <3>2. wfPc' = "wait" /\ UNCHANGED <<attempts, progress>> /\ wfPc = "list"
      BY <2>1 DEF List
    <3>3. \A i \in Activities : attempts[i] < MaxAttempts
      BY <3>2 DEF Scheduling
    <3> QED
      BY <1>0, <3>1, <3>2, <3>3 DEF Scheduling
  <2>2. CASE ListNothing
    <3>1. ActivityCount = 0
      BY <2>2 DEF ListNothing, ActivityCount, Wanted
    <3>2. \A i \in Activities : ~(i < ActivityCount)
      BY <3>1 DEF Activities, Wanted
    <3> QED
      BY <1>0, <2>2, <3>2 DEF Scheduling, ListNothing, actVars
  <2>3. CASE CompleteRecover
    BY <1>0, <2>3 DEF Scheduling, CompleteRecover, actVars
  <2> QED
    BY <1>3, <2>1, <2>2, <2>3 DEF RecoverStep
<1>4. ASSUME NEW i \in Activities, StartAttempt(i) PROVE Scheduling'
  <2>1. PICK v \in {"running", "done"} : status' = [status EXCEPT ![i] = v]
    BY <1>4 DEF StartAttempt
  <2>2. /\ status[i] = "scheduled" /\ wfPc' = wfPc /\ progress' = progress
        /\ attempts' = [attempts EXCEPT ![i] = @ + 1]
    BY <1>4 DEF StartAttempt
  <2>3. \A j \in Activities \ {i} : attempts'[j] = attempts[j]
    BY <2>2 DEF TypeOK
  <2> QED
    BY <2>1, <2>2, <2>3, ActivityUpdate
<1>5. ASSUME NEW i \in Activities, AttemptWithoutList(i) PROVE Scheduling'
  <2>1. /\ status[i] = "scheduled" /\ wfPc' = wfPc /\ progress' = progress
        /\ attempts' = [attempts EXCEPT ![i] = @ + 1]
    BY <1>5 DEF AttemptWithoutList
  <2>2. PICK v \in {"scheduled", "failed"} :
          /\ status' = [status EXCEPT ![i] = v]
          /\ v = "scheduled" => attempts'[i] < MaxAttempts
    BY <1>5 DEF AttemptWithoutList
  <2>3. \A j \in Activities \ {i} : attempts'[j] = attempts[j]
    BY <2>1 DEF TypeOK
  <2> QED
    BY <2>1, <2>2, <2>3, ActivityUpdate
<1>6. ASSUME NEW i \in Activities, Retry(i), status[i] = "running",
             UNCHANGED <<wfPc, attempts, progress>>
      PROVE  Scheduling'
  <2>1. PICK v \in {"scheduled", "failed"} :
          /\ status' = [status EXCEPT ![i] = v]
          /\ v = "scheduled" => attempts'[i] < MaxAttempts
    BY <1>6 DEF Retry
  <2> QED
    BY <1>6, <2>1, ActivityUpdate
<1>7. ASSUME NEW i \in Activities, AttemptTimesOut(i) PROVE Scheduling'
  BY <1>6, <1>7 DEF AttemptTimesOut
<1>8. ASSUME NEW p \in Attempts, AttemptStep(p) PROVE Scheduling'
  <2>1. p[1] \in Activities
    BY AttemptFacts
  <2>2. CASE ReadHistory(p) \/ Terminate(p) \/ StartRun(p) \/ Inject(p)
    BY <1>1, <2>2 DEF ReadHistory, Terminate, StartRun, Inject
  <2>3. CASE Recovered(p)
    <3>1. work[p].index \in Batch(p[1])
      BY <2>3 DEF Recovered, TypeOK
    <3>2. \A i \in Activities : progress'[i] = progress[i] \/ progress'[i] \in Batch(i)
      BY <2>1, <2>3, <3>1 DEF Recovered, TypeOK
    <3>3. UNCHANGED <<wfPc, status, attempts>>
      BY <2>3 DEF Recovered
    <3> QED
      BY <1>0, <3>2, <3>3 DEF Scheduling
  <2>4. CASE ReturnNil(p)
    <3>1. /\ status[p[1]] = "running" /\ status' = [status EXCEPT ![p[1]] = "done"]
          /\ UNCHANGED <<wfPc, attempts, progress>>
      BY <2>4 DEF ReturnNil, Current
    <3> QED
      BY <2>1, <3>1, ActivityUpdate
  <2>5. CASE AttemptFails(p)
    BY <1>6, <2>1, <2>5 DEF AttemptFails, Current
  <2> QED
    BY <1>8, <2>2, <2>3, <2>4, <2>5 DEF AttemptStep
<1> QED
  BY <1>1, <1>2, <1>3, <1>4, <1>5, <1>7, <1>8 DEF Next, vars

------------------------------------------------------------------------------
\* What the steps of an attempt leave in its memory, and only there.
LEMMA WorkAfter ==
  ASSUME TypeOK, NEW p \in Attempts
  PROVE  /\ AttemptStep(p) => \A q \in Attempts : q # p => work'[q] = work[q]
         /\ ReadHistory(p) =>
              /\ work'[p].pc = IF open[work[p].index] THEN "terminate" ELSE "start"
              /\ work'[p].index = work[p].index
              /\ work'[p].base = base[work[p].index]
              /\ work'[p].signals = signals[work[p].index]
         /\ Terminate(p) => work'[p] = [work[p] EXCEPT !.pc = "start"]
         /\ StartRun(p) => work'[p] = [work[p] EXCEPT !.pc = "inject"]
         /\ Inject(p) => work'[p] = [work[p] EXCEPT !.signals = @ - 1]
         /\ Recovered(p) =>
              \/ /\ work[p].index + 1 < EndIndex(p[1])
                 /\ work'[p] = [Off EXCEPT !.pc = "read", !.index = work[p].index + 1]
              \/ /\ ~(work[p].index + 1 < EndIndex(p[1]))
                 /\ \/ Current(p) /\ work'[p] = [Off EXCEPT !.pc = "return", !.index = work[p].index]
                    \/ work'[p] = Off
         /\ ReturnNil(p) \/ AttemptFails(p) => work'[p] = Off
<1>1. /\ work \in [Attempts -> Work]
      /\ work[p] \in Work
  BY DEF TypeOK
<1>2. AttemptStep(p) => \A q \in Attempts : q # p => work'[q] = work[q]
  BY <1>1 DEF AttemptStep, ReadHistory, Terminate, StartRun, Inject, Recovered, ReturnNil,
    AttemptFails
<1>3. ASSUME ReadHistory(p)
      PROVE  /\ work'[p].pc = IF open[work[p].index] THEN "terminate" ELSE "start"
             /\ work'[p].index = work[p].index
             /\ work'[p].base = base[work[p].index]
             /\ work'[p].signals = signals[work[p].index]
  BY <1>1, <1>3 DEF ReadHistory, Work
<1>4. Terminate(p) => work'[p] = [work[p] EXCEPT !.pc = "start"]
  BY <1>1 DEF Terminate
<1>5. StartRun(p) => work'[p] = [work[p] EXCEPT !.pc = "inject"]
  BY <1>1 DEF StartRun
<1>6. Inject(p) => work'[p] = [work[p] EXCEPT !.signals = @ - 1]
  BY <1>1 DEF Inject
<1>7. Recovered(p) =>
        \/ /\ work[p].index + 1 < EndIndex(p[1])
           /\ work'[p] = [Off EXCEPT !.pc = "read", !.index = work[p].index + 1]
        \/ /\ ~(work[p].index + 1 < EndIndex(p[1]))
           /\ \/ Current(p) /\ work'[p] = [Off EXCEPT !.pc = "return", !.index = work[p].index]
              \/ work'[p] = Off
  BY <1>1 DEF Recovered
<1>8. ReturnNil(p) \/ AttemptFails(p) => work'[p] = Off
  BY <1>1 DEF ReturnNil, AttemptFails
<1> QED
  BY <1>2, <1>3, <1>4, <1>5, <1>6, <1>7, <1>8

\* A new attempt takes a place that was never used.
LEMMA StartAfter ==
  ASSUME TypeOK, Scheduling, Alone, NEW i \in Activities, StartAttempt(i)
  PROVE  LET p == <<i, attempts[i] + 1>> IN
         /\ p \in Attempts /\ ~Active(p)
         /\ \A q \in Attempts : q # p => work'[q] = work[q]
         /\ \/ /\ ResumeIndex(i) < EndIndex(i)
               /\ work'[p] = [Off EXCEPT !.pc = "read", !.index = ResumeIndex(i)]
               /\ status' = [status EXCEPT ![i] = "running"]
            \/ /\ ResumeIndex(i) >= EndIndex(i)
               /\ work' = work
               /\ status' = [status EXCEPT ![i] = "done"]
<1> DEFINE p == <<i, attempts[i] + 1>>
<1>1. p \in Attempts /\ p[1] = i /\ p[2] = attempts[i] + 1 /\ attempts[i] \in Nat
  <2>1. status[i] = "scheduled"
    BY DEF StartAttempt
  <2>2. attempts[i] \in Nat
    BY DEF TypeOK
  <2> QED
    BY <2>1, <2>2, FirstAttempt
<1>2. ~Active(p)
  <2> HIDE DEF p
  <2>1. Active(p) => p[2] <= attempts[p[1]]
    BY <1>1 DEF Alone
  <2> QED
    BY <1>1, <2>1
<1>3. work \in [Attempts -> Work]
  BY DEF TypeOK
<1> QED
  BY <1>1, <1>2, <1>3 DEF StartAttempt

\* The next attempt starts when the last is over, unless that timed out.
LEMMA AloneStep == TypeOK /\ Scheduling /\ Alone /\ [Next]_vars => Alone'
<1> SUFFICES ASSUME TypeOK, Scheduling, Alone, [Next]_vars PROVE Alone'
  OBVIOUS
<1>1. CASE UNCHANGED <<status, attempts, work, overdue>> /\ handle' \subseteq handle
  BY <1>1 DEF Alone, Active, Current
<1>2. ASSUME NEW t \in Trips, SendTrip(t) \/ TripContinues(t) PROVE Alone'
  BY <1>1, <1>2 DEF SendTrip, TripContinues, HandlesOfOthers, actVars
<1>3. CASE RecoverStep
  <2>1. CASE List
    <3>1. /\ \A i \in Activities : status[i] = "none"
          /\ UNCHANGED <<attempts, work, overdue, handle>>
      BY <2>1 DEF List, Scheduling, tripVars
    <3> QED
      BY <3>1, AttemptFacts DEF Alone, Active, Current
  <2> QED
    BY <1>1, <1>3, <2>1 DEF RecoverStep, ListNothing, CompleteRecover, tripVars, actVars
<1>4. ASSUME NEW i \in Activities, StartAttempt(i) PROVE Alone'
  <2> DEFINE p == <<i, attempts[i] + 1>>
  <2>1. /\ p \in Attempts /\ p[1] = i /\ p[2] = attempts[i] + 1 /\ ~Active(p)
        /\ \A q \in Attempts : q # p => work'[q] = work[q]
        /\ work'[p].pc # "off" => status'[i] = "running"
    <3>1. /\ p \in Attempts /\ ~Active(p)
          /\ \A q \in Attempts : q # p => work'[q] = work[q]
          /\ work' = work \/ status' = [status EXCEPT ![i] = "running"]
      BY <1>4, StartAfter
    <3>2. work'[p].pc # "off" => status'[i] = "running"
      BY <3>1 DEF Active, TypeOK
    <3> QED
      BY <3>1, <3>2
  <2>2. /\ status[i] = "scheduled" /\ UNCHANGED <<handle, overdue>>
        /\ attempts[i] \in Nat /\ attempts'[i] = attempts[i] + 1
        /\ \A j \in Activities \ {i} : attempts'[j] = attempts[j] /\ status'[j] = status[j]
    <3>1. /\ status[i] = "scheduled" /\ UNCHANGED <<handle, overdue>>
          /\ attempts' = [attempts EXCEPT ![i] = @ + 1]
          /\ \/ status' = [status EXCEPT ![i] = "running"]
             \/ status' = [status EXCEPT ![i] = "done"]
      BY <1>4 DEF StartAttempt, tripVars
    <3> QED
      BY <3>1 DEF TypeOK
  <2> HIDE DEF p
  <2>3. ASSUME NEW q \in Attempts, Active(q)'
        PROVE  q[2] <= attempts'[q[1]] /\ (q[1] \in overdue' \/ Current(q)')
    <3>1. CASE q = p
      <4>1. q[1] = i /\ q[2] = attempts'[i] /\ status'[i] = "running"
        BY <2>1, <2>2, <2>3, <3>1 DEF Active
      <4> QED
        BY <2>1, <2>2, <4>1 DEF Current
    <3>2. CASE q # p
      <4>1. Active(q) /\ q[1] \in Activities /\ q[2] \in Nat
        BY <2>1, <2>3, <3>2, AttemptFacts DEF Active
      <4> QED
        BY <2>2, <4>1 DEF Alone, Current
    <3> QED
      BY <3>1, <3>2
  <2>4. \A q \in handle' : work'[q].pc = "inject"
    BY <2>1, <2>2 DEF Alone, Active, TypeOK
  <2> QED
    BY <2>3, <2>4 DEF Alone
<1>5. ASSUME NEW i \in Activities, AttemptWithoutList(i) PROVE Alone'
  <2>1. /\ status[i] = "scheduled" /\ UNCHANGED <<handle, overdue, work>>
        /\ attempts[i] \in Nat /\ attempts'[i] = attempts[i] + 1
        /\ \A j \in Activities \ {i} : attempts'[j] = attempts[j] /\ status'[j] = status[j]
    BY <1>5 DEF AttemptWithoutList, TypeOK, tripVars
  <2> QED
    BY <2>1, AttemptFacts DEF Alone, Active, Current
<1>6. ASSUME NEW i \in Activities, AttemptTimesOut(i) PROVE Alone'
  <2>1. /\ UNCHANGED <<handle, attempts, work>> /\ overdue' = overdue \cup {i}
        /\ \A j \in Activities \ {i} : status'[j] = status[j]
    BY <1>6 DEF AttemptTimesOut, Retry, TypeOK, tripVars
  <2> QED
    BY <2>1, AttemptFacts DEF Alone, Active, Current
<1>7. ASSUME NEW p \in Attempts, AttemptStep(p) PROVE Alone'
  <2>1. /\ p[1] \in Activities /\ work[p] \in Work
        /\ \A q \in Attempts : q # p => work'[q] = work[q]
    BY <1>7, WorkAfter, AttemptFacts DEF TypeOK
  <2>2. CASE ReadHistory(p) \/ Terminate(p) \/ StartRun(p) \/ Inject(p) \/ Recovered(p)
    <3>1. Active(p) /\ UNCHANGED <<status, attempts, overdue>>
      BY <2>2 DEF ReadHistory, Terminate, StartRun, Inject, Recovered, Active
    <3>2. \A q \in handle' : q \in Attempts /\ work'[q].pc = "inject"
      <4>1. CASE ReadHistory(p) \/ Terminate(p)
        BY <2>1, <4>1 DEF ReadHistory, Terminate, Alone, TypeOK, tripVars
      <4>2. CASE StartRun(p)
        <5>1. handle' \subseteq handle \cup {p} /\ work'[p].pc = "inject"
          <6>1. work'[p] = [work[p] EXCEPT !.pc = "inject"]
            BY <4>2, WorkAfter
          <6> QED
            BY <2>1, <4>2, <6>1 DEF StartRun, HandlesOfOthers, Work
        <5> QED
          BY <2>1, <5>1 DEF Alone, TypeOK
      <4>3. CASE Inject(p)
        <5>1. handle' = handle /\ work'[p].pc = "inject"
          <6>1. work'[p] = [work[p] EXCEPT !.signals = @ - 1]
            BY <4>3, WorkAfter
          <6> QED
            BY <2>1, <4>3, <6>1 DEF Inject, Work
        <5> QED
          BY <2>1, <5>1 DEF Alone, TypeOK
      <4>4. CASE Recovered(p)
        BY <2>1, <4>4 DEF Recovered, Alone, TypeOK
      <4> QED
        BY <2>2, <4>1, <4>2, <4>3, <4>4
    <3> QED
      BY <2>1, <3>1, <3>2 DEF Alone, Active, Current
  <2>3. CASE ReturnNil(p) \/ AttemptFails(p)
    <3>1. /\ ~Active(p)' /\ Current(p) /\ UNCHANGED <<attempts, overdue>>
          /\ \A j \in Activities \ {p[1]} : status'[j] = status[j]
      <4>1. work'[p] = Off
        BY <2>3, WorkAfter
      <4>2. ~Active(p)' /\ Current(p) /\ UNCHANGED <<attempts, overdue>>
        BY <2>3, <4>1 DEF ReturnNil, AttemptFails, Active, Off
      <4>3. \A j \in Activities \ {p[1]} : status'[j] = status[j]
        BY <2>1, <2>3 DEF ReturnNil, AttemptFails, Retry, TypeOK
      <4> QED
        BY <4>2, <4>3
    <3>2. handle' \subseteq handle \ {p}
      BY <2>3 DEF ReturnNil, AttemptFails, Alone, tripVars
    <3>3. \A q \in handle' : work'[q].pc = "inject"
      BY <2>1, <3>2 DEF Alone, TypeOK
    <3>4. ASSUME NEW q \in Attempts, Active(q)', q[1] \notin overdue PROVE q[1] # p[1]
      <4>1. q # p /\ Active(q) /\ Current(q)
        BY <2>1, <3>1, <3>4 DEF Alone, Active
      <4> QED
        BY <3>1, <4>1, AttemptFacts DEF Current
    <3> QED
      BY <2>1, <3>1, <3>3, <3>4, AttemptFacts DEF Alone, Active, Current
  <2> QED
    BY <1>7, <2>2, <2>3 DEF AttemptStep
<1> QED
  BY <1>1, <1>2, <1>3, <1>4, <1>5, <1>6, <1>7 DEF Next, vars

\* What is skipped by no attempt is skipped by none of those that resume.
LEMMA CoveringStep == TypeOK /\ Scheduling /\ Alone /\ Covering /\ [Next]_vars => Covering'
<1> SUFFICES ASSUME TypeOK, Scheduling, Alone, Covering, [Next]_vars PROVE Covering'
  OBVIOUS
<1>0. \A i \in Activities : Batch(i)' = Batch(i) /\ EndIndex(i)' = EndIndex(i)
  BY ListKept
<1>1. CASE /\ UNCHANGED <<work, progress, recovered>>
           /\ \A i \in Activities : status'[i] = "done" => status[i] = "done"
  BY <1>0, <1>1, AttemptFacts DEF Covering, Active
<1>2. ASSUME NEW t \in Trips, SendTrip(t) \/ TripContinues(t) PROVE Covering'
  BY <1>1, <1>2 DEF SendTrip, TripContinues, actVars
<1>3. CASE RecoverStep
  BY <1>1, <1>3 DEF RecoverStep, List, ListNothing, CompleteRecover, tripVars, actVars
<1>4. ASSUME NEW i \in Activities, StartAttempt(i) PROVE Covering'
  <2> DEFINE p == <<i, attempts[i] + 1>>
  <2>1. /\ UNCHANGED <<progress, recovered>> /\ status[i] = "scheduled"
        /\ \A j \in Activities \ {i} : status'[j] = status[j]
    BY <1>4 DEF StartAttempt, TypeOK
  <2>2. /\ p \in Attempts /\ p[1] = i
        /\ \A q \in Attempts : q # p => work'[q] = work[q]
        /\ \/ /\ work'[p] = [Off EXCEPT !.pc = "read", !.index = ResumeIndex(i)]
              /\ status'[i] = "running"
           \/ work' = work /\ ResumeIndex(i) >= EndIndex(i)
    <3>1. status \in [Activities -> {"none", "scheduled", "running", "done", "failed"}]
      BY DEF TypeOK
    <3> QED
      BY <1>4, <3>1, StartAfter
  <2>3. /\ i < ActivityCount /\ ResumeIndex(i) \in Nat
        /\ \A t \in Batch(i) : t <= progress[i] \/ ResumeIndex(i) <= t
    BY <2>1, FirstAttempt
  <2>4. \A t \in Batch(i) : t \in Nat /\ t < EndIndex(i) /\ EndIndex(i) \in Nat
    <3>1. count \in Nat
      BY DEF TypeOK
    <3> QED
      BY <2>3, <3>1, BatchFacts
  <2> HIDE DEF p
  <2>5. \A t \in Batch(i) : t < ResumeIndex(i) => t \in recovered
    BY <2>3, <2>4 DEF Covering
  <2>6. CASE work' = work /\ ResumeIndex(i) >= EndIndex(i)
    <3>1. \A t \in Batch(i) : t \in recovered
      BY <2>3, <2>4, <2>5, <2>6
    <3> QED
      BY <1>0, <2>1, <2>6, <3>1, AttemptFacts DEF Covering, Active
  <2>7. CASE /\ work'[p] = [Off EXCEPT !.pc = "read", !.index = ResumeIndex(i)]
             /\ status'[i] = "running"
    <3>1. work'[p].index = ResumeIndex(i) /\ work'[p].pc = "read"
      BY <2>7 DEF Off
    <3>2. ASSUME NEW q \in Attempts, work'[q].pc # "off"
          PROVE  /\ \A t \in Batch(q[1]) : t < work'[q].index => t \in recovered
                 /\ work'[q].pc = "return" =>
                      work'[q].index \in recovered /\ EndIndex(q[1]) <= work'[q].index + 1
      <4>1. CASE q = p
        BY <2>2, <2>5, <3>1, <4>1
      <4>2. CASE q # p
        BY <2>2, <3>2, <4>2 DEF Covering, Active
      <4> QED
        BY <4>1, <4>2
    <3> QED
      BY <1>0, <2>1, <2>7, <3>2, AttemptFacts DEF Covering, Active
  <2> QED
    BY <2>2, <2>6, <2>7
<1>5. ASSUME NEW i \in Activities, AttemptWithoutList(i) \/ AttemptTimesOut(i) PROVE Covering'
  BY <1>1, <1>5 DEF AttemptWithoutList, AttemptTimesOut, Retry, TypeOK
<1>6. ASSUME NEW p \in Attempts, AttemptStep(p) PROVE Covering'
  <2>1. /\ p[1] \in Activities /\ work[p] \in Work
        /\ \A q \in Attempts : q # p => work'[q] = work[q]
    BY <1>6, WorkAfter, AttemptFacts DEF TypeOK
  <2> DEFINE t == work[p].index
  <2>2. CASE ReadHistory(p) \/ Terminate(p) \/ StartRun(p) \/ Inject(p)
    <3>1. work'[p].index = t /\ work'[p].pc # "return" /\ Active(p)
      <4>1. CASE ReadHistory(p)
        <5>1. work'[p].index = t /\ work'[p].pc \in {"terminate", "start"}
          BY <4>1, WorkAfter
        <5> QED
          BY <4>1, <5>1 DEF ReadHistory, Active
      <4>2. CASE Terminate(p)
        <5>1. work'[p] = [work[p] EXCEPT !.pc = "start"]
          BY <4>2, WorkAfter
        <5> QED
          BY <2>1, <4>2, <5>1 DEF Terminate, Active, Work
      <4>3. CASE StartRun(p)
        <5>1. work'[p] = [work[p] EXCEPT !.pc = "inject"]
          BY <4>3, WorkAfter
        <5> QED
          BY <2>1, <4>3, <5>1 DEF StartRun, Active, Work
      <4>4. CASE Inject(p)
        <5>1. work'[p] = [work[p] EXCEPT !.signals = @ - 1]
          BY <4>4, WorkAfter
        <5> QED
          BY <2>1, <4>4, <5>1 DEF Inject, Active, Work
      <4> QED
        BY <2>2, <4>1, <4>2, <4>3, <4>4
    <3>2. UNCHANGED <<status, progress, recovered>>
      BY <2>2 DEF ReadHistory, Terminate, StartRun, Inject
    <3>3. ASSUME NEW q \in Attempts, work'[q].pc # "off"
          PROVE  /\ \A u \in Batch(q[1]) : u < work'[q].index => u \in recovered
                 /\ work'[q].pc = "return" =>
                      work'[q].index \in recovered /\ EndIndex(q[1]) <= work'[q].index + 1
      BY <2>1, <3>1, <3>3 DEF Covering, Active
    <3> QED
      BY <1>0, <3>2, <3>3, AttemptFacts DEF Covering, Active
  <2>3. CASE Recovered(p)
    <3>1. /\ recovered' = recovered \cup {t} /\ UNCHANGED status
          /\ progress' = [progress EXCEPT ![p[1]] = t] \/ UNCHANGED progress
          /\ Active(p)
      BY <2>3 DEF Recovered, Active
    <3>2. /\ t \in Batch(p[1]) /\ t \in Nat
          /\ \A u \in Batch(p[1]) : u \in Nat /\ (u < t => u \in recovered)
      BY <2>1, <3>1, BatchType DEF Active, TypeOK, Covering
    <3>3. \/ work'[p].pc = "off"
          \/ work'[p].pc = "read" /\ work'[p].index = t + 1
          \/ /\ work'[p].pc = "return" /\ work'[p].index = t
             /\ ~(t + 1 < EndIndex(p[1]))
      <4>1. \/ work'[p] = [Off EXCEPT !.pc = "read", !.index = t + 1]
            \/ /\ work'[p] = [Off EXCEPT !.pc = "return", !.index = t]
               /\ ~(t + 1 < EndIndex(p[1]))
            \/ work'[p] = Off
        BY <2>3, WorkAfter
      <4> HIDE DEF t
      <4>2. [Off EXCEPT !.pc = "read", !.index = t + 1].pc = "read"
            /\ [Off EXCEPT !.pc = "read", !.index = t + 1].index = t + 1
        BY DEF Off
      <4>3. [Off EXCEPT !.pc = "return", !.index = t].pc = "return"
            /\ [Off EXCEPT !.pc = "return", !.index = t].index = t
        BY DEF Off
      <4>4. Off.pc = "off"
        BY DEF Off
      <4> QED
        BY <4>1, <4>2, <4>3, <4>4
    <3>4. EndIndex(p[1]) \in Nat
      <4>1. count \in Nat /\ p[1] < ActivityCount
        BY <2>1, <3>2, BatchType DEF TypeOK
      <4> QED
        BY <2>1, <4>1, BatchFacts
    <3> HIDE DEF t
    <3>5. ASSUME NEW q \in Attempts, work'[q].pc # "off"
          PROVE  /\ \A u \in Batch(q[1]) : u < work'[q].index => u \in recovered'
                 /\ work'[q].pc = "return" =>
                      work'[q].index \in recovered' /\ EndIndex(q[1]) <= work'[q].index + 1
      <4>1. CASE q = p
        BY <3>1, <3>2, <3>3, <3>4, <3>5, <4>1
      <4>2. CASE q # p
        BY <2>1, <3>1, <3>5, <4>2 DEF Covering, Active
      <4> QED
        BY <4>1, <4>2
    <3>6. ASSUME NEW i \in Activities, NEW u \in Batch(i), u <= progress'[i] \/ status'[i] = "done"
          PROVE  u \in recovered'
      <4>1. CASE progress'[i] = progress[i]
        BY <3>1, <3>6, <4>1 DEF Covering
      <4>2. CASE i = p[1] /\ progress'[i] = t
        BY <3>1, <3>2, <3>6, <4>2 DEF Covering
      <4> QED
        BY <2>1, <3>1, <4>1, <4>2 DEF TypeOK
    <3> QED
      BY <1>0, <3>5, <3>6, AttemptFacts DEF Covering, Active
  <2>4. CASE ReturnNil(p) \/ AttemptFails(p)
    <3>1. work'[p].pc = "off"
      <4>1. work'[p] = Off
        BY <2>4, WorkAfter
      <4> QED
        BY <4>1 DEF Off
    <3>2. /\ UNCHANGED <<progress, recovered>>
          /\ \A i \in Activities \ {p[1]} : status'[i] = status[i]
          /\ AttemptFails(p) => status'[p[1]] # "done"
      BY <2>1, <2>4 DEF ReturnNil, AttemptFails, Retry, TypeOK
    <3>3. ReturnNil(p) => \A u \in Batch(p[1]) : u \in recovered
      <4>1. SUFFICES ASSUME ReturnNil(p), NEW u \in Batch(p[1]) PROVE u \in recovered
        OBVIOUS
      <4>2. /\ work[p].pc = "return" /\ Active(p) /\ t \in recovered
            /\ EndIndex(p[1]) <= t + 1 /\ (u < t => u \in recovered)
        BY <4>1 DEF ReturnNil, Active, Covering
      <4>3. u < EndIndex(p[1]) /\ u \in Nat /\ EndIndex(p[1]) \in Nat /\ t \in Nat
        <5>1. count \in Nat /\ p[1] < ActivityCount
          BY <2>1, BatchType DEF TypeOK
        <5>2. t \in Nat
          BY <2>1 DEF Work
        <5> QED
          BY <2>1, <5>1, <5>2, BatchFacts
      <4> QED
        BY <4>2, <4>3
    <3>4. ASSUME NEW q \in Attempts, work'[q].pc # "off"
          PROVE  /\ \A u \in Batch(q[1]) : u < work'[q].index => u \in recovered
                 /\ work'[q].pc = "return" =>
                      work'[q].index \in recovered /\ EndIndex(q[1]) <= work'[q].index + 1
      BY <2>1, <3>1, <3>4 DEF Covering, Active
    <3>5. ASSUME NEW i \in Activities, NEW u \in Batch(i), u <= progress[i] \/ status'[i] = "done"
          PROVE  u \in recovered
      <4>1. CASE u <= progress[i] \/ status[i] = "done"
        BY <4>1 DEF Covering
      <4>2. CASE status'[i] = "done" /\ status[i] # "done"
        BY <2>4, <3>2, <3>3, <4>2
      <4> QED
        BY <3>5, <4>1, <4>2
    <3> QED
      BY <1>0, <3>2, <3>4, <3>5, AttemptFacts DEF Covering, Active
  <2> QED
    BY <1>6, <2>2, <2>3, <2>4 DEF AttemptStep
<1> QED
  BY <1>1, <1>2, <1>3, <1>4, <1>5, <1>6 DEF Next, vars

------------------------------------------------------------------------------
\* Two attempts that are at work on the same trip are the same, or one of their
\* activity timed out.
LEMMA SameTrip ==
  ASSUME TypeOK, Alone, NEW p \in Attempts, NEW q \in Attempts, Active(p), Active(q),
         p[1] \notin overdue, work[p].index = work[q].index \/ p[1] = q[1]
  PROVE  p = q
<1>1. /\ p[1] \in Activities /\ q[1] \in Activities
      /\ p = <<p[1], p[2]>> /\ q = <<q[1], q[2]>>
  BY AttemptFacts
<1>2. p[1] = q[1]
  <2>1. work[p].index \in Batch(p[1]) /\ work[q].index \in Batch(q[1])
    BY DEF TypeOK, Active
  <2>2. count \in 0 .. MaxTrips
    BY DEF TypeOK
  <2> QED
    BY <1>1, <2>1, <2>2, BatchesDisjoint
<1>3. p[2] = q[2]
  BY <1>2 DEF Alone, Current
<1> QED
  BY <1>1, <1>2, <1>3

\* What nobody touches stays closed only where it will be opened.
LEMMA ReopeningKept ==
  ASSUME [Next]_vars, NEW i \in Activities, ReopeningAt(i),
         progress'[i] = progress[i], status'[i] = "done" => status[i] = "done",
         \A q \in Attempts : q[1] = i => work'[q] = work[q] \/ work'[q].pc = "off",
         \A t \in Batch(i) : ~open'[t] => ~open[t]
  PROVE  ReopeningAt(i)'
<1>1. Batch(i)' = Batch(i)
  BY ListKept
<1>2. \A q \in Attempts : q[1] = i /\ work'[q].pc # "off" => work'[q] = work[q] /\ Active(q)
  BY DEF Active
<1> QED
  BY <1>1, <1>2 DEF ReopeningAt, Active

LEMMA ReopeningStep ==
  TypeOK /\ Scheduling /\ Alone /\ Covering /\ Reopening /\ [Next]_vars => Reopening'
<1> SUFFICES ASSUME TypeOK, Scheduling, Alone, Covering, Reopening, [Next]_vars,
                    NEW i \in Activities, i \notin overdue'
             PROVE  ReopeningAt(i)'
  BY DEF Reopening
<1> DEFINE Goal == ReopeningAt(i)'
<1>0. Batch(i)' = Batch(i)
  BY ListKept
<1>1. CASE UNCHANGED <<work, progress, open, overdue>> /\ (status'[i] = "done" => status[i] = "done")
  <2>1. ReopeningAt(i)
    BY <1>1 DEF Reopening
  <2> QED
    BY <1>1, <2>1, ReopeningKept
<1>2. ASSUME NEW t \in Trips, SendTrip(t) \/ TripContinues(t) PROVE Goal
  BY <1>1, <1>2 DEF SendTrip, TripContinues, actVars
<1>3. CASE RecoverStep
  BY <1>1, <1>3 DEF RecoverStep, List, ListNothing, CompleteRecover, tripVars, actVars
<1>4. ASSUME NEW j \in Activities, StartAttempt(j) PROVE Goal
  <2> DEFINE p == <<j, attempts[j] + 1>>
  <2>1. /\ UNCHANGED <<progress, open, overdue>> /\ status[j] = "scheduled"
        /\ \A k \in Activities \ {j} : status'[k] = status[k]
    BY <1>4 DEF StartAttempt, TypeOK, tripVars
  <2>2. /\ p \in Attempts /\ p[1] = j
        /\ \A q \in Attempts : q # p => work'[q] = work[q]
        /\ \/ /\ work'[p] = [Off EXCEPT !.pc = "read", !.index = ResumeIndex(j)]
              /\ status'[j] = "running"
           \/ work' = work /\ ResumeIndex(j) >= EndIndex(j)
    <3>1. status \in [Activities -> {"none", "scheduled", "running", "done", "failed"}]
      BY DEF TypeOK
    <3> QED
      BY <1>4, <3>1, StartAfter
  <2>3. /\ j < ActivityCount /\ ResumeIndex(j) \in Nat /\ progress[j] < ResumeIndex(j)
        /\ \A t \in Batch(j) : t <= progress[j] \/ ResumeIndex(j) <= t
    BY <2>1, FirstAttempt
  <2>4. \A t \in Batch(j) : t \in Nat /\ t < EndIndex(j) /\ EndIndex(j) \in Nat
    <3>1. count \in Nat
      BY DEF TypeOK
    <3> QED
      BY <2>3, <3>1, BatchFacts
  <2> HIDE DEF p
  <2>5. ReopeningAt(i) /\ progress[i] \in Int
    BY <2>1 DEF Reopening, TypeOK
  <2>6. CASE i # j
    BY <2>1, <2>2, <2>5, <2>6, ReopeningKept
  <2>7. CASE i = j /\ work' = work /\ ResumeIndex(j) >= EndIndex(j)
    <3>1. \A t \in Batch(i) : open[t]
      <4>1. SUFFICES ASSUME NEW t \in Batch(i), ~open[t] PROVE FALSE
        OBVIOUS
      <4>2. progress[i] < t
        BY <2>5, <4>1 DEF ReopeningAt
      <4>3. t \in Nat /\ t < EndIndex(i) /\ EndIndex(i) \in Nat /\ EndIndex(i) <= ResumeIndex(i)
            /\ ResumeIndex(i) \in Nat /\ (t <= progress[i] \/ ResumeIndex(i) <= t)
        BY <2>3, <2>4, <2>7
      <4> QED
        BY <2>5, <4>2, <4>3
    <3> QED
      BY <1>0, <2>1, <2>5, <2>7, <3>1 DEF ReopeningAt, Active
  <2>8. CASE /\ i = j /\ status'[j] = "running"
             /\ work'[p] = [Off EXCEPT !.pc = "read", !.index = ResumeIndex(j)]
    <3>1. work'[p].index = ResumeIndex(j) /\ work'[p].pc = "read"
      BY <2>8 DEF Off
    <3>2. ASSUME NEW q \in Attempts, q[1] = i, work'[q].pc # "off", work'[q].pc # "return"
          PROVE  progress[i] < work'[q].index
      <4>1. CASE q = p
        BY <2>3, <2>8, <3>1, <4>1
      <4>2. CASE q # p
        <5>1. work'[q] = work[q] /\ Active(q) /\ work[q].pc # "return"
          BY <2>2, <3>2, <4>2 DEF Active
        <5> QED
          BY <2>5, <3>2, <5>1 DEF ReopeningAt
      <4> QED
        BY <4>1, <4>2
    <3>3. ASSUME NEW t \in Batch(i), ~open[t]
          PROVE  /\ progress[i] < t
                 /\ \A q \in Attempts : q[1] = i /\ work'[q].pc # "off" =>
                      \/ work'[q].index < t
                      \/ work'[q].index = t /\ work'[q].pc \in {"read", "start"}
      <4>1. progress[i] < t /\ ResumeIndex(j) <= t
        BY <2>3, <2>4, <2>5, <2>8, <3>3 DEF ReopeningAt
      <4>2. work'[p].index < t \/ (work'[p].index = t /\ work'[p].pc \in {"read", "start"})
        BY <2>3, <2>4, <2>8, <3>1, <4>1
      <4> QED
        BY <2>2, <2>5, <3>3, <4>1, <4>2 DEF ReopeningAt, Active
    <3> QED
      BY <1>0, <2>1, <2>8, <3>2, <3>3 DEF ReopeningAt, Active
  <2> QED
    BY <2>2, <2>6, <2>7, <2>8
<1>5. ASSUME NEW j \in Activities, AttemptWithoutList(j) PROVE Goal
  BY <1>1, <1>5 DEF AttemptWithoutList, TypeOK, tripVars
<1>6. ASSUME NEW j \in Activities, AttemptTimesOut(j) PROVE Goal
  <2>1. /\ UNCHANGED <<work, progress, open>> /\ i \notin overdue
        /\ status'[i] = "done" => status[i] = "done"
    BY <1>6 DEF AttemptTimesOut, Retry, TypeOK, tripVars
  <2> QED
    BY <2>1, ReopeningKept DEF Reopening
<1>7. ASSUME NEW p \in Attempts, AttemptStep(p) PROVE Goal
  <2> DEFINE t == work[p].index
  <2>1. /\ p[1] \in Activities /\ work[p] \in Work /\ overdue' = overdue
        /\ \A q \in Attempts : q # p => work'[q] = work[q]
        /\ \A j \in Activities \ {p[1]} : status'[j] = status[j] /\ progress'[j] = progress[j]
    <3>1. /\ p[1] \in Activities /\ work[p] \in Work
          /\ \A q \in Attempts : q # p => work'[q] = work[q]
      BY <1>7, WorkAfter, AttemptFacts DEF TypeOK
    <3>2. /\ overdue' = overdue
          /\ \A j \in Activities \ {p[1]} : status'[j] = status[j] /\ progress'[j] = progress[j]
      BY <1>7, <3>1 DEF AttemptStep, ReadHistory, Terminate, StartRun, Inject, Recovered,
        ReturnNil, AttemptFails, Retry, TypeOK
    <3> QED
      BY <3>1, <3>2
  <2>2. Active(p) => t \in Batch(p[1]) /\ t \in Trips
    <3>1. Active(p) => t \in Batch(p[1])
      BY DEF TypeOK, Active
    <3> QED
      BY <2>1, <3>1, BatchType DEF TypeOK
  <2>3. \A u \in Trips : open[u] /\ ~open'[u] => Terminate(p) /\ u = t
    BY <1>7, <2>2 DEF AttemptStep, ReadHistory, Terminate, StartRun, Inject, Recovered, ReturnNil,
      AttemptFails, TypeOK, tripVars, Active
  <2>4. /\ ReopeningAt(i)
        /\ \A u \in Batch(i) : u \in Trips /\ u \in Nat
    BY <2>1, BatchType DEF Reopening, TypeOK
  <2> HIDE DEF t
  <2>5. CASE i # p[1]
    <3>1. \A u \in Batch(i) : ~open'[u] => ~open[u]
      <4>1. Terminate(p) => t \notin Batch(i)
        <5>1. Terminate(p) => t \in Batch(p[1])
          BY <2>2 DEF Terminate, Active
        <5> QED
          BY <2>1, <2>5, <5>1, BatchesDisjoint DEF TypeOK
      <4> QED
        BY <2>3, <2>4, <4>1
    <3> QED
      BY <2>1, <2>4, <2>5, <3>1, ReopeningKept
  <2>6. CASE i = p[1] /\ AttemptFails(p)
    <3>1. work'[p].pc = "off"
      <4>1. work'[p] = Off
        BY <2>6, WorkAfter
      <4> QED
        BY <4>1 DEF Off
    <3>2. status'[i] # "done" /\ UNCHANGED <<progress, open>>
      BY <2>6 DEF AttemptFails, Retry, TypeOK
    <3> QED
      BY <2>1, <2>4, <3>1, <3>2, ReopeningKept
  <2>7. ASSUME i = p[1], Active(p), ~AttemptFails(p) PROVE Goal
    <3>1. \A q \in Attempts : q[1] = i /\ q # p => work'[q].pc = "off"
      <4>1. \A q \in Attempts : q[1] = i /\ q # p => ~Active(q)
        BY <2>1, <2>7, SameTrip
      <4> QED
        BY <2>1, <4>1 DEF Active
    <3>2. Current(p)
      BY <2>1, <2>7 DEF Alone
    <3>3. SUFFICES
            /\ work'[p].pc \notin {"off", "return"} => progress'[i] < work'[p].index
            /\ \A u \in Batch(i) : ~open'[u] =>
                 /\ status'[i] # "done"
                 /\ progress'[i] < u
                 /\ work'[p].pc # "off" =>
                      \/ work'[p].index < u
                      \/ work'[p].index = u /\ work'[p].pc \in {"read", "start"}
      BY <1>0, <3>1 DEF ReopeningAt, Active
    <3>4. /\ work[p].pc # "return" => progress[i] < t
          /\ \A u \in Batch(i) : ~open[u] =>
               /\ status[i] # "done"
               /\ progress[i] < u
               /\ t < u \/ (t = u /\ work[p].pc \in {"read", "start"})
      <4>1. work[p].pc # "return" => progress[i] < t
        BY <2>4, <2>7 DEF ReopeningAt, t
      <4>2. ASSUME NEW u \in Batch(i), ~open[u]
            PROVE  /\ status[i] # "done"
                   /\ progress[i] < u
                   /\ t < u \/ (t = u /\ work[p].pc \in {"read", "start"})
        BY <2>4, <2>7, <4>2 DEF ReopeningAt, t
      <4> QED
        BY <4>1, <4>2
    <3>5. CASE ReadHistory(p)
      <4>1. /\ work'[p].pc = IF open[t] THEN "terminate" ELSE "start"
            /\ work'[p].index = t
        BY <3>5, WorkAfter DEF t
      <4>2. UNCHANGED <<open, status, progress>> /\ work[p].pc = "read"
        BY <3>5 DEF ReadHistory, tripVars
      <4> QED
        BY <2>4, <3>4, <4>1, <4>2
    <3>6. CASE Terminate(p)
      <4>1. work'[p].pc = "start" /\ work'[p].index = t
        <5>1. work'[p] = [work[p] EXCEPT !.pc = "start"]
          BY <3>6, WorkAfter
        <5> QED
          BY <2>1, <5>1 DEF Work, t
      <4>2. UNCHANGED <<status, progress>> /\ work[p].pc = "terminate" /\ status[i] = "running"
        BY <2>7, <3>2, <3>6 DEF Terminate, Current
      <4> QED
        BY <2>3, <2>4, <3>4, <4>1, <4>2
    <3>7. CASE StartRun(p)
      <4>1. work'[p].pc = "inject" /\ work'[p].index = t
        <5>1. work'[p] = [work[p] EXCEPT !.pc = "inject"]
          BY <3>7, WorkAfter
        <5> QED
          BY <2>1, <5>1 DEF Work, t
      <4>2. UNCHANGED <<status, progress>> /\ work[p].pc = "start"
        BY <3>7 DEF StartRun
      <4>3. open'[t] /\ ~Terminate(p)
        BY <2>2, <2>7, <3>7 DEF StartRun, Terminate, TypeOK, t
      <4> QED
        BY <2>3, <2>4, <3>4, <4>1, <4>2, <4>3
    <3>8. CASE Inject(p)
      <4>1. work'[p].pc = "inject" /\ work'[p].index = t
        <5>1. work'[p] = [work[p] EXCEPT !.signals = @ - 1]
          BY <3>8, WorkAfter
        <5> QED
          BY <2>1, <3>8, <5>1 DEF Work, Inject, t
      <4>2. UNCHANGED <<status, progress, open>> /\ work[p].pc = "inject"
        BY <3>8 DEF Inject
      <4> QED
        BY <2>4, <3>4, <4>1, <4>2
    <3>9. CASE Recovered(p)
      <4>1. \/ work'[p].pc = "off"
            \/ work'[p].pc = "read" /\ work'[p].index = t + 1
            \/ /\ work'[p].pc = "return" /\ work'[p].index = t
               /\ ~(t + 1 < EndIndex(i))
        <5>1. \/ work'[p] = [Off EXCEPT !.pc = "read", !.index = t + 1]
              \/ /\ work'[p] = [Off EXCEPT !.pc = "return", !.index = t]
                 /\ ~(t + 1 < EndIndex(i))
              \/ work'[p] = Off
          BY <2>7, <3>9, WorkAfter DEF t
        <5>2. [Off EXCEPT !.pc = "read", !.index = t + 1].pc = "read"
              /\ [Off EXCEPT !.pc = "read", !.index = t + 1].index = t + 1
          BY DEF Off
        <5>3. [Off EXCEPT !.pc = "return", !.index = t].pc = "return"
              /\ [Off EXCEPT !.pc = "return", !.index = t].index = t
          BY DEF Off
        <5>4. Off.pc = "off"
          BY DEF Off
        <5> QED
          BY <5>1, <5>2, <5>3, <5>4
      <4>2. UNCHANGED <<status, open>> /\ work[p].pc = "inject"
        BY <3>9 DEF Recovered
      <4>3. progress'[i] = t \/ progress'[i] = progress[i]
        BY <2>7, <3>9 DEF Recovered, TypeOK, t
      <4>4. t \in Nat /\ progress[i] \in Int
        BY <2>2, <2>7 DEF Trips, TypeOK
      <4>5. \A u \in Batch(i) : u < EndIndex(i) /\ EndIndex(i) \in Nat
        <5>1. count \in Nat /\ i < ActivityCount
          BY <2>2, <2>7, BatchType DEF TypeOK
        <5> QED
          BY <5>1, BatchFacts
      <4> QED
        BY <2>4, <3>4, <4>1, <4>2, <4>3, <4>4, <4>5
    <3>10. CASE ReturnNil(p)
      <4>1. work'[p].pc = "off"
        <5>1. work'[p] = Off
          BY <3>10, WorkAfter
        <5> QED
          BY <5>1 DEF Off
      <4>2. UNCHANGED open /\ work[p].pc = "return" /\ EndIndex(i) <= t + 1
        BY <2>7, <3>10 DEF ReturnNil, Covering, tripVars, t
      <4>3. \A u \in Batch(i) : u < EndIndex(i) /\ EndIndex(i) \in Nat
        <5>1. count \in Nat /\ i < ActivityCount
          BY <2>2, <2>7, BatchType DEF TypeOK
        <5> QED
          BY <5>1, BatchFacts
      <4>4. t \in Nat
        BY <2>2, <2>7 DEF Trips
      <4>5. \A u \in Batch(i) : open[u]
        BY <2>4, <3>4, <4>2, <4>3, <4>4
      <4> QED
        BY <4>1, <4>2, <4>5
    <3> QED
      BY <1>7, <2>7, <3>5, <3>6, <3>7, <3>8, <3>9, <3>10 DEF AttemptStep
  <2>8. Active(p) \/ AttemptFails(p)
    BY <1>7 DEF AttemptStep, ReadHistory, Terminate, StartRun, Inject, Recovered, ReturnNil, Active
  <2> QED
    BY <2>5, <2>6, <2>7, <2>8
<1> QED
  BY <1>1, <1>2, <1>3, <1>4, <1>5, <1>6, <1>7 DEF Next, vars

------------------------------------------------------------------------------
\* A trip that an attempt is at work on exists.
LEMMA AtWork ==
  ASSUME TypeOK, NEW p \in Attempts, Active(p)
  PROVE  /\ p[1] \in Activities
         /\ work[p].index \in Batch(p[1]) /\ work[p].index \in Trips
         /\ work[p].base \in Nat /\ work[p].signals \in Nat
<1>1. p[1] \in Activities
  BY AttemptFacts
<1>2. work[p].index \in Batch(p[1])
  BY DEF TypeOK, Active
<1>3. work[p].index \in Trips
  BY <1>1, <1>2, BatchType DEF TypeOK
<1>4. work[p] \in Work
  BY DEF TypeOK
<1> QED
  BY <1>1, <1>2, <1>3, <1>4 DEF Work

\* Arithmetic of a budget.
LEMMA BudgetSums ==
  ASSUME NEW b \in Nat, NEW s \in Nat, NEW w \in Nat, NEW n \in Nat
  PROVE  /\ b + s <= n => b + (s + 1) <= n + 1
         /\ b + s + w <= n => /\ b + (s + 1) + w <= n + 1
                              /\ b + (s + 1) + (w - 1) <= n
                              /\ b + s + (w - 1) <= n
         /\ b + s <= n => b + s <= n + 1
  OBVIOUS

\* What counts as one trip's budget does not grow but with what is sent.
LEMMA BudgetStep ==
  TypeOK /\ Scheduling /\ Alone /\ Budget /\ NoEventTwice /\ [Next]_vars
    => Budget' /\ NoEventTwice'
<1> SUFFICES ASSUME TypeOK, Scheduling, Alone, Budget, NoEventTwice, [Next]_vars
             PROVE  Budget' /\ NoEventTwice'
  OBVIOUS
<1>0. \A i \in Activities : /\ Batch(i)' = Batch(i)
                            /\ \A t \in Batch(i) : t \in Trips
  BY ListKept, BatchType DEF TypeOK
<1>a. /\ base \in [Trips -> Nat] /\ signals \in [Trips -> Nat] /\ sent \in [Trips -> Nat]
      /\ open \in [Trips -> BOOLEAN] /\ work \in [Attempts -> Work] /\ handle \subseteq Attempts
  BY DEF TypeOK
<1>1. ASSUME UNCHANGED <<base, signals, sent, open>>, overdue \subseteq overdue',
             handle' \subseteq handle,
             \A q \in Attempts : \/ work'[q] = work[q]
                                 \/ q \notin handle' /\ work'[q].pc \notin {"terminate", "start"}
      PROVE  Budget' /\ NoEventTwice'
  <2>1. NoEventTwice'
    BY <1>0, <1>1 DEF NoEventTwice
  <2>2. Budget'
    BY <1>1 DEF Budget
  <2> QED
    BY <2>1, <2>2
<1>2. ASSUME NEW u \in Trips, SendTrip(u) PROVE Budget' /\ NoEventTwice'
  <2>1. /\ sent' = [sent EXCEPT ![u] = @ + 1] /\ signals' = [signals EXCEPT ![u] = @ + 1]
        /\ UNCHANGED <<base, open, work, handle, overdue>>
    BY <1>2 DEF SendTrip, Signal, actVars
  <2>2. \A t \in Trips : \/ sent'[t] = sent[t] + 1 /\ signals'[t] = signals[t] + 1
                         \/ sent'[t] = sent[t] /\ signals'[t] = signals[t]
    BY <1>a, <2>1
  <2>3. NoEventTwice'
    BY <1>0, <1>a, <2>1, <2>2 DEF NoEventTwice
  <2>4. Budget'
    <3>1. SUFFICES ASSUME NEW p \in Attempts, p[1] \notin overdue
                   PROVE  LET t == work[p].index IN
                          /\ work[p].pc = "terminate" => work[p].base + work[p].signals <= sent'[t]
                          /\ work[p].pc = "start" =>
                               ~open[t] /\ work[p].base + work[p].signals <= sent'[t]
                          /\ p \in handle => base[t] + signals'[t] + work[p].signals <= sent'[t]
      BY <2>1 DEF Budget
    <3>2. CASE ~Active(p)
      BY <3>2 DEF Active, Alone
    <3>3. CASE Active(p)
      <4> DEFINE t == work[p].index
      <4>1. /\ t \in Trips /\ work[p].base \in Nat /\ work[p].signals \in Nat
        BY <3>3, AtWork
      <4>2. /\ base[t] \in Nat /\ signals[t] \in Nat /\ sent[t] \in Nat
            /\ \/ sent'[t] = sent[t] + 1 /\ signals'[t] = signals[t] + 1
               \/ sent'[t] = sent[t] /\ signals'[t] = signals[t]
        BY <1>a, <2>2, <4>1
      <4>3. /\ work[p].pc = "terminate" => work[p].base + work[p].signals <= sent[t]
            /\ work[p].pc = "start" => ~open[t] /\ work[p].base + work[p].signals <= sent[t]
            /\ p \in handle => base[t] + signals[t] + work[p].signals <= sent[t]
        BY <3>1 DEF Budget
      <4> HIDE DEF t
      <4>4. /\ work[p].pc = "terminate" => work[p].base + work[p].signals <= sent'[t]
            /\ work[p].pc = "start" => ~open[t] /\ work[p].base + work[p].signals <= sent'[t]
            /\ p \in handle => base[t] + signals'[t] + work[p].signals <= sent'[t]
        <5>1. CASE sent'[t] = sent[t] /\ signals'[t] = signals[t]
          BY <4>3, <5>1
        <5>2. CASE sent'[t] = sent[t] + 1 /\ signals'[t] = signals[t] + 1
          <6>1. work[p].base + work[p].signals <= sent[t] =>
                  work[p].base + work[p].signals <= sent[t] + 1
            BY <4>1, <4>2, BudgetSums
          <6>2. base[t] + signals[t] + work[p].signals <= sent[t] =>
                  base[t] + (signals[t] + 1) + work[p].signals <= sent[t] + 1
            BY <4>1, <4>2, BudgetSums
          <6> QED
            BY <4>3, <5>2, <6>1, <6>2
        <5> QED
          BY <4>2, <5>1, <5>2
      <4> QED
        BY <4>4 DEF t
    <3> QED
      BY <3>2, <3>3
  <2> QED
    BY <2>3, <2>4
<1>3. ASSUME NEW u \in Trips, TripContinues(u) PROVE Budget' /\ NoEventTwice'
  <2>1. /\ base' = [base EXCEPT ![u] = @ + RunLength] /\ signals' = [signals EXCEPT ![u] = 0]
        /\ signals[u] >= RunLength
        /\ handle' = HandlesOfOthers(u)
        /\ UNCHANGED <<sent, open, work, overdue>>
    BY <1>3 DEF TripContinues, actVars
  <2>2. \A t \in Trips : /\ base'[t] + signals'[t] <= base[t] + signals[t]
                         /\ t # u => base'[t] = base[t] /\ signals'[t] = signals[t]
    BY <1>a, <2>1
  <2>3. NoEventTwice'
    <3>1. \A t \in Trips : base'[t] \in Nat /\ signals'[t] \in Nat
      BY <1>a, <2>1
    <3> QED
      BY <1>0, <1>a, <2>1, <2>2, <3>1 DEF NoEventTwice
  <2>4. Budget'
    <3>1. \A p \in handle' : p \in handle /\ work[p].index # u /\ work[p].index \in Trips
      BY <1>a, <2>1, AtWork DEF HandlesOfOthers, Alone, Active
    <3> QED
      BY <2>1, <2>2, <3>1 DEF Budget
  <2> QED
    BY <2>3, <2>4
<1>4. CASE RecoverStep
  BY <1>1, <1>4 DEF RecoverStep, List, ListNothing, CompleteRecover, tripVars, actVars
<1>5. ASSUME NEW i \in Activities, StartAttempt(i) PROVE Budget' /\ NoEventTwice'
  <2> DEFINE p == <<i, attempts[i] + 1>>
  <2>1. /\ p \in Attempts /\ ~Active(p)
        /\ \A q \in Attempts : q # p => work'[q] = work[q]
        /\ \/ work'[p] = [Off EXCEPT !.pc = "read", !.index = ResumeIndex(i)]
           \/ work' = work
    BY <1>5, StartAfter
  <2>2. UNCHANGED <<base, signals, handle, open, sent, overdue>>
    BY <1>5 DEF StartAttempt, tripVars
  <2> HIDE DEF p
  <2>3. p \notin handle
    BY <2>1 DEF Alone, Active
  <2>4. [Off EXCEPT !.pc = "read", !.index = ResumeIndex(i)].pc = "read"
    BY DEF Off
  <2> QED
    BY <1>1, <2>1, <2>2, <2>3, <2>4
<1>6. ASSUME NEW i \in Activities, AttemptWithoutList(i) \/ AttemptTimesOut(i)
      PROVE  Budget' /\ NoEventTwice'
  BY <1>1, <1>6 DEF AttemptWithoutList, AttemptTimesOut, tripVars
<1>7. ASSUME NEW p \in Attempts, AttemptStep(p) PROVE Budget' /\ NoEventTwice'
  <2> DEFINE t == work[p].index
  <2>1. \A q \in Attempts : q # p => work'[q] = work[q]
    BY <1>7, WorkAfter
  <2>2. CASE Recovered(p) \/ ReturnNil(p) \/ AttemptFails(p)
    <3>1. work'[p].pc \in {"read", "return", "off"}
      <4>1. work'[p] \in {[Off EXCEPT !.pc = "read", !.index = t + 1],
                          [Off EXCEPT !.pc = "return", !.index = t], Off}
        BY <2>2, WorkAfter
      <4>2. /\ [Off EXCEPT !.pc = "read", !.index = t + 1].pc = "read"
            /\ [Off EXCEPT !.pc = "return", !.index = t].pc = "return"
            /\ Off.pc = "off"
        BY DEF Off
      <4> QED
        BY <4>1, <4>2
    <3>2. /\ UNCHANGED <<base, signals, open, sent, overdue>>
          /\ handle' \subseteq handle \ {p}
      BY <2>2 DEF Recovered, ReturnNil, AttemptFails, Alone, tripVars
    <3> QED
      BY <1>1, <2>1, <3>1, <3>2
  <2>3. ASSUME Active(p) /\ ~(Recovered(p) \/ ReturnNil(p) \/ AttemptFails(p))
        PROVE  Budget' /\ NoEventTwice'
    <3>1. /\ p[1] \in Activities /\ t \in Batch(p[1]) /\ t \in Trips
          /\ work[p].base \in Nat /\ work[p].signals \in Nat /\ work[p] \in Work
      BY <1>a, <2>3, AtWork
    <3>2. \A q \in Attempts : Active(q) /\ q # p /\ q[1] \notin overdue => work[q].index # t
      BY <2>3, SameTrip
    <3>3. \A i \in Activities \ overdue : t \in Batch(i) => p[1] \notin overdue
      BY <3>1, BatchesDisjoint DEF TypeOK
    <3>4. p[1] \notin overdue => base[t] + signals[t] <= sent[t]
      BY <3>1 DEF NoEventTwice
    <3>5. \A q \in handle : Active(q)
      BY DEF Alone, Active
    <3>6. \A q \in Attempts : q # p /\ q[1] \notin overdue =>
            /\ work[q].pc = "terminate" => work[q].base + work[q].signals <= sent[work[q].index]
            /\ work[q].pc = "start" => /\ ~open[work[q].index] /\ work[q].index # t
                                       /\ work[q].base + work[q].signals <= sent[work[q].index]
            /\ q \in handle =>
                 /\ work[q].index \in Trips /\ work[q].index # t
                 /\ base[work[q].index] + signals[work[q].index] + work[q].signals
                      <= sent[work[q].index]
      BY <1>a, <3>2, <3>5, AtWork DEF Budget, Active
    <3>7. SUFFICES
            /\ UNCHANGED <<sent, overdue>>
            /\ \A u \in Trips \ {t} : /\ base'[u] = base[u] /\ signals'[u] = signals[u]
                                      /\ ~open[u] => ~open'[u]
            /\ handle' \subseteq handle \cup {p}
            /\ p[1] \notin overdue =>
                 /\ base'[t] + signals'[t] <= sent[t]
                 /\ work'[p].index = t
                 /\ work'[p].pc = "terminate" => work'[p].base + work'[p].signals <= sent[t]
                 /\ work'[p].pc = "start" => ~open'[t] /\ work'[p].base + work'[p].signals <= sent[t]
                 /\ p \in handle' => base'[t] + signals'[t] + work'[p].signals <= sent[t]
      <4>1. NoEventTwice'
        <5>1. ASSUME NEW i \in Activities \ overdue, NEW u \in Batch(i)
              PROVE  base'[u] + signals'[u] <= sent[u]
          BY <1>0, <3>3, <3>7, <5>1 DEF NoEventTwice
        <5> QED
          BY <1>0, <3>7, <5>1 DEF NoEventTwice
      <4>2. ASSUME NEW q \in Attempts, q[1] \notin overdue
            PROVE  /\ work'[q].pc = "terminate" =>
                        work'[q].base + work'[q].signals <= sent[work'[q].index]
                   /\ work'[q].pc = "start" =>
                        /\ ~open'[work'[q].index]
                        /\ work'[q].base + work'[q].signals <= sent[work'[q].index]
                   /\ q \in handle' =>
                        base'[work'[q].index] + signals'[work'[q].index] + work'[q].signals
                          <= sent[work'[q].index]
        <5>1. CASE q = p
          BY <3>7, <4>2, <5>1
        <5>2. CASE q # p
          <6>1. work'[q] = work[q] /\ (q \in handle' => q \in handle)
            BY <2>1, <3>7, <5>2
          <6>2. work[q].pc = "start" => work[q].index \in Trips
            BY AtWork DEF Active
          <6> QED
            BY <3>6, <3>7, <4>2, <5>2, <6>1, <6>2
        <5> QED
          BY <5>1, <5>2
      <4> QED
        BY <3>7, <4>1, <4>2 DEF Budget
    <3>8. CASE ReadHistory(p)
      <4>1. /\ work'[p].pc = IF open[t] THEN "terminate" ELSE "start"
            /\ work'[p].index = t
            /\ work'[p].base = base[t]
            /\ work'[p].signals = signals[t]
        BY <3>8, WorkAfter
      <4>2. /\ UNCHANGED <<sent, overdue, base, signals, open, handle>> /\ p \notin handle
        BY <3>8 DEF ReadHistory, Alone, tripVars
      <4> HIDE DEF t
      <4> QED
        BY <1>a, <3>1, <3>4, <4>1, <4>2
    <3>9. CASE Terminate(p)
      <4>1. work'[p] = [work[p] EXCEPT !.pc = "start"]
        BY <3>9, WorkAfter
      <4>2. /\ work'[p].pc = "start" /\ work'[p].index = t
            /\ work'[p].base = work[p].base /\ work'[p].signals = work[p].signals
        BY <3>1, <4>1 DEF Work
      <4>3. /\ UNCHANGED <<sent, overdue, base, signals, handle>> /\ p \notin handle
            /\ work[p].pc = "terminate" /\ open' = [open EXCEPT ![t] = FALSE]
        BY <3>9 DEF Terminate, Alone
      <4>4. p[1] \notin overdue => work[p].base + work[p].signals <= sent[t]
        BY <4>3 DEF Budget
      <4> HIDE DEF t
      <4> QED
        BY <1>a, <3>1, <3>4, <4>2, <4>3, <4>4
    <3>10. CASE StartRun(p)
      <4>1. work'[p] = [work[p] EXCEPT !.pc = "inject"]
        BY <3>10, WorkAfter
      <4>2. work'[p].pc = "inject" /\ work'[p].index = t /\ work'[p].signals = work[p].signals
        BY <3>1, <4>1 DEF Work
      <4>3. /\ work[p].pc = "start" /\ UNCHANGED <<sent, overdue>>
            /\ handle' \subseteq handle \cup {p}
            /\ \/ /\ ~open[t] /\ open' = [open EXCEPT ![t] = TRUE]
                  /\ base' = [base EXCEPT ![t] = work[p].base]
                  /\ signals' = [signals EXCEPT ![t] = 0]
               \/ open[t] /\ UNCHANGED <<open, base, signals>>
        BY <3>10 DEF StartRun, HandlesOfOthers
      <4>4. p[1] \notin overdue => ~open[t] /\ work[p].base + work[p].signals <= sent[t]
        BY <4>3 DEF Budget
      <4>5. \A u \in Trips \ {t} : /\ base'[u] = base[u] /\ signals'[u] = signals[u]
                                   /\ ~open[u] => ~open'[u]
        BY <1>a, <3>1, <4>3
      <4>6. p[1] \notin overdue => base'[t] = work[p].base /\ signals'[t] = 0
        BY <1>a, <3>1, <4>3, <4>4
      <4>7. sent[t] \in Nat
        BY <1>a, <3>1
      <4> HIDE DEF t
      <4> QED
        BY <3>1, <4>2, <4>3, <4>4, <4>5, <4>6, <4>7
    <3>11. CASE Inject(p)
      <4>1. work'[p] = [work[p] EXCEPT !.signals = @ - 1]
        BY <3>11, WorkAfter
      <4>2. work'[p].index = t /\ work'[p].pc = "inject" /\ work'[p].signals = work[p].signals - 1
        BY <3>1, <3>11, <4>1 DEF Work, Inject
      <4>3. /\ UNCHANGED <<sent, overdue, base, open, handle>> /\ work[p].signals > 0
            /\ \/ p \in handle /\ signals' = [signals EXCEPT ![t] = @ + 1]
               \/ UNCHANGED signals
        BY <3>11 DEF Inject, Signal
      <4>4. p[1] \notin overdue /\ p \in handle => base[t] + signals[t] + work[p].signals <= sent[t]
        BY DEF Budget
      <4>5. base[t] \in Nat /\ signals[t] \in Nat /\ sent[t] \in Nat
        BY <1>a, <3>1
      <4>6. \/ p \in handle /\ signals'[t] = signals[t] + 1
            \/ signals'[t] = signals[t]
        BY <1>a, <3>1, <4>3
      <4>7. \A u \in Trips \ {t} : signals'[u] = signals[u]
        BY <1>a, <3>1, <4>3
      <4> HIDE DEF t
      <4>8. p[1] \notin overdue => base[t] + signals'[t] <= sent[t]
        BY <3>1, <3>4, <4>3, <4>4, <4>5, <4>6
      <4>9. p[1] \notin overdue /\ p \in handle =>
              base[t] + signals'[t] + work'[p].signals <= sent[t]
        <5>1. SUFFICES ASSUME p[1] \notin overdue, p \in handle
                       PROVE  base[t] + signals'[t] + (work[p].signals - 1) <= sent[t]
          BY <4>2
        <5>2. base[t] + signals[t] + work[p].signals <= sent[t]
          BY <4>4, <5>1
        <5>3. /\ base[t] + (signals[t] + 1) + (work[p].signals - 1) <= sent[t]
              /\ base[t] + signals[t] + (work[p].signals - 1) <= sent[t]
          BY <3>1, <4>5, <5>2, BudgetSums
        <5> QED
          BY <4>6, <5>3
      <4> QED
        BY <4>2, <4>3, <4>7, <4>8, <4>9
    <3> QED
      BY <1>7, <2>3, <3>8, <3>9, <3>10, <3>11 DEF AttemptStep
  <2>4. Active(p) \/ AttemptFails(p)
    BY <1>7 DEF AttemptStep, ReadHistory, Terminate, StartRun, Inject, Recovered, ReturnNil, Active
  <2> QED
    BY <2>2, <2>3, <2>4
<1>8. CASE UNCHANGED vars
  BY <1>1, <1>8 DEF vars
<1> QED
  BY <1>2, <1>3, <1>4, <1>5, <1>6, <1>7, <1>8 DEF Next

------------------------------------------------------------------------------
(***************************************************************************)
(* The theorems.                                                           *)
(***************************************************************************)

\* The invariant holds in every reachable state: the steps of RecoverWorkflow, of its
\* activities' attempts, of the server and of the clients all preserve it.
THEOREM Invariance == Spec => []IInv
<1>1. IInv /\ [Next]_vars => IInv'
  BY TypeStep, SchedulingStep, AloneStep, CoveringStep, ReopeningStep, BudgetStep DEF IInv
<1> QED
  BY <1>1, IInvInit, PTL DEF Spec

\* Every attempt works within its batch, and no activity is tried more often than its
\* retry policy allows (type correctness of RecoverExecutions and RecoverWorkflow).
THEOREM TypeCorrect == Spec => []TypeOK
<1>1. IInv => TypeOK
  BY DEF IInv
<1> QED
  BY <1>1, Invariance, PTL

\* RecoverExecutions: two activities never work on the same execution.
THEOREM OneActivityPerTripHolds == Spec => []OneActivityPerTrip
<1>1. IInv => OneActivityPerTrip
  <2>1. SUFFICES ASSUME TypeOK, NEW p \in Attempts, NEW q \in Attempts, p[1] # q[1],
                        Active(p), Active(q)
                 PROVE  work[p].index # work[q].index
    BY DEF IInv, OneActivityPerTrip, Active
  <2>2. /\ p[1] \in Activities /\ work[p].index \in Batch(p[1])
        /\ q[1] \in Activities /\ work[q].index \in Batch(q[1])
    BY <2>1, AtWork
  <2> QED
    BY <2>1, <2>2, BatchesDisjoint DEF TypeOK
<1> QED
  BY <1>1, Invariance, PTL

\* RecoverWorkflow: when it completes and no activity failed, every execution of the
\* list was recovered, whatever attempts failed, timed out or resumed.
THEOREM AllRecoveredHolds == Spec => []AllRecovered
<1>1. IInv => AllRecovered
  <2>1. SUFFICES ASSUME IInv, wfPc = "completed", \A i \in Activities : status[i] # "failed",
                        NEW t \in 0 .. count - 1
                 PROVE  t \in recovered
    BY DEF AllRecovered
  <2>2. PICK i \in Activities : i < ActivityCount /\ t \in Batch(i)
    <3>1. count \in 0 .. MaxTrips
      BY <2>1 DEF IInv, TypeOK
    <3> QED
      BY <3>1, BatchesCover
  <2>3. status[i] = "done"
    BY <2>1, <2>2 DEF IInv, Scheduling
  <2> QED
    BY <2>1, <2>2, <2>3 DEF IInv, Covering
<1> QED
  BY <1>1, Invariance, PTL

\* recoverSingleExecution: no event is counted twice while the attempts of the activity
\* follow one another.
THEOREM NoEventTwiceHolds == Spec => []NoEventTwice
<1>1. IInv => NoEventTwice
  BY DEF IInv
<1> QED
  BY <1>1, Invariance, PTL

\* recoverSingleExecution: an activity that ended leaves every execution open while its
\* attempts follow one another, wherever the last of them failed and the next resumed.
THEOREM TripsOpenAgainHolds == Spec => []TripsOpenAgain
<1>1. IInv => TripsOpenAgain
  BY DEF IInv, Reopening, ReopeningAt, TripsOpenAgain
<1> QED
  BY <1>1, Invariance, PTL
==============================================================================
