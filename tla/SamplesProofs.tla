---------------------------- MODULE SamplesProofs -----------------------------
(* The invariants of Samples, for every value of its constants that SamplesAssumption  *)
(* allows. A sample has its inductive invariant in its own module, IInv; two lemmas of   *)
(* each sample, here or in SamplesLemmas, show that it holds at the start and that the    *)
(* steps keep it, and a behaviour takes steps of one sample only.                        *)
EXTENDS SamplesLemmas

(* A step is one of the sample that the behaviour is of, and stays with it. *)
LEMMA StepOf ==
  ASSUME [Next]_vars
  PROVE  /\ which' = which
         /\ which = "cart" => [Cart!Next]_Cart!vars
         /\ which = "proxy" => [Proxy!Next]_Proxy!vars
         /\ which = "chat" => [Chat!Next]_Chat!vars
         /\ which = "messages" => [Greeting!Next]_Greeting!vars
         /\ which = "deployments" => [Version!Next]_Version!vars
         /\ which = "approval" => [Approval!Next]_Approval!vars
         /\ which = "listings" => [Listing!Next]_Listing!vars
         /\ which = "payloads" => [Payload!Next]_Payload!vars
         /\ which = "flows" => [Flow!Next]_Flow!vars
         /\ which = "schedule" => [Schedule!Next]_Schedule!vars
         /\ which = "timer" => [Timer!Next]_Timer!vars
         /\ which = "signals" => [Await!Next]_Await!vars
         /\ which = "runs" => [Chain!Next]_Chain!vars
         /\ which = "cache" => [Lru!Next]_Lru!vars
         /\ which = "tokens" => [Token!Next]_Token!vars
         /\ which = "streams" => [Stream!Next]_Stream!vars
         /\ which = "early" => [Early!Next]_Early!vars
         /\ which = "guard" => [Guard!Next]_Guard!vars
         /\ which = "files" => [Files!Next]_Files!vars
         /\ which = "batch" => [Retried!Next]_Retried!vars
         /\ which = "polling" => [Poll!Next]_Poll!vars
         /\ which = "swarm" => [Swarm!Next]_Swarm!vars
         /\ which = "partitions" => [Split!Next]_Split!vars
  BY DEF Next, vars, Cart!vars, Proxy!vars, Chat!vars, Greeting!vars, Version!vars,
         Approval!vars, Listing!vars, Payload!vars, Flow!vars, Schedule!vars, Timer!vars,
         Await!vars, Chain!vars, Lru!vars, Token!vars, Stream!vars, Early!vars, Guard!vars,
         Files!vars, Retried!vars, Poll!vars, Swarm!vars, Split!vars

--------------------------------------------------------------------------------
(* Schedules: v1 is step, v2 schedule, v3 open, v4 started. *)

LEMMA ScheduleInit == Schedule!Init => Schedule!IInv
  BY SamplesAssumption DEF Schedule!Init, Schedule!IInv, Schedule!TypeOK, Schedule!Steps, Schedule!Sizes

LEMMA ScheduleStep ==
  ASSUME Schedule!IInv, [Schedule!Next]_Schedule!vars
  PROVE  Schedule!IInv'
<1> USE SamplesAssumption DEF Schedule!Sizes, Schedule!IInv, Schedule!TypeOK, Schedule!Steps
<1>1. CASE Schedule!Create
  BY <1>1 DEF Schedule!Create
<1>2. CASE Schedule!Trigger
  BY <1>2 DEF Schedule!Trigger
<1>3. CASE Schedule!Update
  <2>1. /\ v1 = "update" /\ v1' = "unpause" /\ v3' = v3 /\ v4' = v4
        /\ v2' = [exists |-> v2.exists, times |-> TRUE, paused |-> TRUE, limited |-> TRUE,
                  remaining |-> RemainingActions]
    BY <1>3 DEF Schedule!Update
  <2>2. Schedule!TypeOK'
    BY <2>1
  <2> QED
    BY <2>1, <2>2
<1>4. CASE Schedule!Unpause
  BY <1>4 DEF Schedule!Unpause
<1>5. CASE Schedule!Describe
  BY <1>5 DEF Schedule!Describe
<1>6. CASE Schedule!Delete
  BY <1>6 DEF Schedule!Delete
<1>7. CASE Schedule!CallFails
  BY <1>7 DEF Schedule!CallFails
<1>8. CASE Schedule!ClockStarts
  BY <1>8 DEF Schedule!ClockStarts
<1>9. CASE Schedule!SampleScheduleWorkflow
  BY <1>9 DEF Schedule!SampleScheduleWorkflow
<1>10. CASE UNCHANGED Schedule!vars
  BY <1>10 DEF Schedule!vars
<1> QED
  BY <1>1, <1>2, <1>3, <1>4, <1>5, <1>6, <1>7, <1>8, <1>9, <1>10 DEF Schedule!Next, Schedule!Progress

--------------------------------------------------------------------------------
(* UpdatableTimer: v1 is now, v2 timer, v3 channel, v4 sleep, v5 sent. *)

LEMMA TimerInit == Timer!Init => Timer!IInv
  BY DEF Timer!Init, Timer!IInv, Timer!TypeOK

LEMMA TimerStep ==
  ASSUME Timer!IInv, [Timer!Next]_Timer!vars
  PROVE  Timer!IInv'
<1> USE DEF Timer!IInv, Timer!TypeOK
<1>1. CASE Timer!TimerFires
  <2>1. /\ v1' = v1 /\ v3' = v3 /\ v4' = v4 /\ v5' = v5 /\ v2.due <= v1
        /\ v2' = [wakeUpTime |-> v2.wakeUpTime, due |-> v2.due, fired |-> TRUE]
    BY <1>1 DEF Timer!TimerFires
  <2> QED
    BY <2>1
<1>2. CASE Timer!WakeUp
  BY <1>2 DEF Timer!WakeUp
<1>3. CASE Timer!ReceiveUpdate
  BY <1>3, HeadTailProperties DEF Timer!ReceiveUpdate, Timer!Rescheduled
<1>4. CASE Timer!Tick
  BY <1>4 DEF Timer!Tick
<1>5. CASE Timer!CancelSleep
  BY <1>5 DEF Timer!CancelSleep
<1>6. ASSUME NEW t \in {v1 + 1, v1 + 2}, Timer!SignalUpdate(t) PROVE Timer!IInv'
  BY <1>6 DEF Timer!SignalUpdate
<1>7. CASE UNCHANGED Timer!vars
  BY <1>7 DEF Timer!vars
<1> QED
  BY <1>1, <1>2, <1>3, <1>4, <1>5, <1>6, <1>7 DEF Timer!Next, Timer!Progress

--------------------------------------------------------------------------------
(* AwaitSignals: v1 is clock, v2 signals, v3 main, v4 sender. *)

LEMMA AwaitInit == Await!Init => Await!IInv
  BY SamplesAssumption DEF Await!Sizes, Await!Init, Await!IInv, Await!TypeOK, Await!Open, Await!NotYet, Await!TotalLeft

(* When the workflow is past the first signal, some signal has come. *)
LEMMA AwaitFirst ==
  ASSUME Await!IInv, v3.awaits > 1 \/ 1 \in v2.received
  PROVE  v2.first \in Nat
<1>1. v3.awaits \in 1..3 /\ v2.first \in Nat \union {Await!NotYet}
  BY DEF Await!IInv, Await!TypeOK
<1>2. 1 \in v2.received
  BY <1>1 DEF Await!IInv
<1>3. v2.received /= {}
  BY <1>2
<1> QED
  BY <1>1, <1>3 DEF Await!IInv

(* A signal that comes later does not change when the first one came. *)
LEMMA AwaitSend ==
  ASSUME Await!IInv, NEW i \in 1..3, Await!SendSignal(i)
  PROVE  Await!IInv'
<1>1. /\ v1' = v1 /\ v3' = v3 /\ v4' = v4 \ {i} /\ v3.ended = "no"
      /\ v2' = [received |-> v2.received \union {i}, first |-> IF v2.first = Await!NotYet THEN v1 ELSE v2.first]
  BY DEF Await!SendSignal, Await!Open
<1>n. Await!NotYet \notin Nat
  BY DEF Await!NotYet
<1>2. v2 \in [received : SUBSET (1..3), first : Nat \union {Await!NotYet}] /\ v1 \in Nat /\ Await!NotYet \notin Nat
  BY <1>n DEF Await!IInv, Await!TypeOK
<1>3. v2'.first \in Nat /\ v2'.received = v2.received \union {i} /\ v2'.received \in SUBSET (1..3)
  BY <1>1, <1>2
<1>4. v2' \in [received : SUBSET (1..3), first : Nat \union {Await!NotYet}]
  BY <1>1, <1>3
<1>5. v4 \in SUBSET (1..3) /\ v3 \in [awaits : 1..3, until : Int, ended : {"no", "done", "no time left", "timed out"}]
  BY DEF Await!IInv, Await!TypeOK
<1>6. Await!TypeOK'
  BY <1>1, <1>2, <1>4, <1>5 DEF Await!TypeOK
<1>7. ASSUME v3.awaits > 1 PROVE v2'.first = v2.first
  <2>1. v2.first \in Nat
    BY <1>7, AwaitFirst
  <2> QED
    BY <1>1, <1>2, <2>1
<1>8. \A j \in 1..3 : j < v3.awaits \/ v3.ended = "done" => j \in v2.received
  BY DEF Await!IInv
<1>9. \A j \in 1..3 : j < v3'.awaits \/ v3'.ended = "done" => j \in v2'.received
  BY <1>1, <1>3, <1>8
<1>10. v3.ended = "no" /\ v3.awaits > 1 => v1 <= v3.until /\ v3.until <= v2.first + Await!FromFirstSignalTimeout
  BY DEF Await!IInv, Await!Open
<1>11. v3'.ended = "no" /\ v3'.awaits > 1 => v1' <= v3'.until /\ v3'.until <= v2'.first + Await!FromFirstSignalTimeout
  BY <1>1, <1>7, <1>10
<1>12. v3'.ended /= "done" /\ v2'.first /= Await!NotYet
  BY <1>1, <1>2, <1>3
<1> QED
  BY <1>6, <1>9, <1>11, <1>12 DEF Await!IInv, Await!Open

(* The wait set for the next signal is over, at the latest, sixty seconds after the      *)
(* first one came.                                                                        *)
LEMMA AwaitProcess ==
  ASSUME Await!IInv, Await!ProcessSignal
  PROVE  Await!IInv'
<1>1. /\ v3.awaits \in v2.received /\ v3.ended = "no"
      /\ v1' = v1 /\ v2' = v2 /\ v4' = v4
  BY DEF Await!ProcessSignal, Await!Open
<1>2. /\ v3.awaits \in 1..3 /\ v3.until \in Int /\ v1 \in Nat /\ v4 \in SUBSET (1..3)
      /\ v3 = [awaits |-> v3.awaits, until |-> v3.until, ended |-> v3.ended]
      /\ v2 \in [received : SUBSET (1..3), first : Nat \union {Await!NotYet}]
  BY DEF Await!IInv, Await!TypeOK
<1>3. \A j \in 1..3 : j < v3.awaits => j \in v2.received
  BY DEF Await!IInv
<1>4. \A j \in 1..3 : j <= v3.awaits => j \in v2.received
  BY <1>1, <1>2, <1>3
<1>5. 1 \in v2.received
  BY <1>2, <1>4
<1>6. v2.first \in Nat
  BY <1>5, AwaitFirst
<1>7. v2.received /= {} => v2.first /= Await!NotYet
  BY DEF Await!IInv
<1>8. v3.awaits > 1 => v1 <= v3.until /\ v3.until <= v2.first + Await!FromFirstSignalTimeout
  BY <1>1 DEF Await!IInv, Await!Open
<1>9. CASE v3.awaits = 3
  <2>1. v3' = [awaits |-> 3, until |-> v3.until, ended |-> "done"]
    BY <1>2, <1>9 DEF Await!ProcessSignal
  <2>2. \A j \in 1..3 : j \in v2.received
    BY <1>4, <1>9
  <2>3. v1' - v2'.first <= Await!FromFirstSignalTimeout
    BY <1>1, <1>2, <1>6, <1>8, <1>9 DEF Await!FromFirstSignalTimeout
  <2>4. Await!TotalLeft' >= 0
    BY <1>1, <1>2, <1>6, <2>3 DEF Await!TotalLeft, Await!FromFirstSignalTimeout
  <2>5. Await!TypeOK'
    BY <1>1, <1>2, <2>1 DEF Await!TypeOK
  <2>6. v3'.ended = "done"
    BY <2>1
  <2>7. (v2.received /= {} => v2.first /= Await!NotYet)'
    BY <1>1, <1>7
  <2> QED
    BY <1>1, <2>2, <2>4, <2>5, <2>6, <2>7 DEF Await!IInv, Await!Open
<1>10. CASE v3.awaits /= 3 /\ Await!GetNextTimeout <= 0
  <2>1. v3' = [awaits |-> v3.awaits, until |-> v3.until, ended |-> "no time left"]
    BY <1>2, <1>10 DEF Await!ProcessSignal
  <2> QED
    BY <1>1, <1>2, <1>3, <1>7, <2>1 DEF Await!IInv, Await!TypeOK, Await!Open
<1>11. CASE v3.awaits /= 3 /\ ~(Await!GetNextTimeout <= 0)
  <2> DEFINE left == Await!GetNextTimeout
  <2>1. v3' = [awaits |-> v3.awaits + 1, until |-> v1 + left, ended |-> "no"]
    BY <1>1, <1>2, <1>11 DEF Await!ProcessSignal
  <2>2. left \in Int /\ v1 + left <= v2.first + Await!FromFirstSignalTimeout
    BY <1>2, <1>6 DEF Await!GetNextTimeout, Await!MinOf, Await!SignalToSignalTimeout, Await!TotalLeft, Await!FromFirstSignalTimeout
  <2>3. left > 0
    BY <1>11, <2>2
  <2> HIDE DEF left
  <2>4. v3.awaits + 1 \in 1..3 /\ v1 + left \in Int /\ v1 <= v1 + left
    BY <1>2, <1>11, <2>2, <2>3
  <2>5. \A j \in 1..3 : j < v3.awaits + 1 => j \in v2.received
    BY <1>2, <1>4
  <2>6. Await!TypeOK'
    BY <1>1, <1>2, <2>1, <2>4 DEF Await!TypeOK
  <2> QED
    BY <1>1, <1>7, <2>1, <2>2, <2>4, <2>5, <2>6 DEF Await!IInv, Await!Open
<1> QED
  BY <1>9, <1>10, <1>11

LEMMA AwaitStep ==
  ASSUME Await!IInv, [Await!Next]_Await!vars
  PROVE  Await!IInv'
<1>1. ASSUME NEW i \in 1..3, Await!SendSignal(i) PROVE Await!IInv'
  BY <1>1, AwaitSend
<1>2. CASE Await!ProcessSignal
  BY <1>2, AwaitProcess
<1>3. CASE Await!TimedOut
  <2>1. v3 = [awaits |-> v3.awaits, until |-> v3.until, ended |-> v3.ended]
    BY DEF Await!IInv, Await!TypeOK
  <2>2. /\ v1' = v1 /\ v2' = v2 /\ v4' = v4 /\ v3.ended = "no"
        /\ v3' = [awaits |-> v3.awaits, until |-> v3.until, ended |-> "timed out"]
    BY <1>3, <2>1 DEF Await!TimedOut, Await!Open
  <2> QED
    BY <2>2 DEF Await!IInv, Await!TypeOK, Await!Open
<1>4. CASE Await!Tick
  <2>1. /\ v1' = v1 + 1 /\ v2' = v2 /\ v3' = v3 /\ v4' = v4
        /\ v3.ended = "no" /\ v1 < v3.until /\ v1 \in Nat /\ v3.until \in Int
    BY <1>4 DEF Await!Tick, Await!Open, Await!IInv, Await!TypeOK
  <2>2. v1' \in Nat /\ v1' <= v3.until
    BY <2>1
  <2> QED
    BY <2>1, <2>2 DEF Await!IInv, Await!TypeOK, Await!Open
<1>5. CASE UNCHANGED Await!vars
  BY <1>5 DEF Await!vars, Await!IInv, Await!TypeOK, Await!Open, Await!TotalLeft
<1> QED
  BY <1>1, <1>2, <1>3, <1>4, <1>5 DEF Await!Next, Await!Progress

LEMMA AwaitSafe == Await!IInv => Await!DoneInTime
<1> SUFFICES ASSUME Await!IInv PROVE Await!DoneInTime
  OBVIOUS
<1>1. v2.received \subseteq 1..3 /\ v3.awaits \in 1..3 /\ v1 \in Nat
  BY DEF Await!IInv, Await!TypeOK
<1>2. ASSUME v3.ended = "done" PROVE v2.received = 1..3 /\ Await!TotalLeft >= 0
  BY <1>1, <1>2 DEF Await!IInv
<1>3. ASSUME Await!Open, v3.awaits > 1 PROVE v1 <= v3.until /\ Await!TotalLeft >= 0
  <2>1. v1 <= v3.until /\ v3.until <= v2.first + Await!FromFirstSignalTimeout /\ v3.until \in Int
    BY <1>3 DEF Await!IInv, Await!TypeOK
  <2>2. v2.first \in Nat
    BY <1>3, AwaitFirst
  <2> QED
    BY <1>1, <2>1, <2>2 DEF Await!TotalLeft, Await!FromFirstSignalTimeout
<1> QED
  BY <1>2, <1>3 DEF Await!DoneInTime

--------------------------------------------------------------------------------
(* LongRuns: v1 is sample, v2 clock, v3 state, v4 main, v5 history. *)

(* What the Append of an entry leaves as it was and what it adds. *)
LEMMA Appended ==
  ASSUME NEW S, NEW s \in Seq(S), NEW e \in S, NEW t, t = Append(s, e)
  PROVE  /\ t \in Seq(S) /\ t /= <<>> /\ Len(s) \in Nat /\ Len(t) = Len(s) + 1
         /\ DOMAIN s = 1..Len(s) /\ DOMAIN t = 1..(Len(s) + 1)
         /\ \A i \in 1..Len(s) : t[i] = s[i]
         /\ t[Len(s) + 1] = e
  BY AppendProperties, LenProperties

LEMMA ChainInit == Chain!Init => Chain!IInv
  BY SamplesAssumption DEF Chain!Sizes, Chain!Init, Chain!IInv, Chain!TypeOK, Chain!HistoryFits, Chain!Is, Chain!Open

(* The history of a cron and of a counter grows by an entry that fits to the last one. *)
LEMMA ChainGrows ==
  ASSUME Chain!IInv, NEW e \in Nat \X Nat, v5' = Append(v5, e), v1' = v1, v1 \in {"cron", "counter"},
         v2' \in Nat, v4' \in [at : {"start", "work", "sleep", "awake", "returned"}, complete : BOOLEAN, this : Nat],
         v3' \in [total : Nat, runs : Nat, last : Nat, counter : Nat],
         v1 = "cron" => e[1] = v3.last /\ v3'.last = e[2],
         v1 = "counter" => e[1] = v3.counter /\ v3'.counter = e[1] + e[2]
  PROVE  Chain!IInv'
<1>1. v5 \in Seq(Nat \X Nat)
  BY DEF Chain!IInv, Chain!TypeOK
<1> DEFINE n == Len(v5)
<1>2. /\ v5' \in Seq(Nat \X Nat) /\ v5' /= <<>> /\ n \in Nat /\ Len(v5') = n + 1
      /\ DOMAIN v5 = 1..n /\ DOMAIN v5' = 1..(n + 1)
      /\ \A i \in 1..n : v5'[i] = v5[i]
      /\ v5'[n + 1] = e
  BY <1>1, Appended
<1>3. v5 = <<>> => n = 0
  BY <1>1
<1>4. v5 /= <<>> => n > 0
  BY <1>1, EmptySeq
<1> HIDE DEF n
<1>5. Chain!TypeOK'
  BY <1>2 DEF Chain!TypeOK
<1>6. CASE v1 = "cron"
  <2>1. \A i \in 1..n : v5[i][1] = IF i = 1 THEN 0 ELSE v5[i - 1][2]
    BY <1>2, <1>6 DEF Chain!IInv, Chain!HistoryFits, Chain!Is
  <2>2. v3.last = IF n = 0 THEN 0 ELSE v5[n][2]
    BY <1>3, <1>4, <1>6 DEF Chain!IInv, Chain!Is, n
  <2>3. ASSUME NEW i \in 1..(n + 1) PROVE v5'[i][1] = IF i = 1 THEN 0 ELSE v5'[i - 1][2]
    <3>1. CASE i = n + 1
      <4>1. v5'[i][1] = v3.last
        BY <1>2, <1>6, <3>1
      <4>2. CASE n = 0
        BY <2>2, <3>1, <4>1, <4>2
      <4>3. CASE n /= 0
        <5>1. i - 1 = n /\ n \in 1..n /\ i /= 1
          BY <1>2, <3>1, <4>3
        <5> QED
          BY <1>2, <2>2, <4>1, <4>3, <5>1
      <4> QED
        BY <4>2, <4>3
    <3>2. CASE i /= n + 1
      <4>1. i \in 1..n /\ (i /= 1 => i - 1 \in 1..n)
        BY <1>2, <3>2
      <4> QED
        BY <1>2, <2>1, <4>1
    <3> QED
      BY <3>1, <3>2
  <2>4. v1' = v1 /\ \A i \in DOMAIN v5' : v5'[i][1] = IF i = 1 THEN 0 ELSE v5'[i - 1][2]
    BY <1>2, <2>3
  <2>5. v3'.last = IF v5' = <<>> THEN 0 ELSE v5'[Len(v5')][2]
    BY <1>2, <1>6
  <2>6. Chain!HistoryFits'
    BY <1>6, <2>4 DEF Chain!HistoryFits, Chain!Is
  <2> QED
    BY <1>5, <1>6, <2>5, <2>6 DEF Chain!IInv, Chain!Is
<1>7. CASE v1 = "counter"
  <2>1. \A i \in 1..n : v5[i][1] = IF i = 1 THEN 0 ELSE v5[i - 1][1] + v5[i - 1][2]
    BY <1>2, <1>7 DEF Chain!IInv, Chain!HistoryFits, Chain!Is
  <2>2. v3.counter = IF n = 0 THEN 0 ELSE v5[n][1] + v5[n][2]
    BY <1>3, <1>4, <1>7 DEF Chain!IInv, Chain!Is, n
  <2>3. ASSUME NEW i \in 1..(n + 1) PROVE v5'[i][1] = IF i = 1 THEN 0 ELSE v5'[i - 1][1] + v5'[i - 1][2]
    <3>1. CASE i = n + 1
      <4>1. v5'[i][1] = v3.counter
        BY <1>2, <1>7, <3>1
      <4>2. CASE n = 0
        BY <2>2, <3>1, <4>1, <4>2
      <4>3. CASE n /= 0
        <5>1. i - 1 = n /\ n \in 1..n /\ i /= 1
          BY <1>2, <3>1, <4>3
        <5> QED
          BY <1>2, <2>2, <4>1, <4>3, <5>1
      <4> QED
        BY <4>2, <4>3
    <3>2. CASE i /= n + 1
      <4>1. i \in 1..n /\ (i /= 1 => i - 1 \in 1..n)
        BY <1>2, <3>2
      <4> QED
        BY <1>2, <2>1, <4>1
    <3> QED
      BY <3>1, <3>2
  <2>4. v1' = v1 /\ \A i \in DOMAIN v5' : v5'[i][1] = IF i = 1 THEN 0 ELSE v5'[i - 1][1] + v5'[i - 1][2]
    BY <1>2, <2>3
  <2>5. v3'.counter = IF v5' = <<>> THEN 0 ELSE v5'[Len(v5')][1] + v5'[Len(v5')][2]
    BY <1>2, <1>7
  <2>6. Chain!HistoryFits'
    BY <1>7, <2>4 DEF Chain!HistoryFits, Chain!Is
  <2> QED
    BY <1>5, <1>7, <2>5, <2>6 DEF Chain!IInv, Chain!Is
<1> QED
  BY <1>6, <1>7

(* The actions that leave the history alone have little to say about it. *)
LEMMA ChainStep ==
  ASSUME Chain!IInv, [Chain!Next]_Chain!vars
  PROVE  Chain!IInv'
<1>0. /\ v2 \in Nat /\ v5 \in Seq(Nat \X Nat)
      /\ v3 \in [total : Nat, runs : Nat, last : Nat, counter : Nat]
      /\ v4 \in [at : {"start", "work", "sleep", "awake", "returned"}, complete : BOOLEAN, this : Nat]
  BY DEF Chain!IInv, Chain!TypeOK
<1>1. CASE Chain!ChildRun
  <2>1. /\ v1' = v1 /\ v1 = "child" /\ v2' = v2 /\ v5' = v5 /\ v4.at /= "returned"
        /\ v3' = [v3 EXCEPT !.total = @ + 1, !.runs = @ - 1]
        /\ v4' = IF v3.runs = 1 THEN [v4 EXCEPT !.at = "returned"] ELSE v4
    BY <1>1 DEF Chain!ChildRun, Chain!Is, Chain!Open
  <2>2. v3.runs > 0 /\ v3.runs \in Nat /\ v3.total \in Nat /\ v3.total + v3.runs = RunCount
    BY <1>0, <2>1 DEF Chain!IInv, Chain!HistoryFits, Chain!Is, Chain!Open
  <2>3. /\ v3' = [total |-> v3.total + 1, runs |-> v3.runs - 1, last |-> v3.last, counter |-> v3.counter]
        /\ v3.last \in Nat /\ v3.counter \in Nat
    BY <1>0, <2>1
  <2>4. /\ v4' \in [at : {"start", "work", "sleep", "awake", "returned"}, complete : BOOLEAN, this : Nat]
        /\ v4'.at = IF v3.runs = 1 THEN "returned" ELSE v4.at
    BY <1>0, <2>1
  <2>5. Chain!TypeOK'
    BY <1>0, <2>1, <2>2, <2>3, <2>4 DEF Chain!TypeOK
  <2>6. v3'.total + v3'.runs = RunCount /\ (v4'.at = "returned" => v3'.total = RunCount) /\ (v4'.at /= "returned" <=> v3'.runs > 0)
    BY <2>1, <2>2, <2>3, <2>4
  <2> QED
    BY <2>1, <2>5, <2>6 DEF Chain!IInv, Chain!HistoryFits, Chain!Is, Chain!Open
<1>2. CASE Chain!CronRun
  <2>1. v1' = v1 /\ v1 = "cron" /\ v2' = v2 /\ v3' = v3 /\ v5' = v5
    BY <1>2 DEF Chain!CronRun, Chain!Is
  <2>2. v4' \in [at : {"start", "work", "sleep", "awake", "returned"}, complete : BOOLEAN, this : Nat]
    BY <1>0, <1>2 DEF Chain!CronRun
  <2> QED
    BY <2>1, <2>2 DEF Chain!IInv, Chain!TypeOK, Chain!HistoryFits, Chain!Is
<1>3. ASSUME NEW succeeds \in BOOLEAN, Chain!DoSomething(succeeds) PROVE Chain!IInv'
  <2>a. v1' = v1 /\ v1 = "cron" /\ v2' = v2 + 1 /\ v4' = [v4 EXCEPT !.at = "start"]
    BY <1>3 DEF Chain!DoSomething, Chain!Is
  <2>b. v4' \in [at : {"start", "work", "sleep", "awake", "returned"}, complete : BOOLEAN, this : Nat]
    BY <1>0, <2>a
  <2>1. /\ v1' = v1 /\ v1 = "cron" /\ v2' \in Nat
        /\ v4' \in [at : {"start", "work", "sleep", "awake", "returned"}, complete : BOOLEAN, this : Nat]
    BY <1>0, <2>a, <2>b
  <2>2. CASE succeeds
    <3> DEFINE e == <<v3.last, v4.this>>
    <3>1. v5' = Append(v5, e) /\ v3' = [v3 EXCEPT !.last = v4.this]
      BY <1>3, <2>2 DEF Chain!DoSomething, Chain!LastRunTime
    <3>2. e \in Nat \X Nat /\ e[1] = v3.last /\ e[2] = v4.this
      BY <1>0
    <3>3. v3' \in [total : Nat, runs : Nat, last : Nat, counter : Nat] /\ v3'.last = e[2]
      BY <1>0, <3>1
    <3> HIDE DEF e
    <3> QED
      BY <2>1, <3>1, <3>2, <3>3, ChainGrows
  <2>3. CASE ~succeeds
    <3>1. v5' = v5 /\ v3' = v3
      BY <1>3, <2>3 DEF Chain!DoSomething
    <3> QED
      BY <2>1, <3>1 DEF Chain!IInv, Chain!TypeOK, Chain!HistoryFits, Chain!Is
  <2> QED
    BY <2>2, <2>3
<1>4. CASE Chain!SendEmail
  <2>1. /\ v1' = v1 /\ v1 = "sleep" /\ v2' = v2 /\ v3' = v3 /\ v4.at = "start"
        /\ v5' = Append(v5, <<v2, v2>>) /\ v4' = [v4 EXCEPT !.at = "sleep"]
    BY <1>4 DEF Chain!SendEmail, Chain!Is
  <2>2. Len(v5) = v2 - 1
    BY <2>1 DEF Chain!IInv, Chain!Is
  <2>3. /\ v4' \in [at : {"start", "work", "sleep", "awake", "returned"}, complete : BOOLEAN, this : Nat]
        /\ v4'.at = "sleep"
    BY <1>0, <2>1
  <2>4. <<v2, v2>> \in Nat \X Nat
    BY <1>0
  <2>5. v5' \in Seq(Nat \X Nat) /\ Len(v5') = Len(v5) + 1
    BY <1>0, <2>1, <2>4, Appended
  <2>6. Len(v5') = v2'
    BY <1>0, <2>1, <2>2, <2>5
  <2> QED
    BY <1>0, <2>1, <2>3, <2>5, <2>6 DEF Chain!IInv, Chain!TypeOK, Chain!HistoryFits, Chain!Is
<1>5. CASE Chain!SignalComplete
  <2>1. v1' = v1 /\ v1 = "sleep" /\ v2' = v2 /\ v3' = v3 /\ v5' = v5 /\ v4' = [v4 EXCEPT !.complete = TRUE]
    BY <1>5 DEF Chain!SignalComplete, Chain!Is
  <2>2. /\ v4' \in [at : {"start", "work", "sleep", "awake", "returned"}, complete : BOOLEAN, this : Nat]
        /\ v4'.at = v4.at
    BY <1>0, <2>1
  <2> QED
    BY <2>1, <2>2 DEF Chain!IInv, Chain!TypeOK, Chain!HistoryFits, Chain!Is
<1>6. CASE Chain!MonthIsOver
  <2>1. /\ v1' = v1 /\ v1 = "sleep" /\ v2' = v2 + 1 /\ v3' = v3 /\ v5' = v5 /\ v4.at = "sleep"
        /\ v4' = [v4 EXCEPT !.at = "awake"]
    BY <1>6 DEF Chain!MonthIsOver, Chain!Is
  <2>2. /\ v4' \in [at : {"start", "work", "sleep", "awake", "returned"}, complete : BOOLEAN, this : Nat]
        /\ v4'.at = "awake"
    BY <1>0, <2>1
  <2>n. v2' \in Nat
    BY <1>0, <2>1
  <2>3. Len(v5) = v2
    BY <2>1 DEF Chain!IInv, Chain!HistoryFits, Chain!Is
  <2>4. Len(v5') = v2' - 1
    BY <1>0, <2>1, <2>3
  <2> QED
    BY <2>1, <2>2, <2>n, <2>4 DEF Chain!IInv, Chain!TypeOK, Chain!HistoryFits, Chain!Is
<1>7. CASE Chain!GoOnOrReturn
  <2>1. v1' = v1 /\ v1 = "sleep" /\ v2' = v2 /\ v3' = v3 /\ v5' = v5
    BY <1>7 DEF Chain!GoOnOrReturn, Chain!Is
  <2>2. CASE v4.at = "awake" /\ v4' = [v4 EXCEPT !.at = "start"]
    <3>1. v4' \in [at : {"start", "work", "sleep", "awake", "returned"}, complete : BOOLEAN, this : Nat]
      BY <1>0, <2>2
    <3>2. v4'.at = "start"
      BY <1>0, <2>2
    <3> QED
      BY <2>1, <2>2, <3>1, <3>2 DEF Chain!IInv, Chain!TypeOK, Chain!HistoryFits, Chain!Is
  <2>3. CASE v4' = [v4 EXCEPT !.at = "returned"]
    <3>1. v4' \in [at : {"start", "work", "sleep", "awake", "returned"}, complete : BOOLEAN, this : Nat]
      BY <1>0, <2>3
    <3>2. v4'.at = "returned"
      BY <1>0, <2>3
    <3> QED
      BY <2>1, <3>1, <3>2 DEF Chain!IInv, Chain!TypeOK, Chain!HistoryFits, Chain!Is
  <2> QED
    BY <1>7, <2>2, <2>3 DEF Chain!GoOnOrReturn
<1>8. ASSUME NEW i \in {-1, 0, 2}, Chain!FetchAndAdd(i) PROVE Chain!IInv'
  <2> DEFINE e == <<v3.counter, i>>
  <2>1. /\ v1' = v1 /\ v1 = "counter" /\ v2' = v2 /\ v4' = v4 /\ i >= 0
        /\ v5' = Append(v5, e) /\ v3' = [v3 EXCEPT !.counter = @ + i]
    BY <1>8 DEF Chain!FetchAndAdd, Chain!nonNegative, Chain!Is
  <2>2. i \in Nat
    BY <2>1
  <2>3. e \in Nat \X Nat /\ e[1] = v3.counter /\ e[2] = i
    BY <1>0, <2>2
  <2>5. v3' = [total |-> v3.total, runs |-> v3.runs, last |-> v3.last, counter |-> v3.counter + i]
    BY <1>0, <2>1
  <2>6. v3.total \in Nat /\ v3.runs \in Nat /\ v3.last \in Nat /\ v3.counter + i \in Nat
    BY <1>0, <2>2
  <2>4. v3' \in [total : Nat, runs : Nat, last : Nat, counter : Nat] /\ v3'.counter = v3.counter + i
    BY <2>5, <2>6
  <2> HIDE DEF e
  <2> QED
    BY <1>0, <2>1, <2>3, <2>4, ChainGrows
<1>9. CASE Chain!Done
  <2>1. v1' = v1 /\ v1 = "counter" /\ v2' = v2 /\ v3' = v3 /\ v5' = v5 /\ v4' = [v4 EXCEPT !.at = "returned"]
    BY <1>9 DEF Chain!Done, Chain!Is
  <2>2. v4' \in [at : {"start", "work", "sleep", "awake", "returned"}, complete : BOOLEAN, this : Nat]
    BY <1>0, <2>1
  <2> QED
    BY <2>1, <2>2 DEF Chain!IInv, Chain!TypeOK, Chain!HistoryFits, Chain!Is
<1>10. CASE UNCHANGED Chain!vars
  BY <1>10 DEF Chain!vars, Chain!IInv, Chain!TypeOK, Chain!HistoryFits, Chain!Is, Chain!Open
<1> QED
  BY <1>1, <1>2, <1>3, <1>4, <1>5, <1>6, <1>7, <1>8, <1>9, <1>10 DEF Chain!Next, Chain!Progress

--------------------------------------------------------------------------------
(* PinCache: v1 is mode, v2 byAccess, v3 byKey, v4 held. *)

(* No key is in a list twice. *)
Distinct(s) == \A i, j \in DOMAIN s : s[i] = s[j] => i = j

(* Lru!RemoveAt closes the gap. *)
LEMMA Removed ==
  ASSUME NEW S, NEW s \in Seq(S), NEW p \in 1..Len(s)
  PROVE  LET t == Lru!RemoveAt(s, p)
         IN /\ t \in Seq(S) /\ Len(s) \in Nat /\ Len(t) = Len(s) - 1 /\ DOMAIN t = 1..(Len(s) - 1)
            /\ DOMAIN s = 1..Len(s)
            /\ \A i \in 1..(Len(s) - 1) : t[i] = IF i < p THEN s[i] ELSE s[i + 1]
<1> DEFINE t == Lru!RemoveAt(s, p)
           n == Len(s)
           a == SubSeq(s, 1, p - 1)
           b == SubSeq(s, p + 1, n)
<1>1. n \in Nat /\ p \in Int /\ p >= 1 /\ p <= n /\ DOMAIN s = 1..n /\ \A i \in 1..n : s[i] \in S
  BY LenProperties, ElementOfSeq
<1>2. /\ a \in Seq(S) /\ Len(a) = p - 1
      /\ \A i \in 1..(p - 1) : a[i] = s[i]
  <2>1. \A i \in 1..(p - 1) : s[i] \in S
    BY <1>1
  <2>2. /\ a \in Seq(S) /\ Len(a) = IF 1 <= p - 1 THEN (p - 1) - 1 + 1 ELSE 0
        /\ \A i \in 1..((p - 1) - 1 + 1) : a[i] = s[1 + i - 1]
    BY <1>1, <2>1, SubSeqProperties
  <2>3. Len(a) = p - 1
    BY <1>1, <2>2
  <2>4. ASSUME NEW i \in 1..(p - 1) PROVE a[i] = s[i]
    <3>1. i \in 1..((p - 1) - 1 + 1) /\ 1 + i - 1 = i
      BY <1>1
    <3> QED
      BY <2>2, <3>1
  <2> QED
    BY <2>2, <2>3, <2>4
<1>3. /\ b \in Seq(S) /\ Len(b) = n - p
      /\ \A i \in 1..(n - p) : b[i] = s[p + i]
  <2>1. \A i \in (p + 1)..n : s[i] \in S
    BY <1>1
  <2>2. /\ b \in Seq(S) /\ Len(b) = IF p + 1 <= n THEN n - (p + 1) + 1 ELSE 0
        /\ \A i \in 1..(n - (p + 1) + 1) : b[i] = s[(p + 1) + i - 1]
    BY <1>1, <2>1, SubSeqProperties
  <2> HIDE DEF b, n
  <2>3. Len(b) = n - p
    BY <1>1, <2>2
  <2>4. ASSUME NEW i \in 1..(n - p) PROVE b[i] = s[p + i]
    <3>1. i \in 1..(n - (p + 1) + 1) /\ (p + 1) + i - 1 = p + i
      BY <1>1
    <3> QED
      BY <2>2, <3>1
  <2> QED
    BY <2>2, <2>3, <2>4
<1>4. t = a \o b
  BY DEF Lru!RemoveAt
<1> HIDE DEF a, b, n, t
<1>5. /\ t \in Seq(S) /\ Len(t) = Len(a) + Len(b)
      /\ \A i \in 1..(Len(a) + Len(b)) : t[i] = IF i <= Len(a) THEN a[i] ELSE b[i - Len(a)]
  BY <1>2, <1>3, <1>4, ConcatProperties
<1>6. Len(t) = n - 1
  BY <1>1, <1>2, <1>3, <1>5
<1>7. DOMAIN t = 1..(n - 1)
  BY <1>5, <1>6, LenProperties
<1>8. ASSUME NEW i \in 1..(n - 1) PROVE t[i] = IF i < p THEN s[i] ELSE s[i + 1]
  <2>1. t[i] = IF i <= p - 1 THEN a[i] ELSE b[i - (p - 1)]
    BY <1>1, <1>2, <1>3, <1>5
  <2>2. CASE i < p
    BY <1>1, <1>2, <2>1, <2>2
  <2>3. CASE ~(i < p)
    <3>1. i - (p - 1) \in 1..(n - p) /\ p + (i - (p - 1)) = i + 1 /\ ~(i <= p - 1)
      BY <1>1, <2>3
    <3> QED
      BY <1>3, <2>1, <2>3, <3>1
  <2> QED
    BY <2>2, <2>3
<1> QED
  BY <1>1, <1>5, <1>6, <1>7, <1>8 DEF n, t

(* Without takes a key that is there once out of the list. *)
LEMMA CacheWithout ==
  ASSUME v2 \in Seq(CacheKeys), Distinct(v2), NEW k \in Lru!ToSet(v2), NEW t, t = Lru!Without(k)
  PROVE  /\ t \in Seq(CacheKeys) /\ Distinct(t) /\ Lru!ToSet(t) = Lru!ToSet(v2) \ {k} /\ Len(t) = Len(v2) - 1 /\ Len(v2) \in Nat
<1> DEFINE p == Lru!Place(k)
           n == Len(v2)
<1>1. p \in DOMAIN v2 /\ v2[p] = k
  BY DEF Lru!Place, Lru!ToSet
<1>2. DOMAIN v2 = 1..n /\ n \in Nat
  BY LenProperties
<1>3. t = Lru!RemoveAt(v2, p)
  BY DEF Lru!Without
<1> HIDE DEF p, n
<1>4. /\ t \in Seq(CacheKeys) /\ Len(t) = n - 1 /\ DOMAIN t = 1..(n - 1)
      /\ \A i \in 1..(n - 1) : t[i] = IF i < p THEN v2[i] ELSE v2[i + 1]
  <2>1. p \in 1..Len(v2)
    BY <1>1, <1>2 DEF n
  <2>2. /\ t \in Seq(CacheKeys) /\ Len(t) = Len(v2) - 1 /\ DOMAIN t = 1..(Len(v2) - 1)
        /\ \A i \in 1..(Len(v2) - 1) : t[i] = IF i < p THEN v2[i] ELSE v2[i + 1]
    <3>1. v2 \in Seq(CacheKeys)
      OBVIOUS
    <3> QED
      BY ONLY <1>3, <2>1, <3>1, Removed
  <2> QED
    BY <2>2 DEF n
<1>5. \A i \in 1..(n - 1) : i \in DOMAIN v2 /\ i + 1 \in DOMAIN v2 /\ p \in Int
  BY <1>1, <1>2
<1>6. Distinct(t)
  <2> SUFFICES ASSUME NEW i \in 1..(n - 1), NEW j \in 1..(n - 1), t[i] = t[j] PROVE i = j
    BY <1>4 DEF Distinct
  <2>1. (IF i < p THEN i ELSE i + 1) = (IF j < p THEN j ELSE j + 1)
    BY <1>4, <1>5 DEF Distinct
  <2> QED
    BY <1>5, <2>1
<1>7. Lru!ToSet(t) \subseteq Lru!ToSet(v2) \ {k}
  <2> SUFFICES ASSUME NEW i \in 1..(n - 1) PROVE t[i] \in Lru!ToSet(v2) /\ t[i] /= k
    BY <1>4 DEF Lru!ToSet
  <2>1. t[i] = v2[IF i < p THEN i ELSE i + 1] /\ (IF i < p THEN i ELSE i + 1) \in DOMAIN v2
    BY <1>4, <1>5
  <2>2. (IF i < p THEN i ELSE i + 1) /= p
    BY <1>5
  <2> QED
    BY <1>1, <2>1, <2>2 DEF Distinct, Lru!ToSet
<1>8. Lru!ToSet(v2) \ {k} \subseteq Lru!ToSet(t)
  <2> SUFFICES ASSUME NEW i \in 1..n, v2[i] /= k PROVE \E j \in 1..(n - 1) : t[j] = v2[i]
    BY <1>2, <1>4 DEF Lru!ToSet
  <2>1. i /= p /\ p \in 1..n
    BY <1>1, <1>2
  <2>2. CASE i < p
    <3>1. i \in 1..(n - 1)
      BY <1>2, <2>1, <2>2
    <3> QED
      BY <1>4, <2>2, <3>1
  <2>3. CASE ~(i < p)
    <3>1. i - 1 \in 1..(n - 1) /\ ~(i - 1 < p) /\ (i - 1) + 1 = i
      BY <1>2, <2>1, <2>3
    <3> QED
      BY <1>4, <3>1
  <2> QED
    BY <2>2, <2>3
<1> QED
  BY <1>2, <1>4, <1>6, <1>7, <1>8 DEF n

(* A key that is not there is put in front. *)
LEMMA CacheFront ==
  ASSUME NEW s \in Seq(CacheKeys), Distinct(s), NEW k \in CacheKeys, k \notin Lru!ToSet(s), NEW t, t = <<k>> \o s
  PROVE  /\ t \in Seq(CacheKeys) /\ Distinct(t) /\ Lru!ToSet(t) = Lru!ToSet(s) \union {k} /\ Len(t) = Len(s) + 1 /\ Len(s) \in Nat
<1> DEFINE n == Len(s)
<1>1. n \in Nat /\ DOMAIN s = 1..n
  BY LenProperties
<1>2. <<k>> \in Seq(CacheKeys) /\ Len(<<k>>) = 1 /\ <<k>>[1] = k
  OBVIOUS
<1>3. /\ t \in Seq(CacheKeys) /\ Len(t) = 1 + n
      /\ \A i \in 1..(1 + n) : t[i] = IF i <= 1 THEN <<k>>[i] ELSE s[i - 1]
  BY <1>2, ConcatProperties
<1>4. DOMAIN t = 1..(n + 1)
  BY <1>1, <1>3, LenProperties
<1> HIDE DEF n
<1>5. \A i \in 1..(n + 1) : t[i] = IF i = 1 THEN k ELSE s[i - 1]
  BY <1>1, <1>2, <1>3
<1>6. \A i \in 1..(n + 1) : i /= 1 => i - 1 \in DOMAIN s /\ t[i] /= k
  BY <1>1, <1>5 DEF Lru!ToSet
<1>7. Distinct(t)
  <2> SUFFICES ASSUME NEW i \in 1..(n + 1), NEW j \in 1..(n + 1), t[i] = t[j] PROVE i = j
    BY <1>4 DEF Distinct
  <2>1. CASE i = 1 \/ j = 1
    BY <1>5, <1>6, <2>1
  <2>2. CASE i /= 1 /\ j /= 1
    <3>1. i - 1 = j - 1
      BY <1>5, <1>6, <2>2 DEF Distinct
    <3> QED
      BY <1>1, <3>1
  <2> QED
    BY <2>1, <2>2
<1>8. Lru!ToSet(t) \subseteq Lru!ToSet(s) \union {k}
  BY <1>4, <1>5, <1>6 DEF Lru!ToSet
<1>9. Lru!ToSet(s) \union {k} \subseteq Lru!ToSet(t)
  <2>1. k \in Lru!ToSet(t)
    <3>1. 1 \in 1..(n + 1)
      BY <1>1
    <3> QED
      BY <1>4, <1>5, <3>1 DEF Lru!ToSet
  <2>2. ASSUME NEW i \in 1..n PROVE s[i] \in Lru!ToSet(t)
    <3>1. i + 1 \in 1..(n + 1) /\ i + 1 /= 1 /\ (i + 1) - 1 = i
      BY <1>1
    <3> QED
      BY <1>4, <1>5, <3>1 DEF Lru!ToSet
  <2> QED
    BY <1>1, <2>1, <2>2 DEF Lru!ToSet
<1> QED
  BY <1>1, <1>3, <1>7, <1>8, <1>9 DEF n

(* The least recently used key leaves the list. *)
LEMMA CacheOldest ==
  ASSUME NEW s \in Seq(CacheKeys), Distinct(s), Len(s) > 0, NEW t, t = Lru!Front(s)
  PROVE  /\ t \in Seq(CacheKeys) /\ Distinct(t) /\ Lru!ToSet(t) = Lru!ToSet(s) \ {Lru!Last(s)} /\ Len(t) = Len(s) - 1
         /\ Lru!Last(s) \in Lru!ToSet(s)
<1> DEFINE n == Len(s)
<1>1. n \in Nat /\ n > 0 /\ DOMAIN s = 1..n /\ \A i \in 1..n : s[i] \in CacheKeys
  BY LenProperties, ElementOfSeq
<1>2. t = SubSeq(s, 1, n - 1)
  BY DEF Lru!Front
<1> HIDE DEF n
<1>3. /\ t \in Seq(CacheKeys) /\ Len(t) = n - 1
      /\ \A i \in 1..(n - 1) : t[i] = s[i]
  <2>1. \A i \in 1..(n - 1) : s[i] \in CacheKeys
    BY <1>1
  <2>2. /\ t \in Seq(CacheKeys) /\ Len(t) = IF 1 <= n - 1 THEN (n - 1) - 1 + 1 ELSE 0
        /\ \A i \in 1..((n - 1) - 1 + 1) : t[i] = s[1 + i - 1]
    BY <1>1, <1>2, <2>1, SubSeqProperties
  <2>3. Len(t) = n - 1
    BY <1>1, <2>2
  <2>4. ASSUME NEW i \in 1..(n - 1) PROVE t[i] = s[i]
    <3>1. i \in 1..((n - 1) - 1 + 1) /\ 1 + i - 1 = i
      BY <1>1
    <3> QED
      BY <2>2, <3>1
  <2> QED
    BY <2>2, <2>3, <2>4
<1>4. DOMAIN t = 1..(n - 1)
  BY <1>3, LenProperties
<1>5. Lru!Last(s) = s[n] /\ n \in 1..n
  BY <1>1 DEF Lru!Last, n
<1>6. \A i \in 1..n : i \in 1..(n - 1) \/ i = n
  BY <1>1
<1>7. \A i \in 1..(n - 1) : i \in 1..n /\ i /= n
  BY <1>1
<1>8. Distinct(t)
  BY <1>1, <1>3, <1>4, <1>7 DEF Distinct
<1>9. Lru!ToSet(t) \subseteq Lru!ToSet(s) \ {s[n]}
  BY <1>1, <1>3, <1>4, <1>5, <1>7 DEF Lru!ToSet, Distinct
<1>10. Lru!ToSet(s) \ {s[n]} \subseteq Lru!ToSet(t)
  BY <1>1, <1>3, <1>4, <1>6 DEF Lru!ToSet
<1>11. s[n] \in Lru!ToSet(s)
  BY <1>1, <1>5 DEF Lru!ToSet
<1> QED
  BY <1>3, <1>5, <1>8, <1>9, <1>10, <1>11 DEF n

LEMMA CacheInit == Lru!Init => Lru!IInv
<1> SUFFICES ASSUME Lru!Init PROVE Lru!IInv
  OBVIOUS
<1>1. v2 = <<>> /\ v3 = <<>> /\ v4 = [k \in CacheKeys |-> 0] /\ v1 \in [pin : BOOLEAN, ttl : BOOLEAN]
  BY DEF Lru!Init
<1>2. Len(v2) = 0 /\ v2 \in Seq(CacheKeys) /\ DOMAIN v2 = {} /\ DOMAIN v3 = {} /\ Lru!ToSet(v2) = {}
  BY <1>1 DEF Lru!ToSet
<1>3. Len(v2) < CacheSize
  BY <1>2, SamplesAssumption DEF Lru!Sizes
<1>4. v3 \in [DOMAIN v3 -> [refs : Nat, old : BOOLEAN]] /\ v4 \in [CacheKeys -> Nat]
  BY <1>1, <1>2
<1>5. \A k \in CacheKeys : ~(v4[k] > 0)
  BY <1>1
<1> QED
  BY <1>1, <1>2, <1>3, <1>4, <1>5 DEF Lru!IInv, Lru!TypeOK, Lru!UsedEntriesStay

(* The uses of a key are those its entry counts. *)
LEMMA CacheStep ==
  ASSUME Lru!IInv, [Lru!Next]_Lru!vars
  PROVE  Lru!IInv'
<1> DEFINE Entries == [refs : Nat, old : BOOLEAN]
<1>0. /\ v1 \in [pin : BOOLEAN, ttl : BOOLEAN] /\ v2 \in Seq(CacheKeys) /\ DOMAIN v3 \subseteq CacheKeys
      /\ v3 \in [DOMAIN v3 -> Entries] /\ v4 \in [CacheKeys -> Nat]
      /\ Lru!ToSet(v2) = DOMAIN v3 /\ Len(v2) < CacheSize /\ Distinct(v2)
      /\ \A k \in CacheKeys : v4[k] > 0 => k \in DOMAIN v3 /\ v3[k].refs = v4[k]
      /\ \A k \in DOMAIN v3 : v3[k].refs = v4[k]
  BY DEF Lru!IInv, Lru!TypeOK, Lru!UsedEntriesStay, Lru!Cached, Distinct
<1>f. ASSUME v1' = v1, v2' \in Seq(CacheKeys), DOMAIN v3' \subseteq CacheKeys,
             v3' \in [DOMAIN v3' -> Entries], v4' \in [CacheKeys -> Nat],
             Lru!ToSet(v2') = DOMAIN v3', Len(v2') < CacheSize, Distinct(v2'),
             \A k \in CacheKeys \ DOMAIN v3' : v4'[k] = 0,
             \A k \in DOMAIN v3' : v3'[k].refs = v4'[k]
      PROVE  Lru!IInv'
  <2>1. \A k \in CacheKeys : v4'[k] > 0 => k \in DOMAIN v3' /\ v3'[k].refs = v4'[k]
    BY <1>f
  <2> QED
    BY <1>0, <1>f, <2>1 DEF Lru!IInv, Lru!TypeOK, Lru!UsedEntriesStay, Lru!Cached, Distinct
<1>g. \A k \in CacheKeys \ DOMAIN v3 : v4[k] = 0
  <2> SUFFICES ASSUME NEW k \in CacheKeys, k \notin DOMAIN v3 PROVE v4[k] = 0
    OBVIOUS
  <2>1. v4[k] \in Nat /\ ~(v4[k] > 0)
    BY <1>0
  <2> QED
    BY <2>1
<1>h. \A k \in DOMAIN v3 : v3[k].refs \in Nat /\ v3[k].old \in BOOLEAN
  BY <1>0
<1>c. CacheSize \in Nat \ {0} /\ Len(v2) \in Nat
  BY <1>0, SamplesAssumption, LenProperties DEF Lru!Sizes
(* The key goes, or comes to the front. *)
<1>w. ASSUME NEW k \in DOMAIN v3
      PROVE  /\ Lru!Without(k) \in Seq(CacheKeys) /\ Distinct(Lru!Without(k))
             /\ Lru!ToSet(Lru!Without(k)) = DOMAIN v3 \ {k} /\ Len(Lru!Without(k)) = Len(v2) - 1
  BY <1>0, CacheWithout
<1>t. ASSUME NEW k \in DOMAIN v3
      PROVE  /\ Lru!ToFront(k) \in Seq(CacheKeys) /\ Distinct(Lru!ToFront(k))
             /\ Lru!ToSet(Lru!ToFront(k)) = DOMAIN v3 /\ Len(Lru!ToFront(k)) = Len(v2)
  <2>1. Lru!ToFront(k) = <<k>> \o Lru!Without(k) /\ k \in CacheKeys /\ k \notin Lru!ToSet(Lru!Without(k))
    BY <1>0, <1>w DEF Lru!ToFront
  <2>2. /\ Lru!ToFront(k) \in Seq(CacheKeys) /\ Distinct(Lru!ToFront(k))
        /\ Lru!ToSet(Lru!ToFront(k)) = Lru!ToSet(Lru!Without(k)) \union {k}
        /\ Len(Lru!ToFront(k)) = Len(Lru!Without(k)) + 1
    BY <1>w, <2>1, CacheFront
  <2>3. Len(Lru!ToFront(k)) = (Len(v2) - 1) + 1
    BY <1>w, <2>2
  <2>4. Lru!ToSet(Lru!ToFront(k)) = (DOMAIN v3 \ {k}) \union {k}
    BY <1>w, <2>2
  <2>5. (DOMAIN v3 \ {k}) \union {k} = DOMAIN v3
    OBVIOUS
  <2>6. Len(Lru!ToFront(k)) = Len(v2)
    BY <1>c, <2>3
  <2> QED
    BY <2>2, <2>4, <2>5, <2>6
<1>p. ASSUME NEW k \in DOMAIN v3
      PROVE  /\ Lru!Pins(k) \in Nat /\ Lru!Holds(k) \in [CacheKeys -> Nat]
             /\ Lru!Pins(k) = Lru!Holds(k)[k] /\ \A j \in CacheKeys \ {k} : Lru!Holds(k)[j] = v4[j]
  BY <1>0, <1>h DEF Lru!Pins, Lru!Holds
<1> SUFFICES ASSUME Lru!Next PROVE Lru!IInv'
  BY DEF Lru!vars, Lru!IInv, Lru!TypeOK, Lru!UsedEntriesStay, Lru!Cached
<1>1. PICK k \in CacheKeys : Lru!Expires(k) \/ Lru!Get(k) \/ Lru!PutExisting(k) \/ Lru!PutNew(k) \/ Lru!Delete(k) \/ Lru!Release(k)
  BY DEF Lru!Next
(* An entry that is only changed. *)
<1>e. ASSUME NEW e \in Entries, k \in DOMAIN v3, v3' = [v3 EXCEPT ![k] = e]
      PROVE  /\ DOMAIN v3' = DOMAIN v3 /\ v3' \in [DOMAIN v3' -> Entries] /\ v3'[k] = e
             /\ \A j \in DOMAIN v3 \ {k} : v3'[j] = v3[j]
  BY <1>0, <1>e
<1>o. ASSUME k \in DOMAIN v3, v3' = Lru!Forget(k)
      PROVE  /\ DOMAIN v3' = DOMAIN v3 \ {k} /\ v3' \in [DOMAIN v3' -> Entries]
             /\ \A j \in DOMAIN v3' : v3'[j] = v3[j]
  BY <1>0, <1>o DEF Lru!Forget
<1>2. CASE Lru!Expires(k)
  <2>1. k \in DOMAIN v3 /\ v1' = v1 /\ v2' = v2 /\ v4' = v4 /\ v3' = [v3 EXCEPT ![k].old = TRUE]
    BY <1>2 DEF Lru!Expires, Lru!Cached
  <2> DEFINE e == [v3[k] EXCEPT !.old = TRUE]
  <2>2. e \in Entries /\ e.refs = v3[k].refs
    BY <1>0, <2>1
  <2>3. v3' = [v3 EXCEPT ![k] = e]
    BY <2>1
  <2> HIDE DEF e
  <2>4. /\ DOMAIN v3' = DOMAIN v3 /\ v3' \in [DOMAIN v3' -> Entries] /\ v3'[k] = e
        /\ \A j \in DOMAIN v3 \ {k} : v3'[j] = v3[j]
    BY <1>e, <2>1, <2>2, <2>3
  <2>5. \A j \in DOMAIN v3' : v3'[j].refs = v4'[j]
    BY <1>0, <2>1, <2>2, <2>4
  <2> HIDE DEF Entries
  <2> QED
    BY <1>0, <1>f, <1>g, <2>1, <2>4, <2>5
<1>3. CASE Lru!Get(k)
  <2>0. k \in DOMAIN v3 /\ v1' = v1
    BY <1>3 DEF Lru!Get, Lru!Cached
  <2>1. CASE Lru!Pins(k) = 0 /\ v3[k].old
    <3>1. v2' = Lru!Without(k) /\ v3' = Lru!Forget(k) /\ v4' = v4
      BY <1>3, <2>1 DEF Lru!Get
    <3>2. v4[k] = 0
      BY <1>0, <1>h, <2>0, <2>1 DEF Lru!Pins
    <3>3. /\ DOMAIN v3' = DOMAIN v3 \ {k} /\ v3' \in [DOMAIN v3' -> Entries]
          /\ \A j \in DOMAIN v3' : v3'[j] = v3[j]
      BY <1>o, <2>0, <3>1
    <3>4. Lru!ToSet(v2') = DOMAIN v3' /\ v2' \in Seq(CacheKeys) /\ Distinct(v2') /\ Len(v2') < CacheSize
      BY <1>0, <1>c, <1>w, <2>0, <3>1, <3>3
    <3>5. \A j \in DOMAIN v3' : v3'[j].refs = v4'[j]
      BY <1>0, <3>1, <3>3
    <3>6. \A j \in CacheKeys \ DOMAIN v3' : v4'[j] = 0
      BY <1>g, <3>1, <3>2, <3>3
    <3> HIDE DEF Entries
    <3> QED
      BY <1>0, <1>f, <2>0, <3>1, <3>3, <3>4, <3>5, <3>6
  <2>2. CASE ~(Lru!Pins(k) = 0 /\ v3[k].old)
    <3>1. v2' = Lru!ToFront(k) /\ v3' = [v3 EXCEPT ![k].refs = Lru!Pins(k)] /\ v4' = Lru!Holds(k)
      BY <1>3, <2>2 DEF Lru!Get
    <3> DEFINE e == [v3[k] EXCEPT !.refs = Lru!Pins(k)]
    <3>a. e = [refs |-> Lru!Pins(k), old |-> v3[k].old] /\ Lru!Pins(k) \in Nat
      BY <1>0, <1>p, <2>0
    <3>2. e \in Entries /\ e.refs = Lru!Pins(k)
      BY <1>h, <2>0, <3>a
    <3>3. v3' = [v3 EXCEPT ![k] = e]
      BY <3>1
    <3> HIDE DEF e
    <3>4. /\ DOMAIN v3' = DOMAIN v3 /\ v3' \in [DOMAIN v3' -> Entries] /\ v3'[k] = e
          /\ \A j \in DOMAIN v3 \ {k} : v3'[j] = v3[j]
      BY <1>e, <2>0, <3>2, <3>3
    <3>5. /\ v4' \in [CacheKeys -> Nat] /\ v4'[k] = e.refs /\ \A j \in CacheKeys \ {k} : v4'[j] = v4[j]
      BY <1>p, <2>0, <3>1, <3>2
    <3>6. \A j \in DOMAIN v3' : v3'[j].refs = v4'[j]
      BY <1>0, <3>4, <3>5
    <3>7. \A j \in CacheKeys \ DOMAIN v3' : v4'[j] = 0
      BY <1>g, <2>0, <3>4, <3>5
    <3>8. Lru!ToSet(v2') = DOMAIN v3' /\ v2' \in Seq(CacheKeys) /\ Distinct(v2') /\ Len(v2') < CacheSize
      BY <1>0, <1>t, <2>0, <3>1, <3>4
    <3> HIDE DEF Entries
    <3> QED
      BY <1>0, <1>f, <2>0, <3>4, <3>5, <3>6, <3>7, <3>8
  <2> QED
    BY <2>1, <2>2
<1>4. CASE Lru!PutExisting(k)
  <2> DEFINE e == [refs |-> Lru!Pins(k), old |-> v3[k].old /\ ~v1.ttl]
  <2>1. k \in DOMAIN v3 /\ v1' = v1 /\ v2' = Lru!ToFront(k) /\ v3' = [v3 EXCEPT ![k] = e] /\ v4' = Lru!Holds(k)
    BY <1>4 DEF Lru!PutExisting, Lru!Cached
  <2>2. e \in Entries /\ e.refs = Lru!Pins(k)
    <3>1. Lru!Pins(k) \in Nat /\ (v3[k].old /\ ~v1.ttl) \in BOOLEAN
      BY <1>p, <2>1
    <3> QED
      BY <3>1
  <2> HIDE DEF e
  <2>4. /\ DOMAIN v3' = DOMAIN v3 /\ v3' \in [DOMAIN v3' -> Entries] /\ v3'[k] = e
        /\ \A j \in DOMAIN v3 \ {k} : v3'[j] = v3[j]
    BY <1>e, <2>1, <2>2
  <2>5. /\ v4' \in [CacheKeys -> Nat] /\ v4'[k] = e.refs /\ \A j \in CacheKeys \ {k} : v4'[j] = v4[j]
    BY <1>p, <2>1, <2>2
  <2>6. \A j \in DOMAIN v3' : v3'[j].refs = v4'[j]
    BY <1>0, <2>4, <2>5
  <2>7. \A j \in CacheKeys \ DOMAIN v3' : v4'[j] = 0
    BY <1>g, <2>1, <2>4, <2>5
  <2>8. Lru!ToSet(v2') = DOMAIN v3' /\ v2' \in Seq(CacheKeys) /\ Distinct(v2') /\ Len(v2') < CacheSize
    BY <1>0, <1>t, <2>1, <2>4
  <2> HIDE DEF Entries
  <2> QED
    BY <1>0, <1>f, <2>1, <2>4, <2>5, <2>6, <2>7, <2>8
<1>5. CASE Lru!PutNew(k)
  <2> DEFINE refs == IF v1.pin THEN 1 ELSE 0
             put == [j \in DOMAIN v3 \union {k} |-> IF j = k THEN [refs |-> refs, old |-> FALSE] ELSE v3[j]]
             order == <<k>> \o v2
             oldest == Lru!Last(order)
             full == Len(order) = CacheSize
  <2>1. /\ k \notin DOMAIN v3 /\ v1' = v1
        /\ IF full /\ ~(put[oldest].refs = 0)
           THEN v2' = v2 /\ v3' = v3 /\ v4' = v4
           ELSE /\ v2' = (IF full THEN Lru!Front(order) ELSE order)
                /\ v3' = (IF full THEN [j \in DOMAIN put \ {oldest} |-> put[j]] ELSE put)
                /\ v4' = Lru!Holds(k)
    BY <1>5 DEF Lru!PutNew, Lru!Cached, Lru!Evictable
  <2>2. /\ order \in Seq(CacheKeys) /\ Distinct(order) /\ Lru!ToSet(order) = DOMAIN v3 \union {k} /\ Len(order) = Len(v2) + 1
    BY <1>0, <2>1, CacheFront
  <2>3. /\ DOMAIN put = DOMAIN v3 \union {k} /\ put \in [DOMAIN put -> Entries]
        /\ put[k].refs = refs /\ \A j \in DOMAIN v3 : put[j] = v3[j]
    BY <1>0, <2>1
  <2>4. /\ Lru!Holds(k) \in [CacheKeys -> Nat] /\ Lru!Holds(k)[k] = refs /\ \A j \in CacheKeys \ {k} : Lru!Holds(k)[j] = v4[j]
    BY <1>0, <1>g, <2>1 DEF Lru!Holds
  <2>5. \A j \in DOMAIN put : put[j].refs = Lru!Holds(k)[j]
    BY <1>0, <2>1, <2>3, <2>4
  <2>6. \A j \in CacheKeys \ DOMAIN put : Lru!Holds(k)[j] = 0
    BY <1>g, <2>3, <2>4
  <2> HIDE DEF put, order, refs
  <2>7. CASE full /\ ~(put[oldest].refs = 0)
    <3>1. v2' = v2 /\ v3' = v3 /\ v4' = v4
      BY <2>1, <2>7
    <3> HIDE DEF Entries
    <3> QED
      BY <1>0, <1>f, <1>g, <2>1, <3>1
  <2>8. CASE full /\ put[oldest].refs = 0
    <3>1. v2' = Lru!Front(order) /\ v3' = [j \in DOMAIN put \ {oldest} |-> put[j]] /\ v4' = Lru!Holds(k)
      BY <2>1, <2>8
    <3>2. /\ v2' \in Seq(CacheKeys) /\ Distinct(v2') /\ Lru!ToSet(v2') = Lru!ToSet(order) \ {oldest}
          /\ Len(v2') = Len(order) - 1 /\ oldest \in Lru!ToSet(order)
      BY <1>c, <2>2, <3>1, CacheOldest
    <3>3. /\ DOMAIN v3' = DOMAIN put \ {oldest} /\ v3' \in [DOMAIN v3' -> Entries]
          /\ \A j \in DOMAIN v3' : v3'[j] = put[j]
      BY <2>3, <3>1
    <3>4. \A j \in DOMAIN v3' : v3'[j].refs = v4'[j]
      BY <2>5, <3>1, <3>3
    <3>5. v4'[oldest] = 0
      BY <2>2, <2>3, <2>5, <2>8, <3>1, <3>2
    <3>6. \A j \in CacheKeys \ DOMAIN v3' : v4'[j] = 0
      BY <2>6, <3>1, <3>3, <3>5
    <3>7. Lru!ToSet(v2') = DOMAIN v3' /\ Len(v2') < CacheSize /\ DOMAIN v3' \subseteq CacheKeys
      BY <1>0, <1>c, <2>2, <2>3, <3>2, <3>3
    <3> HIDE DEF Entries
    <3> QED
      BY <1>f, <2>1, <2>4, <3>1, <3>2, <3>3, <3>4, <3>6, <3>7
  <2>9. CASE ~full
    <3>1. v2' = order /\ v3' = put /\ v4' = Lru!Holds(k)
      BY <2>1, <2>9
    <3>2. Len(v2') < CacheSize
      BY <1>0, <1>c, <2>2, <2>9, <3>1
    <3> HIDE DEF Entries
    <3> QED
      BY <1>0, <1>f, <2>1, <2>2, <2>3, <2>4, <2>5, <2>6, <3>1, <3>2
  <2> QED
    BY <2>7, <2>8, <2>9
<1>6. CASE Lru!Delete(k)
  <2>1. k \in DOMAIN v3 /\ v1' = v1 /\ v2' = Lru!Without(k) /\ v3' = Lru!Forget(k) /\ v4' = [v4 EXCEPT ![k] = 0]
    BY <1>6 DEF Lru!Delete, Lru!Cached
  <2>2. /\ DOMAIN v3' = DOMAIN v3 \ {k} /\ v3' \in [DOMAIN v3' -> Entries]
        /\ \A j \in DOMAIN v3' : v3'[j] = v3[j]
    BY <1>o, <2>1
  <2>3. v4' \in [CacheKeys -> Nat] /\ v4'[k] = 0 /\ \A j \in CacheKeys \ {k} : v4'[j] = v4[j]
    BY <1>0, <2>1
  <2>4. Lru!ToSet(v2') = DOMAIN v3' /\ v2' \in Seq(CacheKeys) /\ Distinct(v2') /\ Len(v2') < CacheSize
    BY <1>0, <1>c, <1>w, <2>1, <2>2
  <2>5. \A j \in DOMAIN v3' : v3'[j].refs = v4'[j]
    BY <1>0, <2>2, <2>3
  <2>6. \A j \in CacheKeys \ DOMAIN v3' : v4'[j] = 0
    BY <1>g, <2>2, <2>3
  <2> HIDE DEF Entries
  <2> QED
    BY <1>0, <1>f, <2>1, <2>2, <2>3, <2>4, <2>5, <2>6
<1>7. CASE Lru!Release(k)
  <2>1. v4[k] > 0 /\ v1' = v1 /\ v2' = v2 /\ v3' = [v3 EXCEPT ![k].refs = @ - 1] /\ v4' = [v4 EXCEPT ![k] = @ - 1]
    BY <1>7 DEF Lru!Release
  <2>2. k \in DOMAIN v3 /\ v3[k].refs = v4[k] /\ v4[k] - 1 \in Nat
    BY <1>0, <2>1
  <2> DEFINE e == [v3[k] EXCEPT !.refs = @ - 1]
  <2>3. e \in Entries /\ e.refs = v4[k] - 1
    BY <1>0, <2>2
  <2>4. v3' = [v3 EXCEPT ![k] = e]
    BY <2>1
  <2> HIDE DEF e
  <2>5. /\ DOMAIN v3' = DOMAIN v3 /\ v3' \in [DOMAIN v3' -> Entries] /\ v3'[k] = e
        /\ \A j \in DOMAIN v3 \ {k} : v3'[j] = v3[j]
    BY <1>e, <2>2, <2>3, <2>4
  <2>6. v4' \in [CacheKeys -> Nat] /\ v4'[k] = e.refs /\ \A j \in CacheKeys \ {k} : v4'[j] = v4[j]
    BY <1>0, <2>1, <2>2, <2>3
  <2>7. \A j \in DOMAIN v3' : v3'[j].refs = v4'[j]
    BY <1>0, <2>5, <2>6
  <2>8. \A j \in CacheKeys \ DOMAIN v3' : v4'[j] = 0
    BY <1>g, <2>2, <2>5, <2>6
  <2> HIDE DEF Entries
  <2> QED
    BY <1>0, <1>f, <2>1, <2>5, <2>6, <2>7, <2>8
<1> QED
  BY <1>1, <1>2, <1>3, <1>4, <1>5, <1>6, <1>7

--------------------------------------------------------------------------------
(* TokenReuse: v1 is clock, v2 reuse, v3 call. *)

LEMMA TokenInit == Token!Init => Token!IInv
  BY SamplesAssumption DEF Token!Timing, Token!Init, Token!IInv, Token!TypeOK, Token!ReplacedEarly, Token!CallInTime, Token!LongAgo, Token!NoCall

(* The other calls stay as they were, at the same time. *)
LEMMA TokenStep == ASSUME Token!IInv, [Token!Next]_Token!vars PROVE Token!IInv'
<1> USE SamplesAssumption DEF Token!Timing
<1>1. Token!TypeOK'
  <2>1. CASE Token!Tick
    BY <2>1 DEF Token!Tick, Token!IInv, Token!TypeOK
  <2>2. ASSUME NEW c \in GrpcCalls, Token!GetHeaders(c) PROVE Token!TypeOK'
    BY <2>2 DEF Token!GetHeaders, Token!ReadReuse, Token!Reuse, Token!GenToken, Token!GenTokenFails, Token!SetRegen, Token!RegenAfter, Token!SetReuse,
                Token!ReturnHeaders, Token!IInv, Token!TypeOK, Token!LongAgo, Token!NoCall
  <2>3. CASE UNCHANGED Token!vars
    BY <2>3 DEF Token!vars, Token!IInv, Token!TypeOK
  <2> QED
    BY <2>1, <2>2, <2>3 DEF Token!Next
<1>2. Token!ReplacedEarly(v2)'
  <2>1. CASE Token!Tick
    BY <2>1 DEF Token!Tick, Token!IInv, Token!ReplacedEarly
  <2>2. ASSUME NEW c \in GrpcCalls, Token!SetReuse(c) PROVE Token!ReplacedEarly(v2)'
    BY <2>2 DEF Token!SetReuse, Token!IInv, Token!ReplacedEarly, Token!CallInTime
  <2>3. ASSUME NEW c \in GrpcCalls, Token!GetHeaders(c), ~Token!SetReuse(c) PROVE Token!ReplacedEarly(v2)'
    BY <2>3 DEF Token!GetHeaders, Token!ReadReuse, Token!Reuse, Token!GenToken, Token!GenTokenFails, Token!SetRegen, Token!ReturnHeaders, Token!IInv, Token!ReplacedEarly
  <2>4. CASE UNCHANGED Token!vars
    BY <2>4 DEF Token!vars, Token!IInv, Token!ReplacedEarly
  <2> QED
    BY <2>1, <2>2, <2>3, <2>4 DEF Token!Next
<1>3. ASSUME NEW d \in GrpcCalls PROVE Token!CallInTime(v3[d])'
  <2> DEFINE r == v3[d]
  <2>1. /\ v1 \in Nat /\ r.token \in Nat /\ r.regenAfter \in Int /\ r.since \in Nat
        /\ Token!CallInTime(r) /\ Token!ReplacedEarly(v2) /\ v2.token \in Nat /\ v2.regenAfter \in Int
    BY DEF Token!IInv, Token!TypeOK
  <2>2. CASE Token!Tick
    BY <2>1, <2>2 DEF Token!Tick, Token!CallInTime, Token!ReplacedEarly
  <2>3. ASSUME NEW c \in GrpcCalls, Token!GetHeaders(c), c /= d PROVE Token!CallInTime(v3[d])'
    <3>1. v3'[d] = v3[d] /\ v1' = v1
      BY <2>3 DEF Token!GetHeaders, Token!ReadReuse, Token!Reuse, Token!GenToken, Token!GenTokenFails, Token!SetRegen, Token!SetReuse, Token!ReturnHeaders, Token!IInv, Token!TypeOK
    <3> QED
      BY <2>1, <3>1 DEF Token!CallInTime, Token!ReplacedEarly
  <2>4. CASE Token!ReadReuse(d)
    <3>1. v3'[d] = [at |-> "read", token |-> v2.token, regenAfter |-> v2.regenAfter, since |-> v1] /\ v1' = v1
      BY <2>4 DEF Token!ReadReuse, Token!IInv, Token!TypeOK
    <3> QED
      BY <2>1, <2>4, <3>1 DEF Token!ReadReuse, Token!CallInTime, Token!ReplacedEarly, Token!LongAgo, Token!NoCall, Token!TypeOK, Token!IInv
  <2>5. CASE Token!Reuse(d)
    <3>1. v3'[d] = [r EXCEPT !.at = "answer"] /\ v1' = v1
      BY <2>5 DEF Token!Reuse, Token!IInv, Token!TypeOK
    <3> QED
      BY <2>1, <2>5, <3>1 DEF Token!Reuse, Token!CallInTime, Token!ReplacedEarly, Token!LongAgo, Token!NoCall, Token!TypeOK, Token!IInv
  <2>6. CASE Token!GenToken(d)
    <3>1. v3'[d] = [r EXCEPT !.at = "generated", !.token = v1 + Expiration] /\ v1' = v1
      BY <2>6 DEF Token!GenToken, Token!IInv, Token!TypeOK
    <3> QED
      BY <2>1, <2>6, <3>1 DEF Token!GenToken, Token!CallInTime, Token!ReplacedEarly, Token!LongAgo, Token!NoCall, Token!TypeOK, Token!IInv
  <2>7. CASE Token!GenTokenFails(d)
    <3>1. v3'[d] = Token!NoCall /\ v1' = v1
      BY <2>7 DEF Token!GenTokenFails, Token!IInv, Token!TypeOK
    <3> QED
      BY <2>1, <2>7, <3>1 DEF Token!GenTokenFails, Token!CallInTime, Token!ReplacedEarly, Token!LongAgo, Token!NoCall, Token!TypeOK, Token!IInv
  <2>8. CASE Token!SetRegen(d)
    <3>1. v3'[d] = [r EXCEPT !.at = "lock", !.regenAfter = Token!RegenAfter] /\ v1' = v1
      BY <2>8 DEF Token!SetRegen, Token!IInv, Token!TypeOK
    <3> QED
      BY <2>1, <2>8, <3>1 DEF Token!SetRegen, Token!CallInTime, Token!ReplacedEarly, Token!LongAgo, Token!NoCall, Token!RegenAfter, Token!TypeOK, Token!IInv
  <2>9. CASE Token!SetReuse(d)
    <3>1. v3'[d] = [r EXCEPT !.at = "answer"] /\ v1' = v1
      BY <2>9 DEF Token!SetReuse, Token!IInv, Token!TypeOK
    <3> QED
      BY <2>1, <2>9, <3>1 DEF Token!SetReuse, Token!CallInTime, Token!ReplacedEarly, Token!LongAgo, Token!NoCall, Token!TypeOK, Token!IInv
  <2>10. CASE Token!ReturnHeaders(d)
    <3>1. v3'[d] = Token!NoCall /\ v1' = v1
      BY <2>10 DEF Token!ReturnHeaders, Token!IInv, Token!TypeOK
    <3> QED
      BY <2>1, <2>10, <3>1 DEF Token!ReturnHeaders, Token!CallInTime, Token!ReplacedEarly, Token!LongAgo, Token!NoCall, Token!TypeOK, Token!IInv
  <2>11. CASE UNCHANGED Token!vars
    BY <2>1, <2>11 DEF Token!vars, Token!CallInTime, Token!ReplacedEarly
  <2> QED
    BY <2>2, <2>3, <2>4, <2>5, <2>6, <2>7, <2>8, <2>9, <2>10, <2>11 DEF Token!Next, Token!GetHeaders
<1> QED
  BY <1>1, <1>2, <1>3 DEF Token!IInv

LEMMA TokenSafe == Token!IInv => Token!HeaderValid
  BY SamplesAssumption DEF Token!Timing, Token!IInv, Token!TypeOK, Token!CallInTime, Token!HeaderValid

--------------------------------------------------------------------------------
(* Streams: v1 is scenario, v2 log, v3 base, v4 host, v5 reader. *)

(* The multiple of TruncateEvery that so many ticks have passed. *)
Multiple(q) == (q \div TruncateEvery) * TruncateEvery

LEMMA DivMod == ASSUME NEW q \in Int, NEW t \in Int, t > 0 PROVE q = t * (q \div t) + (q % t)
  BY SMTT(30)

LEMMA MultipleBounds ==
  ASSUME NEW q \in Nat
  PROVE  /\ Multiple(q) \in Nat /\ Multiple(q) <= q /\ q < Multiple(q) + TruncateEvery
         /\ q % TruncateEvery = q - Multiple(q)
<1>1. TruncateEvery \in Nat \ {0}
  BY SamplesAssumption DEF Stream!Sizes
<1>2. q \div TruncateEvery \in Nat /\ q % TruncateEvery \in 0..(TruncateEvery - 1)
  BY <1>1
<1>3. q = TruncateEvery * (q \div TruncateEvery) + (q % TruncateEvery)
  <2>1. q \in Int /\ TruncateEvery \in Int /\ TruncateEvery > 0
    BY <1>1
  <2> QED
    BY <2>1, DivMod
<1> QED
  BY <1>1, <1>2, <1>3 DEF Multiple

(* It is the largest one. *)
LEMMA MultipleLargest ==
  ASSUME NEW q \in Nat, NEW k \in Nat, k * TruncateEvery <= q
  PROVE  k * TruncateEvery <= Multiple(q)
<1> DEFINE d == q \div TruncateEvery
<1>1. TruncateEvery \in Nat \ {0} /\ d \in Nat
  BY SamplesAssumption DEF Stream!Sizes
<1>2. q < d * TruncateEvery + TruncateEvery
  BY MultipleBounds DEF Multiple
<1> HIDE DEF d
<1>3. CASE k <= d
  <2>1. (d - k) * TruncateEvery >= 0
    BY <1>1, <1>3
  <2>2. d * TruncateEvery = k * TruncateEvery + (d - k) * TruncateEvery
    BY <1>1
  <2> QED
    BY <1>1, <2>1, <2>2 DEF Multiple, d
<1>4. CASE k >= d + 1
  <2>1. (k - (d + 1)) * TruncateEvery >= 0
    BY <1>1, <1>4
  <2>2. k * TruncateEvery = d * TruncateEvery + TruncateEvery + (k - (d + 1)) * TruncateEvery
    BY <1>1
  <2>3. k * TruncateEvery \in Int /\ d * TruncateEvery \in Int
    BY <1>1
  <2> QED
    BY <1>1, <1>2, <2>1, <2>2, <2>3
<1> QED
  BY <1>1, <1>3, <1>4

(* Lost: from one tick to the next. *)
LEMMA LostBounds ==
  ASSUME NEW q \in Nat
  PROVE  /\ Stream!Lost(q) \in Nat
         /\ Stream!Lost(q) <= (IF q > KeepLast THEN q ELSE KeepLast) - KeepLast
         /\ q - Stream!Lost(q) < KeepLast + TruncateEvery
<1>1. KeepLast \in Nat /\ TruncateEvery \in Nat
  BY SamplesAssumption DEF Stream!Sizes
<1>2. Stream!Lost(q) = IF Multiple(q) > KeepLast THEN Multiple(q) - KeepLast ELSE 0
  BY DEF Stream!Lost, Multiple
<1>3. Multiple(q) \in Nat /\ Multiple(q) <= q /\ q < Multiple(q) + TruncateEvery
  BY MultipleBounds
<1> QED
  BY <1>1, <1>2, <1>3

(* TickerWakes truncates at a multiple of TruncateEvery and only there. *)
LEMMA LostNext ==
  ASSUME NEW q \in Nat
  PROVE  /\ Stream!Lost(q + 1) = IF Stream!Truncates(q + 1) THEN q + 1 - KeepLast ELSE Stream!Lost(q)
         /\ Stream!Lost(q + 1) >= Stream!Lost(q)
<1>1. KeepLast \in Nat /\ TruncateEvery \in Nat \ {0} /\ q + 1 \in Nat
  BY SamplesAssumption DEF Stream!Sizes
<1>2. \A n \in Nat : Stream!Lost(n) = IF Multiple(n) > KeepLast THEN Multiple(n) - KeepLast ELSE 0
  BY DEF Stream!Lost, Multiple
<1>3. \A n \in Nat : Multiple(n) \in Nat /\ Multiple(n) <= n /\ n < Multiple(n) + TruncateEvery /\ n % TruncateEvery = n - Multiple(n)
  BY MultipleBounds
<1>4. Stream!Truncates(q + 1) <=> Multiple(q + 1) = q + 1 /\ q + 1 > KeepLast
  <2>1. (q + 1) % TruncateEvery = (q + 1) - Multiple(q + 1) /\ Multiple(q + 1) \in Nat
    BY <1>1, <1>3
  <2> HIDE DEF Multiple
  <2> QED
    BY <1>1, <2>1 DEF Stream!Truncates
<1>5. Multiple(q) <= Multiple(q + 1)
  <2> DEFINE k == q \div TruncateEvery
  <2>1. k \in Nat /\ k * TruncateEvery = Multiple(q)
    BY <1>1 DEF Multiple
  <2> HIDE DEF k
  <2>2. k * TruncateEvery <= q + 1
    BY <1>3, <2>1
  <2> QED
    BY <1>1, <2>1, <2>2, MultipleLargest
<1>6. Multiple(q + 1) /= q + 1 => Multiple(q + 1) <= Multiple(q)
  <2> SUFFICES ASSUME Multiple(q + 1) /= q + 1 PROVE Multiple(q + 1) <= Multiple(q)
    OBVIOUS
  <2> DEFINE k == (q + 1) \div TruncateEvery
  <2>1. k \in Nat /\ k * TruncateEvery = Multiple(q + 1)
    BY <1>1 DEF Multiple
  <2> HIDE DEF k
  <2>2. Multiple(q + 1) <= q + 1 /\ Multiple(q + 1) \in Nat
    BY <1>1, <1>3
  <2>3. Multiple(q + 1) <= q
    BY <1>1, <2>2
  <2> QED
    BY <2>1, <2>3, MultipleLargest
<1>7. Multiple(q) \in Nat /\ Multiple(q + 1) \in Nat /\ Multiple(q) <= q /\ Multiple(q + 1) <= q + 1
  BY <1>1, <1>3
<1>8. /\ Stream!Lost(q) = IF Multiple(q) > KeepLast THEN Multiple(q) - KeepLast ELSE 0
      /\ Stream!Lost(q + 1) = IF Multiple(q + 1) > KeepLast THEN Multiple(q + 1) - KeepLast ELSE 0
  BY <1>1, <1>2
<1> HIDE DEF Multiple
<1>9. CASE Multiple(q + 1) = q + 1
  BY <1>1, <1>4, <1>5, <1>7, <1>8, <1>9
<1>10. CASE Multiple(q + 1) /= q + 1
  BY <1>1, <1>4, <1>5, <1>6, <1>7, <1>8, <1>10
<1> QED
  BY <1>9, <1>10

(* When the late subscriber subscribes, what it asks for has been truncated. *)
LEMMA LostLate ==
  ASSUME NEW q \in Nat, q >= Stream!firstTruncate
  PROVE  Stream!Lost(q) > Stream!staleOffset
<1>1. KeepLast \in Nat /\ TruncateEvery \in Nat \ {0}
  BY SamplesAssumption DEF Stream!Sizes
<1> DEFINE k == (KeepLast \div TruncateEvery) + 1
<1>2. k \in Nat /\ Stream!firstTruncate = k * TruncateEvery /\ Stream!firstTruncate \in Nat
  BY <1>1 DEF Stream!firstTruncate
<1>3. Stream!firstTruncate - KeepLast > Stream!staleOffset /\ Stream!staleOffset = 1
  BY SamplesAssumption DEF Stream!Sizes, Stream!staleOffset
<1> HIDE DEF k
<1>4. Multiple(q) >= Stream!firstTruncate /\ Multiple(q) \in Nat
  BY <1>1, <1>2, MultipleLargest, MultipleBounds
<1>5. Stream!Lost(q) = IF Multiple(q) > KeepLast THEN Multiple(q) - KeepLast ELSE 0
  BY DEF Stream!Lost, Multiple
<1> QED
  BY <1>1, <1>2, <1>3, <1>4, <1>5

Event == [kind : Stream!EventKinds, attempt : Nat]

LEMMA StreamEvents ==
  ASSUME v1 \in {"order", "pipeline", "hub", "ticker", "llm"}
  PROVE  /\ Len(Stream!Events) \in Nat \ {0}
         /\ \A i \in 1..Len(Stream!Events) : Stream!Events[i] \in Stream!EventKinds
         /\ v1 = "ticker" => Len(Stream!Events) = TickCount
         /\ v1 = "llm" => Stream!Events = Stream!CompletionEvents /\ Len(Stream!Events) = 3
<1>1. CASE v1 = "ticker"
  <2>1. TickCount \in Nat \ {0}
    BY SamplesAssumption DEF Stream!Sizes
  <2>2. Stream!Events = Stream!TickerEvents
    BY <1>1 DEF Stream!Events
  <2>3. Stream!TickerEvents \in [1..TickCount -> Stream!EventKinds]
    BY DEF Stream!TickerEvents, Stream!EventKinds
  <2>4. Stream!TickerEvents \in Seq(Stream!EventKinds) /\ Len(Stream!TickerEvents) = TickCount
    BY <2>1, <2>3, SeqDef, LenProperties
  <2> QED
    BY <1>1, <2>1, <2>2, <2>3, <2>4
<1>2. CASE v1 = "order"
  <2>1. Stream!Events = Stream!OrderEvents
    BY <1>2 DEF Stream!Events
  <2>2. Stream!OrderEvents \in Seq(Stream!EventKinds) /\ Len(Stream!OrderEvents) = 6
    BY DEF Stream!OrderEvents, Stream!EventKinds
  <2>3. \A i \in 1..6 : Stream!OrderEvents[i] \in Stream!EventKinds
    BY <2>2, ElementOfSeq
  <2> QED
    BY <1>2, <2>1, <2>2, <2>3
<1>3. CASE v1 = "pipeline"
  <2>1. Stream!Events = Stream!PipelineEvents
    BY <1>3 DEF Stream!Events
  <2>2. Stream!PipelineEvents \in Seq(Stream!EventKinds) /\ Len(Stream!PipelineEvents) = 6
    BY DEF Stream!PipelineEvents, Stream!EventKinds
  <2>3. \A i \in 1..6 : Stream!PipelineEvents[i] \in Stream!EventKinds
    BY <2>2, ElementOfSeq
  <2> QED
    BY <1>3, <2>1, <2>2, <2>3
<1>4. CASE v1 = "hub"
  <2>1. Stream!Events = Stream!HubEvents
    BY <1>4 DEF Stream!Events
  <2>2. Stream!HubEvents \in Seq(Stream!EventKinds) /\ Len(Stream!HubEvents) = 3
    BY DEF Stream!HubEvents, Stream!EventKinds
  <2>3. \A i \in 1..3 : Stream!HubEvents[i] \in Stream!EventKinds
    BY <2>2, ElementOfSeq
  <2> QED
    BY <1>4, <2>1, <2>2, <2>3
<1>5. CASE v1 = "llm"
  <2>1. Stream!Events = Stream!CompletionEvents
    BY <1>5 DEF Stream!Events
  <2>2. Stream!CompletionEvents \in Seq(Stream!EventKinds) /\ Len(Stream!CompletionEvents) = 3
    BY DEF Stream!CompletionEvents, Stream!EventKinds
  <2>3. \A i \in 1..3 : Stream!CompletionEvents[i] \in Stream!EventKinds
    BY <2>2, ElementOfSeq
  <2> QED
    BY <1>5, <2>1, <2>2, <2>3
<1> QED
  BY <1>1, <1>2, <1>3, <1>4, <1>5

LEMMA StreamInit == Stream!Init => Stream!IInv
<1> SUFFICES ASSUME Stream!Init PROVE Stream!IInv
  OBVIOUS
<1>1. /\ v1 \in {"order", "pipeline", "hub", "ticker", "llm"} /\ v2 = <<>> /\ v3 = 0
      /\ v4 = [phase |-> "publish", next |-> 1, attempt |-> 1]
      /\ v5 = [r \in Stream!AllReaders |-> [phase |-> IF r = "late" THEN "wait" ELSE "read", next |-> 0, seen |-> <<>>]]
  BY DEF Stream!Init
<1>2. v2 \in Seq(Event) /\ Len(v2) = 0
  BY <1>1
<1>3. v5 \in [Stream!AllReaders -> [phase : {"wait", "read", "apart", "returned"}, next : Nat, seen : Seq(Nat)]]
  <2>1. <<>> \in Seq(Nat)
    OBVIOUS
  <2> QED
    BY <1>1, <2>1
<1>4. v4 \in [phase : {"publish", "sleep", "drain", "closed"}, next : Nat \ {0}, attempt : Nat \ {0}]
  BY <1>1
<1>5. Stream!TypeOK
  BY <1>1, <1>2, <1>3, <1>4 DEF Stream!TypeOK, Event
<1>6. v4.next <= Len(Stream!Events)
  BY <1>1, StreamEvents
<1>7. Stream!Lost(0) = 0
  BY LostBounds, SamplesAssumption DEF Stream!Sizes
<1>8. Stream!TickerLog
  BY <1>1, <1>2, <1>7 DEF Stream!TickerLog
<1>9. \A r \in Stream!AllReaders : Stream!TickReader(r)
  BY <1>1 DEF Stream!TickReader
<1>10. Stream!MainReader
  BY <1>1, <1>2 DEF Stream!MainReader, Stream!AllReaders
<1>11. Stream!CompletionLog
  BY <1>1, <1>2 DEF Stream!CompletionLog, Stream!CompletionEvents
<1> QED
  BY <1>1, <1>5, <1>6, <1>8, <1>9, <1>10, <1>11 DEF Stream!IInv, Stream!Readers, Stream!AllReaders

(* Types, and what an event more does to the log. *)
LEMMA StreamTypes ==
  ASSUME Stream!TypeOK
  PROVE  /\ v1 \in {"order", "pipeline", "hub", "ticker", "llm"} /\ v2 \in Seq(Event) /\ v3 \in Nat
         /\ Len(v2) \in Nat /\ DOMAIN v2 = 1..Len(v2) /\ \A i \in 1..Len(v2) : v2[i] \in Event
         /\ v4.phase \in {"publish", "sleep", "drain", "closed"} /\ v4.next \in Nat \ {0} /\ v4.attempt \in Nat \ {0}
         /\ v4 = [phase |-> v4.phase, next |-> v4.next, attempt |-> v4.attempt]
         /\ \A r \in Stream!AllReaders :
              /\ v5[r].phase \in {"wait", "read", "apart", "returned"} /\ v5[r].next \in Nat /\ v5[r].seen \in Seq(Nat)
              /\ v5[r] = [phase |-> v5[r].phase, next |-> v5[r].next, seen |-> v5[r].seen]
         /\ Stream!Readers \subseteq Stream!AllReaders
<1>1. v2 \in Seq(Event)
  BY DEF Stream!TypeOK, Event
<1>2. Len(v2) \in Nat /\ DOMAIN v2 = 1..Len(v2) /\ \A i \in 1..Len(v2) : v2[i] \in Event
  BY <1>1, LenProperties, ElementOfSeq
<1>3. /\ v4.phase \in {"publish", "sleep", "drain", "closed"} /\ v4.next \in Nat \ {0} /\ v4.attempt \in Nat \ {0}
      /\ v4 = [phase |-> v4.phase, next |-> v4.next, attempt |-> v4.attempt]
  BY DEF Stream!TypeOK
<1>4. ASSUME NEW r \in Stream!AllReaders
      PROVE  /\ v5[r].phase \in {"wait", "read", "apart", "returned"} /\ v5[r].next \in Nat /\ v5[r].seen \in Seq(Nat)
             /\ v5[r] = [phase |-> v5[r].phase, next |-> v5[r].next, seen |-> v5[r].seen]
  <2>1. v5[r] \in [phase : {"wait", "read", "apart", "returned"}, next : Nat, seen : Seq(Nat)]
    BY DEF Stream!TypeOK
  <2> QED
    BY <2>1
<1>5. Stream!Readers \subseteq Stream!AllReaders
  BY DEF Stream!Readers, Stream!AllReaders
<1> QED
  BY <1>1, <1>2, <1>3, <1>4, <1>5 DEF Stream!TypeOK

(* What a subscriber has read of a log that is not truncated stays where it was. *)
LEMMA StreamKeeps ==
  ASSUME Stream!TypeOK, Stream!MainReader, NEW e \in Event, v2' = Append(v2, e), v5' = v5
  PROVE  Stream!MainReader'
<1>1. /\ v2 \in Seq(Event) /\ Len(v2) \in Nat /\ v5["main"].next \in Nat
  BY StreamTypes DEF Stream!AllReaders
<1>2. Len(v2') = Len(v2) + 1 /\ \A i \in 1..Len(v2) : v2'[i] = v2[i]
  BY <1>1, Appended
<1>3. v5["main"].next <= Len(v2) /\ (v5["main"].next > 0 => v2'[v5["main"].next] = v2[v5["main"].next])
  BY <1>1, <1>2 DEF Stream!MainReader
<1> QED
  BY <1>1, <1>2, <1>3 DEF Stream!MainReader, Stream!LastEvents

(* One more event of the answer. *)
LEMMA StreamPublishCompletion ==
  ASSUME Stream!TypeOK, Stream!CompletionLog, v4.next <= 3,
         v2' = Append(v2, [kind |-> Stream!CompletionEvents[v4.next], attempt |-> v4.attempt]),
         v4'.next = v4.next + 1, v4'.attempt = v4.attempt
  PROVE  Stream!CompletionLog'
<1> DEFINE e == [kind |-> Stream!CompletionEvents[v4.next], attempt |-> v4.attempt]
           n == Len(v2)
           p == v4.next
           a == v4.attempt
           C == Stream!CompletionEvents
<1>1. /\ v2 \in Seq(Event) /\ n \in Nat /\ p \in 1..3 /\ a \in Nat \ {0} /\ \A i \in 1..n : v2[i] \in Event
  BY StreamTypes
<1>2. Len(C) = 3 /\ C[1] = "delta" /\ C[2] = "delta" /\ C[3] = "complete"
  BY DEF Stream!CompletionEvents, Stream!EventKinds
<1>3. C[p] \in Stream!EventKinds /\ (C[p] = "complete" <=> p = 3) /\ C[p] \in {"delta", "complete", "retry"}
  <2> HIDE DEF C, p
  <2>1. p = 1 \/ p = 2 \/ p = 3
    BY <1>1
  <2> QED
    BY <1>2, <2>1 DEF Stream!EventKinds
<1>4. e \in Event /\ e.kind = C[p] /\ e.attempt = a
  BY <1>1, <1>3 DEF Event
<1>5. v2' = Append(v2, e)
  OBVIOUS
<1> HIDE DEF e, C
<1>6. Len(v2') = n + 1 /\ (\A i \in 1..n : v2'[i] = v2[i]) /\ v2'[n + 1] = e
  BY <1>1, <1>4, <1>5, Appended
<1>7. /\ n >= (IF a = 1 THEN p - 1 ELSE p)
      /\ \A j \in 1..(p - 1) : v2[n - (p - 1) + j] = [kind |-> C[j], attempt |-> a]
      /\ IF a = 1 THEN n = p - 1 ELSE v2[n - (p - 1)].kind = "retry"
      /\ \A i \in 1..n : v2[i].kind \in {"delta", "complete", "retry"}
      /\ \A i \in 1..n : v2[i].kind = "complete" =>
           /\ i >= 3 /\ v2[i - 1].kind = "delta" /\ v2[i - 2].kind = "delta"
           /\ v2[i - 1].attempt = v2[i].attempt /\ v2[i - 2].attempt = v2[i].attempt
           /\ i > 3 => v2[i - 3].kind = "retry"
  BY DEF Stream!CompletionLog, C
<1> HIDE DEF n, p, a
<1>8. ASSUME NEW j \in 1..p PROVE v2'[(n + 1) - p + j] = [kind |-> C[j], attempt |-> a]
  <2>1. CASE j = p
    <3>1. (n + 1) - p + j = n + 1 /\ e = [kind |-> C[j], attempt |-> a]
      BY <1>1, <2>1 DEF e, C, p, a
    <3> QED
      BY <1>6, <3>1
  <2>2. CASE j /= p
    <3>1. j \in 1..(p - 1) /\ (n + 1) - p + j = n - (p - 1) + j /\ n - (p - 1) + j \in 1..n
      BY <1>1, <1>7, <2>2
    <3> QED
      BY <1>6, <1>7, <3>1
  <2> QED
    BY <2>1, <2>2
<1>9. IF a = 1 THEN n + 1 = p ELSE v2'[(n + 1) - p].kind = "retry"
  <2>1. a /= 1 => (n + 1) - p = n - (p - 1) /\ n - (p - 1) \in 1..n
    BY <1>1, <1>7
  <2> QED
    BY <1>1, <1>6, <1>7, <2>1
<1>10. ASSUME NEW i \in 1..(n + 1) PROVE v2'[i].kind \in {"delta", "complete", "retry"}
  BY <1>1, <1>3, <1>4, <1>6, <1>7
<1>11. ASSUME NEW i \in 1..(n + 1), v2'[i].kind = "complete"
       PROVE  /\ i >= 3 /\ v2'[i - 1].kind = "delta" /\ v2'[i - 2].kind = "delta"
              /\ v2'[i - 1].attempt = v2'[i].attempt /\ v2'[i - 2].attempt = v2'[i].attempt
              /\ i > 3 => v2'[i - 3].kind = "retry"
  <2>1. CASE i = n + 1
    <3>1. p = 3 /\ v2'[i].attempt = a
      BY <1>3, <1>4, <1>6, <1>11, <2>1
    <3>2. n >= 2 /\ (a = 1 => n = 2) /\ (a /= 1 => n >= 3 /\ v2'[n - 2].kind = "retry")
      <4>1. (n + 1) - p = n - 2
        BY <1>1, <3>1
      <4>2. CASE a = 1
        BY <1>1, <1>7, <3>1, <4>2
      <4>3. CASE a /= 1
        <5>1. n >= p
          BY <1>7, <4>3
        <5>2. v2'[n - 2].kind = "retry"
          BY <1>9, <4>1, <4>3
        <5>3. n >= 3 /\ n >= 2
          BY <1>1, <3>1, <5>1
        <5> QED
          BY <4>3, <5>2, <5>3
      <4> QED
        BY <4>2, <4>3
    <3>3. v2'[n - 1] = [kind |-> C[1], attempt |-> a] /\ v2'[n] = [kind |-> C[2], attempt |-> a]
      <4>1. 1 \in 1..p /\ 2 \in 1..p /\ (n + 1) - p + 1 = n - 1 /\ (n + 1) - p + 2 = n
        BY <1>1, <3>1
      <4> QED
        BY <1>8, <4>1
    <3>4. i - 1 = n /\ i - 2 = n - 1 /\ i - 3 = n - 2
      BY <1>1, <2>1
    <3>5. v2'[n - 1].kind = "delta" /\ v2'[n].kind = "delta" /\ v2'[n - 1].attempt = a /\ v2'[n].attempt = a
      <4>1. v2'[n - 1].kind = C[1] /\ v2'[n - 1].attempt = a
        BY ONLY <3>3
      <4>2. v2'[n].kind = C[2] /\ v2'[n].attempt = a
        BY ONLY <3>3
      <4> QED
        BY <1>2, <4>1, <4>2
    <3>6. i >= 3 /\ (i > 3 => a /= 1)
      BY <1>1, <2>1, <3>2
    <3> QED
      BY <3>1, <3>2, <3>4, <3>5, <3>6
  <2>2. CASE i /= n + 1
    <3>1. i \in 1..n /\ v2[i].kind = "complete" /\ v2'[i] = v2[i]
      BY <1>1, <1>6, <1>11, <2>2
    <3>2. i >= 3 /\ i - 1 \in 1..n /\ i - 2 \in 1..n /\ (i > 3 => i - 3 \in 1..n)
      BY <1>1, <1>7, <3>1
    <3> QED
      BY <1>6, <1>7, <3>1, <3>2
  <2> QED
    BY <2>1, <2>2
<1>12. (p + 1) - 1 = p /\ p <= 3 /\ n + 1 >= (IF a = 1 THEN p ELSE p + 1)
  BY <1>1, <1>7
<1>13. v4'.next = p + 1 /\ v4'.attempt = a /\ C = Stream!CompletionEvents
  BY DEF p, a, C
<1>14. IF a = 1 THEN Len(v2') = p ELSE v2'[Len(v2') - p].kind = "retry"
  BY <1>6, <1>9
<1>15. \A j \in 1..p : v2'[Len(v2') - p + j] = [kind |-> Stream!CompletionEvents[j], attempt |-> a]
  BY <1>6, <1>8, <1>13
<1>16. \A i \in 1..Len(v2') : v2'[i].kind \in {"delta", "complete", "retry"}
  BY <1>6, <1>10
<1>17. \A i \in 1..Len(v2') : v2'[i].kind = "complete" =>
           /\ i >= 3 /\ v2'[i - 1].kind = "delta" /\ v2'[i - 2].kind = "delta"
           /\ v2'[i - 1].attempt = v2'[i].attempt /\ v2'[i - 2].attempt = v2'[i].attempt
           /\ i > 3 => v2'[i - 3].kind = "retry"
  BY <1>6, <1>11
<1>18. Len(Stream!CompletionEvents) = 3
  BY <1>2, <1>13
<1>19. v4'.next - 1 = p /\ Len(v2') >= (IF v4'.attempt = 1 THEN v4'.next - 1 ELSE v4'.next)
  BY <1>6, <1>12, <1>13
<1>20. \A j \in 1..(v4'.next - 1) :
         v2'[Len(v2') - (v4'.next - 1) + j] = [kind |-> Stream!CompletionEvents[j], attempt |-> v4'.attempt]
  BY ONLY <1>13, <1>15, <1>19
<1>21. IF v4'.attempt = 1 THEN Len(v2') = v4'.next - 1 ELSE v2'[Len(v2') - (v4'.next - 1)].kind = "retry"
  BY ONLY <1>13, <1>14, <1>19
<1>22. v4'.next - 1 <= Len(Stream!CompletionEvents)
  BY <1>12, <1>18, <1>19
<1> QED
  BY <1>16, <1>17, <1>19, <1>20, <1>21, <1>22 DEF Stream!CompletionLog

(* A retry announces itself; what was complete before it stays complete. *)
LEMMA StreamRetryCompletion ==
  ASSUME Stream!TypeOK, Stream!CompletionLog, NEW e \in Event, e.kind = "retry", v2' = Append(v2, e),
         v4'.next = 1, v4'.attempt = v4.attempt + 1
  PROVE  Stream!CompletionLog'
<1> DEFINE n == Len(v2)
<1>1. v2 \in Seq(Event) /\ n \in Nat /\ v4.attempt \in Nat \ {0}
  BY StreamTypes
<1>2. Len(v2') = n + 1 /\ (\A i \in 1..n : v2'[i] = v2[i]) /\ v2'[n + 1] = e
  BY <1>1, Appended
<1>3. /\ \A i \in 1..n : v2[i].kind \in {"delta", "complete", "retry"}
      /\ \A i \in 1..n : v2[i].kind = "complete" =>
           /\ i >= 3 /\ v2[i - 1].kind = "delta" /\ v2[i - 2].kind = "delta"
           /\ v2[i - 1].attempt = v2[i].attempt /\ v2[i - 2].attempt = v2[i].attempt
           /\ i > 3 => v2[i - 3].kind = "retry"
  BY DEF Stream!CompletionLog
<1> HIDE DEF n
<1>4. \A i \in 1..Len(v2') : v2'[i].kind \in {"delta", "complete", "retry"}
  BY <1>1, <1>2, <1>3
<1>5. ASSUME NEW i \in 1..Len(v2'), v2'[i].kind = "complete"
      PROVE  /\ i >= 3 /\ v2'[i - 1].kind = "delta" /\ v2'[i - 2].kind = "delta"
             /\ v2'[i - 1].attempt = v2'[i].attempt /\ v2'[i - 2].attempt = v2'[i].attempt
             /\ i > 3 => v2'[i - 3].kind = "retry"
  <2>1. i \in 1..n /\ v2[i].kind = "complete" /\ v2'[i] = v2[i]
    BY <1>1, <1>2, <1>5
  <2>2. i >= 3 /\ i - 1 \in 1..n /\ i - 2 \in 1..n /\ (i > 3 => i - 3 \in 1..n)
    BY <1>1, <1>3, <2>1
  <2> QED
    BY <1>2, <1>3, <2>1, <2>2
<1>6. /\ v4'.next - 1 = 0 /\ v4'.next = 1 /\ v4'.attempt /= 1 /\ Len(v2') >= 1 /\ Len(v2') - 0 = n + 1
      /\ 0 <= Len(Stream!CompletionEvents)
  BY <1>1, <1>2 DEF Stream!CompletionEvents
<1>7. v2'[Len(v2') - 0].kind = "retry"
  BY <1>2, <1>6
<1> QED
  BY <1>4, <1>5, <1>6, <1>7 DEF Stream!CompletionLog

(* The log of the ticker loses more and more. *)
LEMMA StreamTickReader ==
  ASSUME Stream!TypeOK, NEW r \in Stream!AllReaders, Stream!TickReader(r), v3' \in Nat, v3' >= v3, v5' = v5
  PROVE  Stream!TickReader(r)'
<1>1. v5[r].seen \in Seq(Nat) /\ Len(v5[r].seen) \in Nat /\ v3 \in Nat /\ \A i \in 1..Len(v5[r].seen) : v5[r].seen[i] \in Nat
  BY StreamTypes, LenProperties, ElementOfSeq
<1>2. \A i \in 2..Len(v5[r].seen) : i \in 1..Len(v5[r].seen)
  BY <1>1
<1>3. Stream!staleOffset = 1
  BY DEF Stream!staleOffset
<1> QED
  BY <1>1, <1>2, <1>3, SMTT(30) DEF Stream!TickReader, Stream!staleOffset

(* Publish, in every scenario. *)
LEMMA StreamPublish ==
  ASSUME Stream!IInv, Stream!Publish
  PROVE  Stream!IInv'
<1> DEFINE e == [kind |-> Stream!Events[v4.next], attempt |-> v4.attempt]
           phase == IF v1 = "ticker" THEN "sleep" ELSE IF v4.next = Len(Stream!Events) THEN "drain" ELSE "publish"
<1>1. Stream!TypeOK /\ (v4.phase = "publish" => v4.next <= Len(Stream!Events))
  BY DEF Stream!IInv
<1>2. /\ v1 \in {"order", "pipeline", "hub", "ticker", "llm"} /\ v2 \in Seq(Event) /\ v3 \in Nat
      /\ Len(v2) \in Nat
      /\ v4.next \in Nat \ {0} /\ v4.attempt \in Nat \ {0}
      /\ v4 = [phase |-> v4.phase, next |-> v4.next, attempt |-> v4.attempt]
  BY <1>1, StreamTypes
<1>3. /\ v4.phase = "publish" /\ v1' = v1 /\ v3' = v3 /\ v5' = v5 /\ v2' = Append(v2, e)
      /\ v4' = [v4 EXCEPT !.next = @ + 1, !.phase = phase]
  BY DEF Stream!Publish
<1>4. /\ Len(Stream!Events) \in Nat \ {0} /\ Stream!Events[v4.next] \in Stream!EventKinds
      /\ v1 = "llm" => Stream!Events = Stream!CompletionEvents /\ Len(Stream!Events) = 3
      /\ v4.next <= Len(Stream!Events)
  <2>1. v4.next \in 1..Len(Stream!Events)
    BY <1>1, <1>2, <1>3, StreamEvents
  <2> QED
    BY <1>2, <2>1, StreamEvents
<1>5. e \in Event
  BY <1>2, <1>4 DEF Event
<1>6. v4' = [phase |-> phase, next |-> v4.next + 1, attempt |-> v4.attempt]
  BY <1>2, <1>3
<1>7. phase \in {"publish", "sleep", "drain"} /\ (phase = "publish" => v1 /= "ticker" /\ v4.next /= Len(Stream!Events))
  OBVIOUS
<1>8. phase = "sleep" <=> v1 = "ticker"
  OBVIOUS
<1> HIDE DEF e, phase
<1>9. v2' \in Seq(Event) /\ Len(v2') = Len(v2) + 1
  BY <1>2, <1>3, <1>5, Appended
<1>10. v4' \in [phase : {"publish", "sleep", "drain", "closed"}, next : Nat \ {0}, attempt : Nat \ {0}]
  <2>1. v4.next + 1 \in Nat \ {0}
    BY <1>2
  <2> QED
    BY <1>2, <1>6, <1>7, <2>1
<1>11. Stream!TypeOK'
  BY <1>1, <1>3, <1>9, <1>10 DEF Stream!TypeOK, Event, Stream!EventKinds, Stream!AllReaders
<1>12. v4'.phase = "publish" => v4'.next <= Len(Stream!Events)
  BY <1>2, <1>4, <1>6, <1>7
<1>13. Stream!Events' = Stream!Events /\ Stream!Readers' = Stream!Readers
  BY <1>3 DEF Stream!Events, Stream!Readers, Stream!OrderEvents, Stream!PipelineEvents, Stream!HubEvents, Stream!TickerEvents, Stream!CompletionEvents
<1>16. v4'.phase = "sleep" => v1' = "ticker"
  BY <1>3, <1>6, <1>8
<1>14. CASE v1 = "ticker"
  <2>1. /\ Len(v2) = v4.next - 1 /\ v3 = Stream!Lost(v4.next - 1)
        /\ \A r \in Stream!Readers : Stream!TickReader(r)
    BY <1>3, <1>14 DEF Stream!IInv, Stream!TickerLog
  <2>2. v4'.phase = "sleep" /\ v4'.next = v4.next + 1 /\ v4'.next - 2 = v4.next - 1 /\ v4'.next - 1 = v4.next
    BY <1>2, <1>6, <1>8, <1>14
  <2>3. Stream!TickerLog'
    <3>1. Len(v2') = v4'.next - 1 /\ v4'.next > 1
      BY <1>2, <1>9, <2>1, <2>2
    <3>2. Stream!Lost(v4'.next - 2) = v3'
      BY <1>3, <2>1, <2>2
    <3> QED
      BY <2>2, <3>1, <3>2 DEF Stream!TickerLog, Stream!Lost
  <2>4. \A r \in Stream!Readers : Stream!TickReader(r)'
    <3> SUFFICES ASSUME NEW r \in Stream!Readers PROVE Stream!TickReader(r)'
      OBVIOUS
    <3>1. r \in Stream!AllReaders /\ Stream!TickReader(r) /\ v3' \in Nat /\ v3' >= v3
      BY <1>1, <1>2, <1>3, <2>1, StreamTypes
    <3> QED
      BY <1>1, <1>3, <3>1, StreamTickReader
  <2> QED
    BY <1>3, <1>11, <1>12, <1>13, <1>14, <1>16, <2>3, <2>4 DEF Stream!IInv
<1>15. CASE v1 /= "ticker"
  <2>1. v3 = 0 /\ Stream!MainReader /\ (v1 = "llm" => Stream!CompletionLog)
    BY <1>15 DEF Stream!IInv
  <2>2. Stream!MainReader'
    BY <1>1, <1>3, <1>5, <2>1, StreamKeeps
  <2>3. ASSUME v1 = "llm" PROVE Stream!CompletionLog'
    <3>1. v2' = Append(v2, [kind |-> Stream!CompletionEvents[v4.next], attempt |-> v4.attempt])
      BY <1>3, <1>4, <2>3 DEF e
    <3>2. v4.next <= 3 /\ v4'.next = v4.next + 1 /\ v4'.attempt = v4.attempt
      BY <1>4, <1>6, <2>3
    <3> QED
      BY <1>1, <2>1, <2>3, <3>1, <3>2, StreamPublishCompletion
  <2> QED
    BY <1>3, <1>11, <1>12, <1>13, <1>15, <1>16, <2>1, <2>2, <2>3 DEF Stream!IInv
<1> QED
  BY <1>14, <1>15

(* What an action must show that leaves the subscribers and the log alone. *)
LEMMA StreamHost ==
  ASSUME Stream!IInv, v1' = v1, v2' = v2, v5' = v5, v3' \in Nat, v3' >= v3,
         NEW ph \in {"publish", "sleep", "drain", "closed"}, NEW n \in Nat \ {0}, NEW a \in Nat \ {0},
         v4' = [phase |-> ph, next |-> n, attempt |-> a],
         ph = "publish" => n <= Len(Stream!Events),
         v1 = "ticker" => Stream!TickerLog',
         v1 /= "ticker" => v3' = 0,
         ph = "sleep" => v1 = "ticker",
         v1 = "llm" => n = v4.next /\ a = v4.attempt
  PROVE  Stream!IInv'
<1>1. Stream!TypeOK
  BY DEF Stream!IInv
<1>2. Stream!TypeOK'
  <2>1. v4' \in [phase : {"publish", "sleep", "drain", "closed"}, next : Nat \ {0}, attempt : Nat \ {0}]
    OBVIOUS
  <2> QED
    BY <1>1, <2>1 DEF Stream!TypeOK, Stream!EventKinds, Stream!AllReaders
<1>3. Stream!Events' = Stream!Events /\ Stream!Readers' = Stream!Readers
  BY DEF Stream!Events, Stream!Readers, Stream!OrderEvents, Stream!PipelineEvents, Stream!HubEvents, Stream!TickerEvents, Stream!CompletionEvents
<1>4. v4'.phase = ph /\ v4'.next = n /\ v4'.attempt = a
  OBVIOUS
<1>5. CASE v1 = "ticker"
  <2>1. \A r \in Stream!Readers : Stream!TickReader(r)'
    <3> SUFFICES ASSUME NEW r \in Stream!Readers PROVE Stream!TickReader(r)'
      OBVIOUS
    <3>1. r \in Stream!AllReaders /\ Stream!TickReader(r)
      BY <1>1, <1>5, StreamTypes DEF Stream!IInv
    <3> QED
      BY <1>1, <3>1, StreamTickReader
  <2> QED
    BY <1>2, <1>3, <1>4, <1>5, <2>1 DEF Stream!IInv
<1>6. CASE v1 /= "ticker"
  <2>1. Stream!MainReader'
    BY <1>6 DEF Stream!IInv, Stream!MainReader, Stream!LastEvents
  <2>2. ASSUME v1 = "llm" PROVE Stream!CompletionLog'
    <3>1. v4'.next = v4.next /\ v4'.attempt = v4.attempt /\ Stream!CompletionEvents' = Stream!CompletionEvents
      BY <1>4, <2>2 DEF Stream!CompletionEvents
    <3>2. Stream!CompletionLog
      BY <2>2 DEF Stream!IInv
    <3>3. v2' = v2
      OBVIOUS
    <3> QED
      BY ONLY <3>1, <3>2, <3>3 DEF Stream!CompletionLog
  <2> QED
    BY <1>2, <1>3, <1>4, <1>6, <2>1, <2>2 DEF Stream!IInv
<1> QED
  BY <1>5, <1>6

LEMMA StreamHostSteps ==
  ASSUME Stream!IInv, Stream!RetryCharge \/ Stream!TickerWakes \/ Stream!WorkflowReturns
  PROVE  Stream!IInv'
<1>1. Stream!TypeOK /\ (v4.phase = "publish" => v4.next <= Len(Stream!Events))
  BY DEF Stream!IInv
<1>2. /\ v1 \in {"order", "pipeline", "hub", "ticker", "llm"} /\ v3 \in Nat /\ Len(v2) \in Nat
      /\ v4.next \in Nat \ {0} /\ v4.attempt \in Nat \ {0}
      /\ v4 = [phase |-> v4.phase, next |-> v4.next, attempt |-> v4.attempt]
  BY <1>1, StreamTypes
<1>3. CASE Stream!RetryCharge
  <2>1. /\ v1 = "order" /\ v1' = v1 /\ v2' = v2 /\ v3' = v3 /\ v5' = v5 /\ v4.phase = "publish" /\ v4.next \in {3, 4}
        /\ v4' = [v4 EXCEPT !.next = 2, !.attempt = @ + 1]
    BY <1>3 DEF Stream!RetryCharge
  <2>a. v4.attempt + 1 \in Nat \ {0}
    BY <1>2
  <2>b. v4' = [phase |-> v4.phase, next |-> 2, attempt |-> v4.attempt + 1]
    BY <1>2, <2>1
  <2>2. v4' = [phase |-> "publish", next |-> 2, attempt |-> v4.attempt + 1] /\ v4.attempt + 1 \in Nat \ {0}
    BY <2>1, <2>a, <2>b
  <2>3. 2 <= Len(Stream!Events)
    BY <1>1, <1>2, <2>1, StreamEvents
  <2>4. v3 = 0
    BY <2>1 DEF Stream!IInv
  <2>5. /\ v1' = v1 /\ v2' = v2 /\ v5' = v5 /\ v3' \in Nat /\ v3' >= v3 /\ v3' = 0 /\ v1 /= "ticker" /\ v1 /= "llm"
        /\ "publish" \in {"publish", "sleep", "drain", "closed"} /\ 2 \in Nat \ {0}
    BY <1>2, <2>1, <2>4
  <2> QED
    BY <2>2, <2>3, <2>5, StreamHost
<1>4. CASE Stream!TickerWakes
  <2> DEFINE ph == IF v4.next > TickCount THEN "drain" ELSE "publish"
             q == v4.next - 2
  <2>1. /\ v1' = v1 /\ v2' = v2 /\ v5' = v5 /\ v4.phase = "sleep"
        /\ v3' = IF Stream!Truncates(v4.next - 1) THEN v4.next - 1 - KeepLast ELSE v3
        /\ v4' = [v4 EXCEPT !.phase = ph]
    BY <1>4 DEF Stream!TickerWakes
  <2>2. v4' = [phase |-> ph, next |-> v4.next, attempt |-> v4.attempt] /\ ph \in {"publish", "sleep", "drain", "closed"}
    BY <1>2, <2>1
  <2>3. CASE v1 = "ticker"
    <3>1. Len(v2) = v4.next - 1 /\ v4.next > 1 /\ v3 = Stream!Lost(q)
      BY <2>1, <2>3 DEF Stream!IInv, Stream!TickerLog
    <3>2. q \in Nat /\ v4.next - 1 = q + 1
      BY <1>2, <3>1
    <3> HIDE DEF q
    <3>3. v3' = IF Stream!Truncates(q + 1) THEN q + 1 - KeepLast ELSE Stream!Lost(q)
      <4> DEFINE published == v4.next - 1
      <4>1. v3' = IF Stream!Truncates(published) THEN published - KeepLast ELSE Stream!Lost(q)
        BY <2>1, <3>1
      <4>2. published = q + 1
        BY <3>2
      <4> HIDE DEF published
      <4>3. CASE Stream!Truncates(published)
        <5>1. v3' = published - KeepLast
          BY <4>1, <4>3
        <5>2. Stream!Truncates(q + 1)
          BY <4>2, <4>3
        <5>3. v3' = q + 1 - KeepLast
          BY <3>2, <4>2, <5>1, SamplesAssumption DEF Stream!Sizes
        <5> QED
          BY <5>2, <5>3
      <4>4. CASE ~Stream!Truncates(published)
        BY <4>1, <4>2, <4>4
      <4> QED
        BY <4>3, <4>4
    <3>4. v3' = Stream!Lost(q + 1) /\ v3' >= v3 /\ v3' \in Nat
      <4>1. Stream!Lost(q + 1) = (IF Stream!Truncates(q + 1) THEN q + 1 - KeepLast ELSE Stream!Lost(q)) /\ Stream!Lost(q + 1) >= Stream!Lost(q)
        BY <3>2, LostNext
      <4>2. Stream!Lost(q + 1) \in Nat
        <5>1. q + 1 \in Nat
          BY <3>2
        <5> QED
          BY <5>1, LostBounds
      <4> QED
        BY <3>1, <3>3, <4>1, <4>2
    <3>5. v4'.next = v4.next /\ v4'.phase /= "sleep"
      BY <2>2
    <3>6. Stream!Lost(v4'.next - 1) = v3'
      BY <3>2, <3>4, <3>5
    <3>7. Stream!TickerLog'
      BY <2>1, <3>1, <3>5, <3>6 DEF Stream!TickerLog, Stream!Lost
    <3>8. ph = "publish" => v4.next <= Len(Stream!Events)
      BY <1>2, <2>3, StreamEvents, SamplesAssumption DEF Stream!Sizes
    <3> HIDE DEF ph
    <3> QED
      BY <1>2, <2>1, <2>2, <2>3, <3>4, <3>7, <3>8, StreamHost
  <2>4. CASE v1 /= "ticker"
    <3>1. FALSE
      BY <2>1, <2>4 DEF Stream!IInv
    <3> QED
      BY <3>1
  <2> QED
    BY <2>3, <2>4
<1>5. CASE Stream!WorkflowReturns
  <2>1. /\ v1' = v1 /\ v2' = v2 /\ v3' = v3 /\ v5' = v5 /\ v4.phase = "drain"
        /\ v4' = [v4 EXCEPT !.phase = "closed"]
    BY <1>5 DEF Stream!WorkflowReturns
  <2>2. v4' = [phase |-> "closed", next |-> v4.next, attempt |-> v4.attempt]
    BY <1>2, <2>1
  <2>3. v1 = "ticker" => Stream!TickerLog'
    BY <2>1, <2>2 DEF Stream!IInv, Stream!TickerLog, Stream!Lost
  <2>4. v1 /= "ticker" => v3 = 0
    BY DEF Stream!IInv
  <2> QED
    BY <1>2, <2>1, <2>2, <2>3, <2>4, StreamHost
<1> QED
  BY <1>3, <1>4, <1>5

LEMMA StreamRetry ==
  ASSUME Stream!IInv, Stream!RetryCompletion
  PROVE  Stream!IInv'
<1> DEFINE e == [kind |-> "retry", attempt |-> v4.attempt + 1]
<1>1. Stream!TypeOK
  BY DEF Stream!IInv
<1>2. v2 \in Seq(Event) /\ v4.attempt \in Nat \ {0}
  BY <1>1, StreamTypes
<1>3. /\ v1 = "llm" /\ v1' = v1 /\ v2' = Append(v2, e) /\ v3' = v3 /\ v5' = v5
      /\ v4' = [phase |-> "publish", next |-> 1, attempt |-> v4.attempt + 1]
  BY DEF Stream!RetryCompletion
<1>4. e \in Event /\ e.kind = "retry"
  <2>1. v4.attempt + 1 \in Nat /\ "retry" \in Stream!EventKinds
    BY <1>2 DEF Stream!EventKinds
  <2> QED
    BY <2>1 DEF Event
<1>5. v4' \in [phase : {"publish", "sleep", "drain", "closed"}, next : Nat \ {0}, attempt : Nat \ {0}]
      /\ v4'.next = 1 /\ v4'.attempt = v4.attempt + 1 /\ v4'.phase = "publish"
  BY <1>2, <1>3
<1> HIDE DEF e
<1>6. v2' \in Seq(Event)
  BY <1>2, <1>3, <1>4, Appended
<1>7. Stream!TypeOK'
  BY <1>1, <1>3, <1>5, <1>6 DEF Stream!TypeOK, Event, Stream!EventKinds, Stream!AllReaders
<1>8. v3 = 0 /\ Stream!MainReader /\ Stream!CompletionLog
  BY <1>3 DEF Stream!IInv
<1>9. Stream!MainReader'
  BY <1>1, <1>3, <1>4, <1>8, StreamKeeps
<1>10. Stream!CompletionLog'
  BY <1>1, <1>3, <1>4, <1>5, <1>8, StreamRetryCompletion
<1>11. Stream!Events' = Stream!CompletionEvents /\ Len(Stream!CompletionEvents) = 3
  BY <1>3 DEF Stream!Events, Stream!CompletionEvents
<1> QED
  BY <1>3, <1>5, <1>7, <1>8, <1>9, <1>10, <1>11 DEF Stream!IInv

(* What an action must show that moves one subscriber. *)
LEMMA StreamReader ==
  ASSUME Stream!IInv, v1' = v1, v2' = v2, v3' = v3, v4' = v4,
         NEW r \in Stream!Readers, NEW ph \in {"wait", "read", "apart", "returned"}, NEW n \in Nat, NEW s \in Seq(Nat),
         v5' = [v5 EXCEPT ![r] = [phase |-> ph, next |-> n, seen |-> s]],
         v1 = "ticker" => Stream!TickReader(r)',
         v1 /= "ticker" => Stream!MainReader'
  PROVE  Stream!IInv'
<1> DEFINE rec == [phase |-> ph, next |-> n, seen |-> s]
<1>1. Stream!TypeOK /\ r \in Stream!AllReaders
  BY StreamTypes DEF Stream!IInv
<1>2. v5' \in [Stream!AllReaders -> [phase : {"wait", "read", "apart", "returned"}, next : Nat, seen : Seq(Nat)]]
  <2>1. rec \in [phase : {"wait", "read", "apart", "returned"}, next : Nat, seen : Seq(Nat)]
    OBVIOUS
  <2>2. v5 \in [Stream!AllReaders -> [phase : {"wait", "read", "apart", "returned"}, next : Nat, seen : Seq(Nat)]]
    BY <1>1 DEF Stream!TypeOK
  <2> HIDE DEF rec
  <2>3. v5' = [v5 EXCEPT ![r] = rec]
    BY DEF rec
  <2> QED
    BY <1>1, <2>1, <2>2, <2>3
<1>3. \A x \in Stream!AllReaders : x /= r => v5'[x] = v5[x]
  BY <1>1 DEF Stream!TypeOK
<1>4. Stream!TypeOK'
  BY <1>1, <1>2 DEF Stream!TypeOK, Stream!EventKinds, Stream!AllReaders
<1>5. Stream!Events' = Stream!Events /\ Stream!Readers' = Stream!Readers
  BY DEF Stream!Events, Stream!Readers, Stream!OrderEvents, Stream!PipelineEvents, Stream!HubEvents, Stream!TickerEvents, Stream!CompletionEvents
<1>6. CASE v1 = "ticker"
  <2>1. ASSUME NEW x \in Stream!Readers PROVE Stream!TickReader(x)'
    <3>1. CASE x = r
      BY <1>6, <3>1
    <3>2. CASE x /= r
      <4>1. v5'[x] = v5[x] /\ Stream!TickReader(x)
        BY <1>1, <1>3, <1>6, <3>2, StreamTypes DEF Stream!IInv
      <4> QED
        BY <4>1 DEF Stream!TickReader, Stream!staleOffset
    <3> QED
      BY <3>1, <3>2
  <2>2. Stream!TickerLog'
    BY <1>6 DEF Stream!IInv, Stream!TickerLog, Stream!Lost
  <2> QED
    BY <1>4, <1>5, <1>6, <2>1, <2>2 DEF Stream!IInv
<1>7. CASE v1 /= "ticker"
  <2>1. ASSUME v1 = "llm" PROVE Stream!CompletionLog'
    <3>1. Stream!CompletionLog /\ v2' = v2 /\ v4' = v4
      BY <2>1 DEF Stream!IInv
    <3> QED
      BY ONLY <3>1 DEF Stream!CompletionLog, Stream!CompletionEvents
  <2> QED
    BY <1>4, <1>5, <1>7, <2>1 DEF Stream!IInv
<1> QED
  BY <1>6, <1>7

LEMMA StreamReceive ==
  ASSUME Stream!IInv, NEW r \in Stream!Readers, Stream!Receive(r)
  PROVE  Stream!IInv'
<1> DEFINE next == v5[r].next
           seen == v5[r].seen
           offset == Stream!Larger(next, v3)
           ph == IF v2[offset + 1].kind \in Stream!LastEvents THEN "returned"
                 ELSE IF v1 = "pipeline" /\ Len(Append(seen, offset)) = Stream!phase1Events THEN "apart"
                 ELSE "read"
           m == Len(seen)
<1>1. Stream!TypeOK /\ r \in Stream!AllReaders
  BY StreamTypes DEF Stream!IInv
<1>2. next \in Nat /\ seen \in Seq(Nat) /\ v3 \in Nat /\ Len(v2) \in Nat
  BY <1>1, StreamTypes
<1>3. /\ v1' = v1 /\ v2' = v2 /\ v3' = v3 /\ v4' = v4 /\ v5[r].phase = "read" /\ next < Len(v2)
      /\ v5' = [v5 EXCEPT ![r] = [next |-> offset + 1, seen |-> Append(seen, offset), phase |-> ph]]
  BY DEF Stream!Receive, Stream!Behind, Stream!Head0
<1>4. ph \in {"returned", "apart", "read"} /\ (ph = "returned" => v2[offset + 1].kind \in Stream!LastEvents)
  OBVIOUS
<1>5. offset \in Nat /\ offset >= next /\ offset >= v3 /\ (offset = next \/ offset = v3)
  BY <1>2 DEF Stream!Larger
<1>6. v5'[r] = [next |-> offset + 1, seen |-> Append(seen, offset), phase |-> ph]
  BY <1>1, <1>3 DEF Stream!TypeOK
<1> HIDE DEF ph, offset
<1> DEFINE t == Append(seen, offset)
<1>t. t = Append(seen, offset) /\ m = Len(seen)
  OBVIOUS
<1> HIDE DEF t, m
<1>7. t \in Seq(Nat) /\ m \in Nat /\ Len(t) = m + 1 /\ (\A i \in 1..m : t[i] = seen[i]) /\ t[m + 1] = offset /\ t /= <<>>
  BY <1>2, <1>5, <1>t, Appended
<1>8. v5'[r].next = offset + 1 /\ v5'[r].seen = t /\ v5'[r].phase = ph
  BY <1>6 DEF t
<1>9. \A i \in 1..m : seen[i] \in Nat
  BY <1>2, <1>t, ElementOfSeq
<1>10. seen = <<>> => m = 0
  BY <1>t
<1>11. seen /= <<>> => m > 0
  BY <1>2, <1>7, <1>t, EmptySeq
<1>12. ASSUME v1 = "ticker" PROVE Stream!TickReader(r)'
  <2>1. Stream!TickReader(r)
    BY <1>12 DEF Stream!IInv
  <2>2. seen /= <<>> => next = seen[m] + 1
    BY <2>1 DEF Stream!TickReader, m
  <2>3. \A i \in 2..m : seen[i] = seen[i - 1] + 1 \/ (seen[i] > seen[i - 1] /\ seen[i] <= v3)
    BY <2>1 DEF Stream!TickReader, m
  <2>4. r = "late" => v3 > Stream!staleOffset /\ (seen /= <<>> => seen[1] > Stream!staleOffset)
    BY <1>3, <2>1 DEF Stream!TickReader
  <2>5. ASSUME NEW i \in 2..(m + 1) PROVE t[i] = t[i - 1] + 1 \/ (t[i] > t[i - 1] /\ t[i] <= v3)
    <3>1. CASE i = m + 1
      <4>1. t[i] = offset /\ i - 1 = m /\ m \in 1..m /\ seen /= <<>>
        BY <1>7, <1>10, <3>1
      <4>2. t[i - 1] = seen[m] /\ next = seen[m] + 1 /\ seen[m] \in Nat
        BY <1>7, <1>9, <2>2, <4>1
      <4> QED
        BY <1>2, <1>5, <4>1, <4>2, SMTT(30)
    <3>2. CASE i /= m + 1
      <4>1. i \in 2..m /\ i \in 1..m /\ i - 1 \in 1..m
        BY <1>7, <3>2
      <4> QED
        BY <1>7, <2>3, <4>1
    <3> QED
      BY <3>1, <3>2
  <2>6. r = "late" => t[1] > Stream!staleOffset
    <3>1. CASE seen = <<>>
      BY <1>2, <1>5, <1>7, <1>10, <2>4, <3>1 DEF Stream!staleOffset
    <3>2. CASE seen /= <<>>
      <4>1. 1 \in 1..m
        BY <1>7, <1>11, <3>2
      <4> QED
        BY <1>7, <2>4, <3>2, <4>1
    <3> QED
      BY <3>1, <3>2
  <2>7. ph /= "wait"
    BY <1>4
  <2>8. t[Len(t)] + 1 = offset + 1 /\ 2..Len(t) = 2..(m + 1)
    BY <1>7
  <2> QED
    BY <1>3, <1>8, <2>4, <2>5, <2>6, <2>7, <2>8 DEF Stream!TickReader, Stream!staleOffset
<1>13. ASSUME v1 /= "ticker" PROVE Stream!MainReader'
  <2>1. r = "main" /\ v3 = 0 /\ Stream!MainReader
    BY <1>13 DEF Stream!IInv, Stream!Readers
  <2>2. m = next /\ offset = next /\ \A i \in 1..m : seen[i] = i - 1
    BY <1>2, <1>5, <2>1 DEF Stream!MainReader, m
  <2>3. Len(t) = offset + 1 /\ offset + 1 <= Len(v2) /\ offset + 1 > 0
    BY <1>2, <1>3, <1>7, <2>2
  <2>4. ASSUME NEW i \in 1..(m + 1) PROVE t[i] = i - 1
    <3>1. CASE i = m + 1
      BY <1>7, <2>2, <3>1
    <3>2. CASE i /= m + 1
      <4>1. i \in 1..m
        BY <1>7, <3>2
      <4> QED
        BY <1>7, <2>2, <4>1
    <3> QED
      BY <3>1, <3>2
  <2> QED
    BY <1>3, <1>4, <1>7, <1>8, <2>1, <2>3, <2>4 DEF Stream!MainReader, Stream!LastEvents
<1>14. v5' = [v5 EXCEPT ![r] = [phase |-> ph, next |-> offset + 1, seen |-> t]] /\ offset + 1 \in Nat
       /\ ph \in {"wait", "read", "apart", "returned"}
  BY <1>3, <1>4, <1>5 DEF t
<1>15. v1' = v1 /\ v2' = v2 /\ v3' = v3 /\ v4' = v4
  BY <1>3
<1>16. t \in Seq(Nat)
  BY <1>7
<1>17. v1 = "ticker" => Stream!TickReader(r)'
  BY <1>12
<1>18. v1 /= "ticker" => Stream!MainReader'
  BY <1>13
<1> HIDE DEF next, seen
<1> QED
  BY <1>14, <1>15, <1>16, <1>17, <1>18, StreamReader

LEMMA StreamStep ==
  ASSUME Stream!IInv, [Stream!Next]_Stream!vars
  PROVE  Stream!IInv'
<1>1. Stream!TypeOK
  BY DEF Stream!IInv
<1>2. /\ v3 \in Nat /\ Len(v2) \in Nat /\ v4.next \in Nat \ {0}
      /\ \A r \in Stream!AllReaders :
              /\ v5[r].phase \in {"wait", "read", "apart", "returned"} /\ v5[r].next \in Nat /\ v5[r].seen \in Seq(Nat)
              /\ v5[r] = [phase |-> v5[r].phase, next |-> v5[r].next, seen |-> v5[r].seen]
      /\ Stream!Readers \subseteq Stream!AllReaders
  BY <1>1, StreamTypes
<1>3. ASSUME NEW r \in Stream!Readers, Stream!Reconnect(r) PROVE Stream!IInv'
  <2>1. /\ v1' = v1 /\ v2' = v2 /\ v3' = v3 /\ v4' = v4 /\ v5[r].phase = "apart"
        /\ v5' = [v5 EXCEPT ![r] = [@ EXCEPT !.phase = "read"]]
    BY <1>3 DEF Stream!Reconnect
  <2>2. /\ v5' = [v5 EXCEPT ![r] = [phase |-> "read", next |-> v5[r].next, seen |-> v5[r].seen]]
        /\ r \in Stream!AllReaders
    <3>1. [v5[r] EXCEPT !.phase = "read"] = [phase |-> "read", next |-> v5[r].next, seen |-> v5[r].seen] /\ r \in Stream!AllReaders
      <4>1. v5[r] \in [phase : {"wait", "read", "apart", "returned"}, next : Nat, seen : Seq(Nat)] /\ r \in Stream!AllReaders
        BY <1>1, <1>2 DEF Stream!TypeOK
      <4> QED
        BY <4>1
    <3> QED
      BY <2>1, <3>1
  <2>3. v5'[r] = [phase |-> "read", next |-> v5[r].next, seen |-> v5[r].seen]
    BY <1>1, <2>2 DEF Stream!TypeOK
  <2>4. v1 = "ticker" => Stream!TickReader(r)'
    BY <2>1, <2>3 DEF Stream!IInv, Stream!TickReader, Stream!staleOffset
  <2>5. v1 /= "ticker" => Stream!MainReader'
    BY <2>1, <2>3 DEF Stream!IInv, Stream!MainReader, Stream!Readers
  <2> QED
    BY <1>2, <2>1, <2>2, <2>4, <2>5, StreamReader
<1>4. CASE Stream!LateSubscribes
  <2>1. /\ v1' = v1 /\ v2' = v2 /\ v3' = v3 /\ v4' = v4 /\ v5["late"].phase = "wait" /\ "late" \in Stream!Readers
        /\ Len(v2) > Stream!firstTruncate
        /\ v5' = [v5 EXCEPT !["late"] = [phase |-> "read", next |-> Stream!staleOffset, seen |-> v5["late"].seen]]
    BY <1>4 DEF Stream!LateSubscribes, Stream!Head0
  <2>2. v1 = "ticker" /\ "late" \in Stream!AllReaders
    BY <2>1 DEF Stream!Readers, Stream!AllReaders
  <2>3. Stream!TickReader("late") /\ v5["late"].seen = <<>>
    BY <2>1, <2>2 DEF Stream!IInv, Stream!TickReader
  <2>4. v5' = [v5 EXCEPT !["late"] = [phase |-> "read", next |-> Stream!staleOffset, seen |-> <<>>]]
    BY <2>1, <2>3
  <2>5. v5'["late"] = [phase |-> "read", next |-> Stream!staleOffset, seen |-> <<>>]
    BY <1>1, <2>2, <2>4 DEF Stream!TypeOK
  <2>6. v3 > Stream!staleOffset
    <3> DEFINE q == IF v4.phase = "sleep" THEN v4.next - 2 ELSE v4.next - 1
    <3>1. Len(v2) = v4.next - 1 /\ (v4.phase = "sleep" => v4.next > 1) /\ v3 = Stream!Lost(q)
      BY <2>2 DEF Stream!IInv, Stream!TickerLog
    <3>2. Stream!firstTruncate \in Nat
      BY SamplesAssumption DEF Stream!Sizes, Stream!firstTruncate
    <3>3. q \in Nat /\ q >= Stream!firstTruncate
      BY <1>2, <2>1, <3>1, <3>2
    <3> HIDE DEF q
    <3> QED
      BY <3>1, <3>3, LostLate
  <2>9. v5'["late"].seen = <<>> /\ v5'["late"].phase = "read" /\ Len(<<>>) = 0 /\ \A i \in 2..0 : FALSE
    BY <2>5
  <2>7. Stream!TickReader("late")'
    BY <2>9, <2>1, <2>5, <2>6 DEF Stream!TickReader, Stream!staleOffset
  <2>8. Stream!staleOffset \in Nat /\ <<>> \in Seq(Nat)
    BY DEF Stream!staleOffset
  <2> QED
    BY <2>1, <2>2, <2>4, <2>7, <2>8, StreamReader
<1>5. CASE UNCHANGED Stream!vars
  <2>1. /\ v4 = [phase |-> v4.phase, next |-> v4.next, attempt |-> v4.attempt]
        /\ v4.phase \in {"publish", "sleep", "drain", "closed"} /\ v4.next \in Nat \ {0} /\ v4.attempt \in Nat \ {0}
    BY <1>1, StreamTypes
  <2>2. v1' = v1 /\ v2' = v2 /\ v3' = v3 /\ v4' = v4 /\ v5' = v5
    BY <1>5 DEF Stream!vars
  <2>3. v1 = "ticker" => Stream!TickerLog'
    BY <2>2 DEF Stream!IInv, Stream!TickerLog, Stream!Lost
  <2> QED
    BY <1>2, <2>1, <2>2, <2>3, StreamHost DEF Stream!IInv
<1> QED
  BY <1>3, <1>4, <1>5, StreamPublish, StreamHostSteps, StreamRetry, StreamReceive DEF Stream!Next, Stream!Progress

(* What the runs check of the streams. *)
LEMMA StreamSafe == Stream!IInv => Stream!LogBounded /\ Stream!SeenOnce /\ Stream!AnswerWhole
<1> SUFFICES ASSUME Stream!IInv PROVE Stream!LogBounded /\ Stream!SeenOnce /\ Stream!AnswerWhole
  OBVIOUS
<1>1. Stream!TypeOK
  BY DEF Stream!IInv
<1>2. v3 \in Nat /\ Len(v2) \in Nat /\ v4.next \in Nat \ {0} /\ v4.phase \in {"publish", "sleep", "drain", "closed"}
  BY <1>1, StreamTypes
<1>3. KeepLast \in Nat \ {0} /\ TruncateEvery \in Nat \ {0}
  BY SamplesAssumption DEF Stream!Sizes
<1>4. Stream!LogBounded
  <2>1. CASE v1 = "ticker"
    <3> DEFINE q == IF v4.phase = "sleep" THEN v4.next - 2 ELSE v4.next - 1
    <3>1. Len(v2) = v4.next - 1 /\ (v4.phase = "sleep" => v4.next > 1) /\ v3 = Stream!Lost(q)
      BY <2>1 DEF Stream!IInv, Stream!TickerLog
    <3>2. q \in Nat /\ q <= Len(v2) /\ Len(v2) <= q + 1
      BY <1>2, <3>1
    <3> HIDE DEF q
    <3>3. /\ v3 <= (IF q > KeepLast THEN q ELSE KeepLast) - KeepLast
          /\ q - v3 < KeepLast + TruncateEvery
      BY <3>1, <3>2, LostBounds
    <3>4. v3 <= (IF Len(v2) > KeepLast THEN Len(v2) ELSE KeepLast) - KeepLast /\ Len(v2) - v3 <= KeepLast + TruncateEvery
      BY <1>2, <1>3, <3>2, <3>3
    <3> QED
      BY <3>4 DEF Stream!LogBounded, Stream!Larger, Stream!Head0
  <2>2. CASE v1 /= "ticker"
    <3>1. v3 = 0
      BY <2>2 DEF Stream!IInv
    <3> QED
      BY <1>2, <1>3, <2>2, <3>1 DEF Stream!LogBounded, Stream!Larger, Stream!Head0
  <2> QED
    BY <2>1, <2>2
<1>5. Stream!SeenOnce
  <2>1. CASE v1 = "ticker"
    <3>1. \A r \in Stream!Readers : Stream!TickReader(r) /\ r /= "main"
      BY <2>1 DEF Stream!IInv, Stream!Readers
    <3> QED
      BY <3>1 DEF Stream!SeenOnce, Stream!TickReader
  <2>2. CASE v1 /= "ticker"
    <3> DEFINE s == v5["main"].seen
    <3>1. Stream!Readers = {"main"} /\ Stream!MainReader /\ s \in Seq(Nat)
      BY <1>1, <2>2, StreamTypes DEF Stream!IInv, Stream!Readers, Stream!AllReaders
    <3>2. Len(s) \in Nat /\ \A i \in 1..Len(s) : s[i] = i - 1
      BY <3>1, LenProperties DEF Stream!MainReader
    <3>3. s /= <<>> => Len(s) > 0
      BY <3>1, EmptySeq
    <3> HIDE DEF s
    <3>4. \A i \in 2..Len(s) : i \in 1..Len(s) /\ i - 1 \in 1..Len(s)
      BY <3>2
    <3>5. \A i \in 2..Len(s) : s[i] = s[i - 1] + 1
      BY <3>2, <3>4
    <3>6. s /= <<>> => s[1] = 0
      BY <3>2, <3>3
    <3> QED
      BY <3>1, <3>5, <3>6 DEF Stream!SeenOnce, s
  <2> QED
    BY <2>1, <2>2
<1>6. Stream!AnswerWhole
  <2> SUFFICES ASSUME v1 = "llm", v5["main"].phase = "returned" PROVE Stream!AnswerWhole
    BY DEF Stream!AnswerWhole
  <2> DEFINE s == v5["main"].seen
             n == Len(s)
  <2>1. Stream!MainReader /\ Stream!CompletionLog /\ s \in Seq(Nat)
    BY <1>1, StreamTypes DEF Stream!IInv, Stream!AllReaders
  <2>2. n \in Nat /\ n > 0 /\ n <= Len(v2) /\ v2[n].kind \in {"complete", "done"} /\ \A i \in 1..n : s[i] = i - 1
    BY <2>1 DEF Stream!MainReader, Stream!LastEvents
  <2>3. n \in 1..Len(v2)
    BY <1>2, <2>2
  <2>4. v2[n].kind = "complete"
    BY <2>1, <2>2, <2>3 DEF Stream!CompletionLog
  <2>5. /\ n >= 3 /\ v2[n - 1].kind = "delta" /\ v2[n - 2].kind = "delta"
        /\ v2[n - 1].attempt = v2[n].attempt /\ v2[n - 2].attempt = v2[n].attempt
        /\ n > 3 => v2[n - 3].kind = "retry"
    BY <2>1, <2>3, <2>4 DEF Stream!CompletionLog
  <2>6. Len(Stream!CompletionEvents) = 3 /\ Stream!CompletionEvents[1] = "delta" /\ Stream!CompletionEvents[2] = "delta" /\ Stream!CompletionEvents[3] = "complete"
    BY DEF Stream!CompletionEvents
  <2> HIDE DEF n, s
  <2>7. ASSUME NEW i \in 1..n PROVE s[i] + 1 = i
    BY <2>2
  <2>8. /\ n - 2 \in 1..n /\ n - 1 \in 1..n /\ n \in 1..n /\ (n > 3 => n - 3 \in 1..n)
        /\ n - 3 + 1 = n - 2 /\ n - 3 + 2 = n - 1 /\ n - 3 + 3 = n
    BY <2>2, <2>5
  <2>9. s[n - 2] + 1 = n - 2 /\ s[n - 1] + 1 = n - 1 /\ s[n] + 1 = n /\ (n > 3 => s[n - 3] + 1 = n - 3)
    BY <2>7, <2>8
  <2>10. ASSUME NEW i \in 1..3
         PROVE  /\ v2[s[n - 3 + i] + 1].kind = Stream!CompletionEvents[i]
                /\ v2[s[n - 3 + i] + 1].attempt = v2[s[n] + 1].attempt
    <3>1. i = 1 \/ i = 2 \/ i = 3
      OBVIOUS
    <3> QED
      BY <2>4, <2>5, <2>6, <2>8, <2>9, <3>1
  <2>11. n > 3 => v2[s[n - 3] + 1].kind = "retry"
    BY <2>5, <2>9
  <2> QED
    BY <2>5, <2>6, <2>10, <2>11 DEF Stream!AnswerWhole, n, s
<1> QED
  BY <1>4, <1>5, <1>6

--------------------------------------------------------------------------------
(* EarlyReturn: v1 is phase, v2 made, v3 init, v4 tx, v5 effects, v6 client, v7 attempts. *)

LEMMA EarlyInit == Early!Init => Early!IInv
  BY SamplesAssumption DEF Early!Sizes, Early!Init, Early!IInv, Early!TypeOK, Early!Nothing, Early!Error

LEMMA EarlyStep ==
  ASSUME Early!IInv, [Early!Next]_Early!vars
  PROVE  Early!IInv'
<1>0. /\ MaxInits \in Nat
      /\ v1 \in {"init", "complete", "cancel", "completed", "failed"}
      /\ v2 \in 0..MaxInits /\ v3 \in 0..(MaxInits + 1) /\ v4 \in 0..MaxInits /\ v6 \in 0..(MaxInits + 1)
      /\ v5 \in [completed : SUBSET (0..MaxInits), cancelled : SUBSET (0..MaxInits)]
  BY SamplesAssumption DEF Early!Sizes, Early!IInv, Early!TypeOK, Early!Error
<1>1. CASE Early!InitTransaction
  BY <1>0, <1>1 DEF Early!InitTransaction, Early!IInv, Early!TypeOK, Early!Nothing, Early!Error
<1>2. CASE Early!WorkerStops
  BY <1>0, <1>2 DEF Early!WorkerStops, Early!IInv, Early!TypeOK, Early!Nothing, Early!Error
<1>3. ASSUME NEW waits \in BOOLEAN, Early!RecordInit(waits) PROVE Early!IInv'
  BY <1>0, <1>3 DEF Early!RecordInit, Early!Answer, Early!IInv, Early!TypeOK, Early!Nothing, Early!Error
<1>4. ASSUME NEW known \in BOOLEAN, Early!SecondPhase(known) PROVE Early!IInv'
  <2>0. v2' = v2 /\ v3' = v3 /\ v4' = v4 /\ v6' = v6 /\ v1 \in {"complete", "cancel"}
    BY <1>4 DEF Early!SecondPhase
  <2>1. CASE v1 = "complete"
    <3>1. v5' = [v5 EXCEPT !.completed = @ \union {v4}] /\ v1' \in {"complete", "completed"}
      BY <1>4, <2>1 DEF Early!SecondPhase
    <3>2. /\ v5' \in [completed : SUBSET (0..MaxInits), cancelled : SUBSET (0..MaxInits)]
          /\ v5'.completed = v5.completed \union {v4} /\ v5'.cancelled = v5.cancelled
      BY <1>0, <3>1
    <3> QED
      BY <1>0, <2>0, <2>1, <3>1, <3>2 DEF Early!IInv, Early!TypeOK, Early!Nothing, Early!Error
  <2>2. CASE v1 = "cancel"
    <3>1. v5' = [v5 EXCEPT !.cancelled = @ \union {v4}] /\ v1' \in {"cancel", "failed"}
      BY <1>4, <2>2 DEF Early!SecondPhase
    <3>2. /\ v5' \in [completed : SUBSET (0..MaxInits), cancelled : SUBSET (0..MaxInits)]
          /\ v5'.cancelled = v5.cancelled \union {v4} /\ v5'.completed = v5.completed
      BY <1>0, <3>1
    <3> QED
      BY <1>0, <2>0, <2>2, <3>1, <3>2 DEF Early!IInv, Early!TypeOK, Early!Nothing, Early!Error
  <2> QED
    BY <2>0, <2>1, <2>2
<1>5. CASE UNCHANGED Early!vars
  BY <1>5 DEF Early!vars, Early!IInv, Early!TypeOK, Early!Error
<1> QED
  BY <1>1, <1>2, <1>3, <1>4, <1>5 DEF Early!Next, Early!Progress

LEMMA EarlySafe == Early!IInv => Early!ToldTrue
  BY SamplesAssumption DEF Early!Sizes, Early!IInv, Early!TypeOK, Early!ToldTrue, Early!Nothing, Early!Error

--------------------------------------------------------------------------------
(* ChildGuard: v1 is at, v2 guard, v3 child, v4 future, v5 caller, v6 signal. *)

LEMMA GuardInit == Guard!Init => Guard!IInv
  BY DEF Guard!Init, Guard!IInv, Guard!TypeOK, Guard!NoChild, Guard!Pending, Guard!AllowedTypes

LEMMA GuardStep ==
  ASSUME Guard!IInv, [Guard!Next]_Guard!vars
  PROVE  Guard!IInv'
<1> DEFINE Children == [type : {"none"} \union Guard!AllowedTypes, signals : Nat,
                        state : {"none", "starting", "running", "completed", "failed"}]
           Futures == [result : {"pending", "ok", "error"}, execution : {"pending", "ok", "error"}]
<1>0. /\ v1 \in 1..2 /\ v3 \in Children /\ v4 \in Futures
      /\ v2 \in {"none", "validating", "allowed", "refused", "broken", "done"}
      /\ v5 \in {"starts", "result", "execution", "failed", "panicking"}
  BY DEF Guard!IInv, Guard!TypeOK
<1>t. /\ Guard!ChildTypes[1] \in Guard!AllowedTypes /\ Guard!ChildTypes[2] \notin Guard!AllowedTypes
      /\ Len(Guard!ChildTypes) = 2
  BY DEF Guard!ChildTypes, Guard!AllowedTypes
<1>1. CASE Guard!ExecuteChildWorkflow
  <2>1. /\ v5 = "starts" /\ v2' = "validating" /\ v4' = Guard!Pending /\ v3' = Guard!NoChild
        /\ v5' \in {"result", "execution"} /\ v1' = v1
    BY <1>1 DEF Guard!ExecuteChildWorkflow
  <2> QED
    BY <1>0, <2>1 DEF Guard!IInv, Guard!TypeOK, Guard!NoChild, Guard!Pending
<1>2. CASE Guard!Validated
  <2>1. /\ v2 = "validating" /\ v1' = v1 /\ v3' = v3 /\ v4' = v4 /\ v5' = v5
        /\ v2' \in {"allowed", "refused"} /\ (v2' = "allowed" => Guard!ChildTypes[v1] \in Guard!AllowedTypes)
    BY <1>2 DEF Guard!Validated, Guard!ValidateChildWorkflowTypeActivity
  <2> QED
    BY <1>0, <2>1 DEF Guard!IInv, Guard!TypeOK, Guard!Pending, Guard!AllowedTypes, Guard!ChildTypes
<1>3. CASE Guard!ValidationFails
  <2>1. v2 = "validating" /\ v1' = v1 /\ v3' = v3 /\ v4' = v4 /\ v5' = v5 /\ v2' = "broken"
    BY <1>3 DEF Guard!ValidationFails
  <2> QED
    BY <1>0, <2>1 DEF Guard!IInv, Guard!TypeOK, Guard!Pending, Guard!AllowedTypes
<1>4. CASE Guard!GuardedStart
  <2>1. /\ v2 \in {"allowed", "refused", "broken"} /\ v2' = "done" /\ v1' = v1 /\ v5' = v5
        /\ v3.state = "none" /\ v4 = Guard!Pending /\ v5 /= "starts" /\ v3.type = "none"
    BY <1>4 DEF Guard!GuardedStart, Guard!IInv
  <2>2. CASE v2 = "allowed"
    <3>1. /\ v3' = [type |-> Guard!ChildTypes[v1], state |-> "starting", signals |-> 0] /\ v4' = v4
          /\ Guard!ChildTypes[v1] \in Guard!AllowedTypes /\ v1 = 1
      BY <1>0, <1>4, <1>t, <2>2 DEF Guard!GuardedStart, Guard!IInv
    <3>2. v3' \in Children /\ v3'.state = "starting"
      BY <3>1
    <3> QED
      BY <1>0, <2>1, <3>1, <3>2 DEF Guard!IInv, Guard!TypeOK, Guard!Pending, Guard!AllowedTypes
  <2>3. CASE v2 /= "allowed"
    <3>1. v3' = v3 /\ v4' = [v4 EXCEPT !.result = "error"]
      BY <1>4, <2>3 DEF Guard!GuardedStart
    <3>2. v4' = [result |-> "error", execution |-> "pending"]
      BY <2>1, <3>1 DEF Guard!Pending
    <3> QED
      BY <1>0, <2>1, <3>1, <3>2 DEF Guard!IInv, Guard!TypeOK, Guard!Pending, Guard!AllowedTypes
  <2> QED
    BY <2>2, <2>3
<1>5. ASSUME NEW ok \in BOOLEAN, Guard!ChildStarts(ok) PROVE Guard!IInv'
  <2>1. /\ v3.state = "starting" /\ v1' = v1 /\ v2' = v2 /\ v5' = v5
        /\ v3' = [v3 EXCEPT !.state = IF ok THEN "running" ELSE "failed"]
        /\ v4' = IF ok THEN [v4 EXCEPT !.execution = "ok"] ELSE [result |-> "error", execution |-> "error"]
    BY <1>5 DEF Guard!ChildStarts
  <2>2. v3' \in Children /\ v3'.state = (IF ok THEN "running" ELSE "failed") /\ v3'.type = v3.type
    BY <1>0, <2>1
  <2>3. v4' \in Futures /\ v4'.result = (IF ok THEN v4.result ELSE "error") /\ v4'.execution = (IF ok THEN "ok" ELSE "error")
    BY <1>0, <2>1
  <2>4. v2 = "done" /\ v4.result /= "ok" /\ (v1 = 2 => v5 \in {"starts", "panicking"})
    BY <1>0, <2>1 DEF Guard!IInv
  <2> QED
    BY <1>0, <2>1, <2>2, <2>3, <2>4 DEF Guard!IInv, Guard!TypeOK, Guard!AllowedTypes
<1>6. ASSUME NEW ok \in BOOLEAN, Guard!ChildEnds(ok) PROVE Guard!IInv'
  <2>1. /\ v3.state = "running" /\ v1' = v1 /\ v2' = v2 /\ v5' = v5
        /\ v3' = [v3 EXCEPT !.state = IF ok THEN "completed" ELSE "failed"]
        /\ v4' = [v4 EXCEPT !.result = IF ok THEN "ok" ELSE "error"]
    BY <1>6 DEF Guard!ChildEnds
  <2>2. v3' \in Children /\ v3'.state = (IF ok THEN "completed" ELSE "failed") /\ v3'.type = v3.type
    BY <1>0, <2>1
  <2>3. v4' \in Futures /\ v4'.result = (IF ok THEN "ok" ELSE "error") /\ v4'.execution = v4.execution
    BY <1>0, <2>1
  <2>4. v2 = "done" /\ (v1 = 2 => v5 \in {"starts", "panicking"})
    BY <1>0, <2>1 DEF Guard!IInv
  <2> QED
    BY <1>0, <2>1, <2>2, <2>3, <2>4 DEF Guard!IInv, Guard!TypeOK, Guard!AllowedTypes
<1>7. CASE Guard!SignalChildWorkflow
  BY <1>0, <1>7 DEF Guard!SignalChildWorkflow, Guard!IInv, Guard!TypeOK, Guard!Pending, Guard!AllowedTypes
<1>8. CASE Guard!SignalGoesOut
  <2>1. /\ v1' = v1 /\ v2' = v2 /\ v4' = v4 /\ v2 \notin {"none", "validating"}
        /\ v5' \in {v5, "panicking"}
        /\ v3' \in {v3, [v3 EXCEPT !.signals = @ + 1]}
    BY <1>8 DEF Guard!SignalGoesOut
  <2>2. v3' \in Children /\ v3'.state = v3.state /\ v3'.type = v3.type
    BY <1>0, <2>1
  <2> QED
    BY <1>0, <2>1, <2>2 DEF Guard!IInv, Guard!TypeOK, Guard!Pending, Guard!AllowedTypes
<1>9. CASE Guard!CallerGoesOn
  <2>1. /\ v5 \in {"result", "execution"} /\ v4[v5] /= "pending" /\ v2' = v2 /\ v3' = v3 /\ v4' = v4
        /\ \/ v5' = "failed" /\ v1' = v1
           \/ v5' = "result" /\ v1' = v1
           \/ /\ v5 = "result" /\ v4.result = "ok"
              /\ v5' = (IF v1 = 2 THEN "returned" ELSE "starts") /\ v1' = v1 + 1
    <3>1. CASE v5 = "result"
      BY <1>0, <1>9, <1>t, <3>1 DEF Guard!CallerGoesOn
    <3>2. CASE v5 = "execution"
      BY <1>0, <1>9, <1>t, <3>2 DEF Guard!CallerGoesOn
    <3> QED
      BY <1>9, <3>1, <3>2 DEF Guard!CallerGoesOn
  <2>2. v2 = "done"
    BY <1>0, <2>1 DEF Guard!IInv, Guard!Pending
  <2>3. CASE v5' \in {"failed", "result"} /\ v1' = v1
    BY <1>0, <2>1, <2>2, <2>3 DEF Guard!IInv, Guard!TypeOK, Guard!Pending, Guard!AllowedTypes
  <2>4. CASE /\ v5 = "result" /\ v4.result = "ok"
             /\ v5' = (IF v1 = 2 THEN "returned" ELSE "starts") /\ v1' = v1 + 1
    <3>1. v3.state = "completed" /\ v1 = 1
      BY <1>0, <2>4 DEF Guard!IInv
    <3> QED
      BY <1>0, <2>1, <2>2, <2>4, <3>1 DEF Guard!IInv, Guard!TypeOK, Guard!Pending, Guard!AllowedTypes
  <2> QED
    BY <2>1, <2>3, <2>4
<1>10. CASE UNCHANGED Guard!vars
  BY <1>10 DEF Guard!vars, Guard!IInv, Guard!TypeOK, Guard!Pending, Guard!AllowedTypes, Guard!ChildTypes
<1> QED
  BY <1>1, <1>2, <1>3, <1>4, <1>5, <1>6, <1>7, <1>8, <1>9, <1>10 DEF Guard!Next, Guard!Progress

LEMMA GuardSafe == Guard!IInv => Guard!OnlyAllowedChildren
  BY DEF Guard!IInv, Guard!TypeOK, Guard!OnlyAllowedChildren

--------------------------------------------------------------------------------
(* HostFiles: v1 is sample, v2 flow, v3 host, v4 lost, v5 uploaded. *)

(* The samples have two or three steps. *)
LEMMA FilesProgram ==
  ASSUME Files!TypeOK
  PROVE  /\ Len(Files!Program) \in {2, 3}
         /\ v1 = "files" <=> Len(Files!Program) = 3
         /\ v1 \in {"queue", "files", "session"}
<1>1. v1 \in {"queue", "files", "session"}
  BY DEF Files!TypeOK, Files!Samples
<1>2. v1 = "queue" => Len(Files!Program) = 2
  BY DEF Files!Program, Files!StepsOf
<1>3. v1 = "files" => Len(Files!Program) = 3
  BY DEF Files!Program, Files!StepsOf
<1>4. v1 = "session" => Len(Files!Program) = 2
  BY DEF Files!Program, Files!StepsOf
<1> QED
  BY <1>1, <1>2, <1>3, <1>4

LEMMA FilesInit == Files!Init => Files!IInv
<1> SUFFICES ASSUME Files!Init PROVE Files!IInv
  OBVIOUS
<1>1. Files!TypeOK
  <2>1. v3 = [held |-> FALSE, up |-> FALSE, failed |-> FALSE, file |-> 0, done |-> {}]
    BY DEF Files!Init, Files!NoHost
  <2>2. v3 \in [held : BOOLEAN, up : BOOLEAN, failed : BOOLEAN, file : 0..3, done : SUBSET (1..3)]
    BY <2>1
  <2>3. v2 = [at |-> "acquire", attempt |-> 1, step |-> 1, err |-> "none"]
    BY DEF Files!Init
  <2>4. v2 \in [at : {"acquire", "step", "delete", "settled", "returned"}, attempt : Nat, step : 1..3,
                err : {"none", "timeout", "error", "failed", "hostDown"}]
    BY <2>3
  <2>5. v1 \in Files!Samples /\ v4 \in Nat /\ v5 \in BOOLEAN
    BY DEF Files!Init
  <2> QED
    BY <2>2, <2>4, <2>5 DEF Files!TypeOK
<1>2. v1 \in Files!Samples /\ v2.at = "acquire" /\ v2.step = 1 /\ v3.done = {}
  BY DEF Files!Init, Files!NoHost
<1>3. Files!StepsKept
  BY <1>2 DEF Files!StepsKept, Files!OnHost
<1> QED
  BY <1>1, <1>3 DEF Files!IInv

(* What an activity that works leaves. *)
LEMMA FilesWork ==
  ASSUME Files!IInv, Files!Works
  PROVE  /\ v3' = [v3 EXCEPT !.file = Files!FileAfter, !.done = v3.done \union {v2.step}]
         /\ v3' \in [held : BOOLEAN, up : BOOLEAN, failed : BOOLEAN, file : 0..3, done : SUBSET (1..3)]
         /\ v3'.file = Files!FileAfter /\ v3'.done = v3.done \union {v2.step} /\ v3'.failed = v3.failed
         /\ v5' = (v5 \/ (v1 = "files" /\ v2.step = 3)) /\ v5' \in BOOLEAN
         /\ v2.at = "step" /\ v2.step \in 1..Len(Files!Program) /\ v2.err = "none"
<1>1. v3' = [v3 EXCEPT !.file = Files!FileAfter, !.done = v3.done \union {v2.step}]
  BY DEF Files!Works
<1>2. v3 \in [held : BOOLEAN, up : BOOLEAN, failed : BOOLEAN, file : 0..3, done : SUBSET (1..3)] /\ v2.step \in 1..3 /\ v5 \in BOOLEAN
  BY DEF Files!IInv, Files!TypeOK
<1>3. Files!FileAfter \in 0..3
  BY <1>2 DEF Files!FileAfter
<1>4. v2.at = "step" /\ v2.step <= Len(Files!Program) /\ v2.err = "none"
  BY DEF Files!Works, Files!IInv, Files!StepsKept, Files!OnHost
<1>5. Len(Files!Program) \in {2, 3}
  BY FilesProgram DEF Files!IInv
<1>6. v5' = (v5 \/ (v1 = "files" /\ v2.step = 3)) /\ v5' \in BOOLEAN
  BY <1>2 DEF Files!Works
<1>7. v3.done \union {v2.step} \in SUBSET (1..3)
  BY <1>2
<1>8. v3' \in [held : BOOLEAN, up : BOOLEAN, failed : BOOLEAN, file : 0..3, done : SUBSET (1..3)]
  BY <1>1, <1>2, <1>3, <1>7
<1>9. v3'.file = Files!FileAfter /\ v3'.done = v3.done \union {v2.step} /\ v3'.failed = v3.failed
  BY <1>1, <1>2
<1> QED
  BY <1>1, <1>2, <1>4, <1>5, <1>6, <1>8, <1>9

LEMMA FilesStep == ASSUME Files!IInv, [Files!Next]_Files!vars PROVE Files!IInv'
<1> DEFINE Flows == [at : {"acquire", "step", "delete", "settled", "returned"}, attempt : Nat, step : 1..3,
                     err : {"none", "timeout", "error", "failed", "hostDown"}]
           Hosts == [held : BOOLEAN, up : BOOLEAN, failed : BOOLEAN, file : 0..3, done : SUBSET (1..3)]
<1>t. v1 \in Files!Samples /\ v2 \in Flows /\ v3 \in Hosts /\ v4 \in Nat /\ v5 \in BOOLEAN
  BY DEF Files!IInv, Files!TypeOK
<1>k. Files!StepsKept
  BY DEF Files!IInv
<1>p. /\ Len(Files!Program) \in {2, 3}
      /\ v1 = "files" <=> Len(Files!Program) = 3
      /\ v1 \in {"queue", "files", "session"}
  BY FilesProgram DEF Files!IInv
<1>q. v1' = v1 => Files!Program' = Files!Program
  BY DEF Files!Program
<1>1. CASE Files!Acquire
  <2>0. v1' = v1 /\ v4' = v4 /\ v5' = v5
    BY <1>1 DEF Files!Acquire
  <2>1. CASE /\ v3' = [Files!NoHost EXCEPT !.held = TRUE, !.up = TRUE]
             /\ v2' = [v2 EXCEPT !.at = "step", !.step = 1, !.err = "none"]
    <3>1. v3' = [held |-> TRUE, up |-> TRUE, failed |-> FALSE, file |-> 0, done |-> {}]
      BY <2>1 DEF Files!NoHost
    <3>0. v2' = [at |-> "step", attempt |-> v2.attempt, step |-> 1, err |-> "none"]
      BY <2>1, <1>t
    <3>2. v2' \in Flows /\ v2'.at = "step" /\ v2'.step = 1 /\ v2'.err = "none"
      BY <3>0, <1>t
    <3>3. v3' \in Hosts /\ v3'.done = {} /\ v3'.file = 0
      BY <3>1
    <3>4. Files!TypeOK'
      BY <2>0, <3>2, <3>3, <1>t DEF Files!TypeOK
    <3>5. Files!Program' = Files!Program /\ 1 <= Len(Files!Program) /\ 1..(v2'.step - 1) = {} /\ 3 \notin v3'.done
      <4>1. Files!Program' = Files!Program
        BY <2>0, <1>q
      <4>2. 1 <= Len(Files!Program)
        BY <1>p
      <4>3. 1..(v2'.step - 1) = {} /\ 3 \notin v3'.done
        BY <3>2, <3>3
      <4> QED
        BY <4>1, <4>2, <4>3
    <3>6. Files!StepsKept'
      BY <2>0, <3>2, <3>3, <3>5 DEF Files!StepsKept, Files!OnHost
    <3> QED
      BY <3>4, <3>6 DEF Files!IInv
  <2>2. CASE /\ \E err \in {"timeout", "error"} :
                   Files!Settle(IF v1 = "session" /\ err = "timeout" THEN "hostDown" ELSE err)
             /\ v3' = Files!NoHost
    <3>1. PICK e \in {"timeout", "error", "hostDown"} : v2' = [v2 EXCEPT !.at = "settled", !.err = e]
      BY <2>2 DEF Files!Settle
    <3>2. v2' \in Flows /\ v2'.at = "settled" /\ v2'.err /= "none"
      BY <3>1, <1>t
    <3>3. v3' \in Hosts /\ v3'.done = {} /\ v3'.file = 0
      BY <2>2 DEF Files!NoHost
    <3>4. Files!TypeOK'
      BY <2>0, <3>2, <3>3, <1>t DEF Files!TypeOK
    <3>5. Files!StepsKept'
      BY <2>0, <3>2, <3>3, <1>p, <1>q DEF Files!StepsKept, Files!OnHost
    <3> QED
      BY <3>4, <3>5 DEF Files!IInv
  <2> QED
    BY <1>1, <2>1, <2>2 DEF Files!Acquire
<1>2. CASE Files!HostGoesDown
  <2>1. v1' = v1 /\ v2' = v2 /\ v4' = v4 /\ v5' = v5 /\ v3' = [v3 EXCEPT !.up = FALSE]
    BY <1>2 DEF Files!HostGoesDown
  <2>2. v3' \in Hosts /\ v3'.done = v3.done /\ v3'.file = v3.file /\ v3'.failed = v3.failed
    BY <2>1, <1>t
  <2>3. Files!TypeOK'
    BY <2>1, <2>2, <1>t DEF Files!TypeOK
  <2>4. Files!StepsKept'
    BY <2>1, <2>2, <1>k, <1>q DEF Files!StepsKept, Files!OnHost
  <2> QED
    BY <2>3, <2>4 DEF Files!IInv
<1>3. CASE Files!SessionFails
  <2>1. /\ v1' = v1 /\ v2' = v2 /\ v4' = v4 /\ v5' = v5 /\ v3' = [v3 EXCEPT !.failed = TRUE]
        /\ v2.at \in {"step", "settled"}
    BY <1>3 DEF Files!SessionFails
  <2>2. v3' \in Hosts /\ v3'.done = v3.done /\ v3'.file = v3.file
    BY <2>1, <1>t
  <2>3. Files!TypeOK'
    BY <2>1, <2>2, <1>t DEF Files!TypeOK
  <2>4. Files!StepsKept'
    BY <2>1, <2>2, <1>k, <1>q DEF Files!StepsKept, Files!OnHost
  <2> QED
    BY <2>3, <2>4 DEF Files!IInv
<1>4. CASE Files!StepDone
  <2>1. /\ v1' = v1 /\ v4' = v4 /\ v3' \in Hosts /\ v5' \in BOOLEAN
        /\ v3'.file = Files!FileAfter /\ v3'.done = v3.done \union {v2.step}
        /\ v5' = (v5 \/ (v1 = "files" /\ v2.step = 3))
        /\ v2.at = "step" /\ v2.step \in 1..Len(Files!Program) /\ v2.err = "none"
        /\ v2' = IF v2.step < Len(Files!Program) THEN [v2 EXCEPT !.step = v2.step + 1]
                 ELSE [v2 EXCEPT !.at = IF v1 = "queue" THEN "delete" ELSE "settled"]
    BY <1>4, FilesWork DEF Files!StepDone
  <2>2. 1..(v2.step - 1) \subseteq v3.done /\ v3.done \subseteq 1..Len(Files!Program) /\ v2.step \in Nat
    BY <2>1, <1>k, <1>t DEF Files!StepsKept, Files!OnHost
  <2>3. 1..v2.step \subseteq v3'.done /\ v3'.done \subseteq 1..Len(Files!Program)
    <3>1. ASSUME NEW k \in 1..v2.step PROVE k \in v3'.done
      <4>1. k = v2.step \/ k \in 1..(v2.step - 1)
        BY <2>2
      <4> QED
        BY <4>1, <2>1, <2>2
    <3> QED
      BY <3>1, <2>1, <2>2
  <2>4. v1 = "files" /\ 3 \in v3'.done => v5'
    BY <2>1, <1>k, <1>t DEF Files!StepsKept
  <2>5. CASE v2.step < Len(Files!Program)
    <3>a. v2' = [v2 EXCEPT !.step = v2.step + 1]
      BY <2>1, <2>5
    <3>b. v2.step + 1 \in 1..3 /\ v2.step + 1 <= Len(Files!Program)
      <4>1. \A n \in {2, 3}, k \in Nat : k >= 1 /\ k < n => k + 1 \in 1..3 /\ k + 1 <= n
        OBVIOUS
      <4>2. v2.step \in Nat /\ v2.step >= 1 /\ Len(Files!Program) \in {2, 3}
        BY <1>t, <1>p
      <4> QED
        BY ONLY <4>1, <4>2, <2>5
    <3>1. v2' = [v2 EXCEPT !.step = v2.step + 1] /\ v2.step + 1 \in 1..3 /\ v2.step + 1 <= Len(Files!Program)
      BY <3>a, <3>b
    <3>2. v2' \in Flows /\ v2'.at = "step" /\ v2'.step = v2.step + 1 /\ v2'.err = "none"
      BY <3>1, <2>1, <1>t
    <3>3. 1..(v2'.step - 1) \subseteq v3'.done
      BY <3>2, <2>2, <2>3
    <3>4. Files!TypeOK'
      BY <2>1, <3>2, <1>t DEF Files!TypeOK
    <3>5. Files!StepsKept'
      BY <2>1, <2>3, <2>4, <3>1, <3>2, <3>3, <1>q DEF Files!StepsKept, Files!OnHost
    <3> QED
      BY <3>4, <3>5 DEF Files!IInv
  <2>6. CASE ~(v2.step < Len(Files!Program))
    <3>1. v2.step = Len(Files!Program)
      BY <2>1, <2>6, <1>p
    <3>2. v2' \in Flows /\ v2'.at = (IF v1 = "queue" THEN "delete" ELSE "settled") /\ v2'.err = "none"
      BY <2>1, <2>6, <1>t
    <3>3. v3'.done = 1..Len(Files!Program)
      BY <2>3, <3>1
    <3>4. v3'.file = 0 \/ v1 = "session" \/ v1 = "queue"
      BY <2>1, <3>1, <1>p DEF Files!FileAfter
    <3>5. Files!TypeOK'
      BY <2>1, <3>2, <1>t DEF Files!TypeOK
    <3>6. Files!StepsKept'
      BY <2>1, <2>3, <2>4, <3>2, <3>3, <3>4, <1>q DEF Files!StepsKept, Files!OnHost
    <3> QED
      BY <3>5, <3>6 DEF Files!IInv
  <2> QED
    BY <2>5, <2>6
<1>5. CASE Files!ResultLost
  <2>1. /\ v1' = v1 /\ v2' = v2 /\ v4' \in Nat /\ v3' \in Hosts /\ v5' \in BOOLEAN
        /\ v3'.done = v3.done \union {v2.step}
        /\ v5' = (v5 \/ (v1 = "files" /\ v2.step = 3))
        /\ v2.at = "step" /\ v2.step \in 1..Len(Files!Program) /\ v2.err = "none"
    BY <1>5, <1>t, FilesWork DEF Files!ResultLost
  <2>2. Files!TypeOK'
    BY <2>1, <1>t DEF Files!TypeOK
  <2>3. Files!StepsKept'
    BY <2>1, <1>k, <1>t, <1>q DEF Files!StepsKept, Files!OnHost
  <2> QED
    BY <2>2, <2>3 DEF Files!IInv
<1>6. CASE Files!StepFails
  <2>1. /\ v1' = v1 /\ v3' = v3 /\ v4' = v4 /\ v5' = v5
        /\ v2' = [v2 EXCEPT !.at = IF v1 = "queue" /\ v2.step = 2 THEN "delete" ELSE "settled", !.err = "failed"]
    BY <1>6 DEF Files!StepFails
  <2>2. v2' \in Flows /\ v2'.at \in {"delete", "settled"} /\ v2'.err = "failed"
    BY <2>1, <1>t
  <2>3. Files!TypeOK'
    BY <2>1, <2>2, <1>t DEF Files!TypeOK
  <2>4. Files!StepsKept'
    BY <2>1, <2>2, <1>k, <1>q DEF Files!StepsKept, Files!OnHost
  <2> QED
    BY <2>3, <2>4 DEF Files!IInv
<1>7. CASE Files!DeleteFile
  <2>0. v1' = v1 /\ v4' = v4 /\ v5' = v5 /\ v2.at = "delete"
    BY <1>7 DEF Files!DeleteFile
  <2>1. CASE v3.up /\ v3.file = 1 /\ v3' = [v3 EXCEPT !.file = 0] /\ Files!Settle("none")
    <3>1. v2' \in Flows /\ v2'.at = "settled" /\ v2'.err = "none"
      BY <2>1, <1>t DEF Files!Settle
    <3>2. v3' \in Hosts /\ v3'.file = 0 /\ v3'.done = v3.done
      BY <2>1, <1>t
    <3>3. v1 = "queue"
      BY <2>0, <1>k DEF Files!StepsKept
    <3>4. Files!TypeOK'
      BY <2>0, <3>1, <3>2, <1>t DEF Files!TypeOK
    <3>5. Files!StepsKept'
      BY <2>0, <3>1, <3>2, <3>3, <1>k, <1>q DEF Files!StepsKept, Files!OnHost
    <3> QED
      BY <3>4, <3>5 DEF Files!IInv
  <2>2. CASE UNCHANGED v3 /\ Files!Settle("failed")
    <3>1. v2' \in Flows /\ v2'.at = "settled" /\ v2'.err = "failed"
      BY <2>2, <1>t DEF Files!Settle
    <3>2. Files!TypeOK'
      BY <2>0, <2>2, <3>1, <1>t DEF Files!TypeOK
    <3>3. Files!StepsKept'
      BY <2>0, <2>2, <3>1, <1>k, <1>q DEF Files!StepsKept, Files!OnHost
    <3> QED
      BY <3>2, <3>3 DEF Files!IInv
  <2> QED
    BY <1>7, <2>1, <2>2 DEF Files!DeleteFile
<1>8. CASE Files!AttemptReturns
  <2>1. /\ v1' = v1 /\ v3' = v3 /\ v4' = v4 /\ v5' = v5 /\ v2.at = "settled"
        /\ v2' = [v2 EXCEPT !.at = "acquire", !.attempt = v2.attempt + 1, !.err = Files!AttemptError]
           \/ v2' = [v2 EXCEPT !.at = "returned", !.err = Files!AttemptError]
    BY <1>8 DEF Files!AttemptReturns
  <2>2. Files!AttemptError \in {"none", "timeout", "error", "failed", "hostDown"}
    BY <1>t DEF Files!AttemptError
  <2> DEFINE err == Files!AttemptError
  <2>0. \/ v2' = [at |-> "acquire", attempt |-> v2.attempt + 1, step |-> v2.step, err |-> err]
        \/ v2' = [at |-> "returned", attempt |-> v2.attempt, step |-> v2.step, err |-> err]
    BY <2>1, <1>t
  <2> HIDE DEF err
  <2>a. err \in {"none", "timeout", "error", "failed", "hostDown"}
    BY <2>2 DEF err
  <2>b. v2' \in Flows /\ v2'.at \in {"acquire", "returned"} /\ v2'.err = err
    BY <2>0, <2>a, <1>t
  <2>3. v2' \in Flows /\ v2'.at \in {"acquire", "returned"} /\ v2'.err = Files!AttemptError
    BY <2>b DEF err
  <2>4. Files!AttemptError = "none" => v2.err = "none" /\ (v1 = "session" => ~v3.failed)
    BY DEF Files!AttemptError
  <2>5. Files!TypeOK'
    BY <2>1, <2>3, <1>t DEF Files!TypeOK
  <2>6. Files!StepsKept'
    BY <2>1, <2>3, <2>4, <1>k, <1>q DEF Files!StepsKept, Files!OnHost
  <2> QED
    BY <2>5, <2>6 DEF Files!IInv
<1>9. CASE UNCHANGED Files!vars
  BY <1>9, <1>t, <1>k, <1>q DEF Files!vars, Files!IInv, Files!TypeOK, Files!StepsKept, Files!OnHost
<1> QED
  BY <1>1, <1>2, <1>3, <1>4, <1>5, <1>6, <1>7, <1>8, <1>9 DEF Files!Next, Files!Progress

LEMMA FilesSafe == Files!IInv => Files!AllOnOneHost
<1> SUFFICES ASSUME Files!IInv, v2.at = "returned", v2.err = "none"
             PROVE  /\ v1 /= "queue" => v3.done = 1..Len(Files!Program)
                    /\ v1 = "files" => v5
                    /\ v1 = "session" => ~v3.failed
                    /\ v3.file = 0 \/ v1 = "session"
  BY DEF Files!AllOnOneHost
<1>1. v1 = "files" => 3 \in 1..Len(Files!Program)
  <2>1. v1 = "files" => Len(Files!Program) = 3
    BY FilesProgram DEF Files!IInv
  <2> QED
    BY <2>1
<1> QED
  BY <1>1 DEF Files!IInv, Files!StepsKept

--------------------------------------------------------------------------------
(* RetriedBatch: v1 is attempt, v2 activity, v3 heartbeat, v4 processed, v5 clean. *)

LEMMA BatchThird ==
  /\ BatchSize \in Nat /\ MaximumAttempts \in Nat /\ MaximumAttempts >= 5
  /\ Retried!Third \in Nat /\ 3 * Retried!Third <= BatchSize /\ BatchSize <= 3 * Retried!Third + 2
<1>1. Retried!Sizes
  BY SamplesAssumption
<1>2. \A b \in Nat : b \div 3 \in Nat /\ 3 * (b \div 3) <= b /\ b <= 3 * (b \div 3) + 2
  BY SMTT(30)
<1> QED
  BY <1>1, <1>2 DEF Retried!Sizes, Retried!Third

LEMMA RetriedInit == Retried!Init => Retried!IInv
<1> SUFFICES ASSUME Retried!Init PROVE Retried!IInv
  OBVIOUS
<1>1. v1 = 1 /\ v3 = 0 /\ v5 = TRUE /\ v2 = [at |-> "scheduled", i |-> 0, inThisAttempt |-> 0]
  BY DEF Retried!Init, Retried!Idle
<1>2. v4 = [t \in Retried!Tasks |-> 0]
  BY DEF Retried!Init
<1>3. Retried!TypeOK
  BY <1>1, <1>2 DEF Retried!TypeOK
<1>4. Retried!Reached = 0
  BY <1>1 DEF Retried!Reached
<1>5. \A t \in Retried!Tasks : ~(t < 0) /\ v4[t] = 0
  BY <1>2 DEF Retried!Tasks
<1>6. Retried!FarEnough
  BY <1>1 DEF Retried!FarEnough
<1> QED
  BY <1>1, <1>3, <1>4, <1>5, <1>6, BatchThird DEF Retried!IInv

(* The inductive invariant of an attempt that has come so far. *)
Far(a, h, d) ==
  /\ h >= a - 1
  /\ \/ a = 1
     \/ a = 2 /\ h >= d
     \/ a = 3 /\ h >= 2 * d
     \/ a = 4 /\ h >= 3 * d
     \/ a = 5 /\ h >= 4 * d

LEMMA FarIs ==
  ASSUME Retried!TypeOK
  PROVE  Retried!FarEnough <=> /\ v1 \in 1..5 /\ Far(v1, v3, Retried!Third)
                               /\ v2.at = "running" => /\ v2.i >= v2.inThisAttempt
                                                       /\ Far(v1, v2.i - v2.inThisAttempt, Retried!Third)
<1>1. v1 \in Nat /\ v3 \in Nat /\ v2.i \in Nat /\ v2.inThisAttempt \in Nat /\ Retried!Third \in Nat
  BY BatchThird DEF Retried!TypeOK
<1> DEFINE i == v2.i
           k == v2.inThisAttempt
           d == Retried!Third
<1>2. i \in Nat /\ k \in Nat /\ d \in Nat
  BY <1>1
<1>3. Retried!FarEnough <=>
        /\ v1 \in 1..5
        /\ Far(v1, v3, d)
        /\ v2.at = "running" => i >= k
        /\ v2.at = "running" => \/ v1 = 1
                                \/ v1 = 2 /\ i >= d + k
                                \/ v1 = 3 /\ i >= 2 * d + k
                                \/ v1 = 4 /\ i >= 3 * d + k
                                \/ v1 = 5 /\ i >= 4 * d + k
        /\ v2.at = "running" => i >= v1 - 1 + k
  BY DEF Retried!FarEnough, Far
<1> HIDE DEF i, k, d
<1>4. Far(v1, i - k, d) <=> /\ \/ v1 = 1
                               \/ v1 = 2 /\ i >= d + k
                               \/ v1 = 3 /\ i >= 2 * d + k
                               \/ v1 = 4 /\ i >= 3 * d + k
                               \/ v1 = 5 /\ i >= 4 * d + k
                            /\ i >= v1 - 1 + k
  BY <1>1, <1>2 DEF Far
<1>5. Retried!FarEnough <=> /\ v1 \in 1..5 /\ Far(v1, v3, d)
                            /\ v2.at = "running" => i >= k /\ Far(v1, i - k, d)
  BY <1>3, <1>4
<1> QED
  BY <1>5 DEF i, k, d

LEMMA RetriedStep == ASSUME Retried!IInv, [Retried!Next]_Retried!vars PROVE Retried!IInv'
<1> DEFINE Activities == [at : {"scheduled", "running", "done", "failed"}, i : Nat, inThisAttempt : Nat]
           d == Retried!Third
<1>t. v1 \in Nat /\ v2 \in Activities /\ v3 \in Nat /\ v4 \in [Retried!Tasks -> Nat] /\ v5 \in BOOLEAN
  BY DEF Retried!IInv, Retried!TypeOK
<1>k. /\ v3 <= Retried!Reached /\ Retried!Reached <= BatchSize
      /\ \A t \in Retried!Tasks : t < Retried!Reached => v4[t] > 0
      /\ v5 => \A t \in Retried!Tasks : v4[t] = IF t < Retried!Reached THEN 1 ELSE 0
      /\ v2.at = "done" => v2.i = BatchSize
      /\ v2.at = "failed" => ~v5
  BY DEF Retried!IInv
<1>f. v5 => /\ v1 \in 1..5 /\ Far(v1, v3, d)
            /\ v2.at = "running" => v2.i >= v2.inThisAttempt /\ Far(v1, v2.i - v2.inThisAttempt, d)
  BY FarIs DEF Retried!IInv
<1>g. Retried!TypeOK' => (Retried!FarEnough' <=>
        /\ v1' \in 1..5 /\ Far(v1', v3', d)
        /\ v2'.at = "running" => v2'.i >= v2'.inThisAttempt /\ Far(v1', v2'.i - v2'.inThisAttempt, d))
  <2>1. (Retried!TypeOK => (Retried!FarEnough <=>
        /\ v1 \in 1..5 /\ Far(v1, v3, d)
        /\ v2.at = "running" => v2.i >= v2.inThisAttempt /\ Far(v1, v2.i - v2.inThisAttempt, d)))'
    BY FarIs, PTL
  <2>2. d' = d
    BY DEF Retried!Third
  <2> QED
    BY <2>1, <2>2 DEF Far
<1>s. BatchSize \in Nat /\ MaximumAttempts \in Nat /\ MaximumAttempts >= 5 /\ d \in Nat /\ 3 * d <= BatchSize /\ BatchSize <= 3 * d + 2
  BY BatchThird
<1>r. (v2.at \in {"scheduled", "failed"} => Retried!Reached = v3) /\ (v2.at \in {"running", "done"} => Retried!Reached = v2.i)
  BY DEF Retried!Reached
<1>u. (v2'.at \in {"scheduled", "failed"} => Retried!Reached' = v3') /\ (v2'.at \in {"running", "done"} => Retried!Reached' = v2'.i)
  BY DEF Retried!Reached
<1> HIDE DEF d
<1>1. CASE Retried!StartAttempt
  <2>1. /\ v2' = [at |-> "running", i |-> v3, inThisAttempt |-> 0] /\ v2.at = "scheduled"
        /\ v1' = v1 /\ v3' = v3 /\ v4' = v4 /\ v5' = v5
    BY <1>1 DEF Retried!StartAttempt, Retried!ResumeFrom
  <2>2. v2' \in Activities /\ v2'.at = "running" /\ v2'.i = v3 /\ v2'.inThisAttempt = 0 /\ v3 - 0 = v3 /\ v3 >= 0
    BY <2>1, <1>t
  <2>3. Retried!TypeOK'
    BY <2>1, <2>2, <1>t DEF Retried!TypeOK
  <2>4. v5' => Retried!FarEnough'
    BY <2>1, <2>2, <2>3, <1>f, <1>g
  <2> QED
    BY <2>1, <2>2, <2>3, <2>4, <1>k, <1>r, <1>u, <1>t DEF Retried!IInv
<1>2. CASE Retried!ProcessTask
  <2> DEFINE i == v2.i
             m == v2.inThisAttempt + 1
  <2>0. v2.at = "running" /\ i < BatchSize /\ i \in Nat /\ m \in Nat /\ (v1' = v1 \/ v1' = v1 + 1)
    BY <1>2, <1>t DEF Retried!ProcessTask, Retried!NextAttempt
  <2>1. v4' = [v4 EXCEPT ![i] = v4[i] + 1] /\ v5' = v5 /\ v2.at = "running" /\ i < BatchSize
    BY <1>2 DEF Retried!ProcessTask
  <2>2. i \in Retried!Tasks /\ i \in Nat /\ m \in Nat
    BY <2>1, <1>t, <1>s DEF Retried!Tasks
  <2>3. /\ v4' \in [Retried!Tasks -> Nat]
        /\ \A t \in Retried!Tasks : t < i + 1 => v4'[t] > 0
        /\ v5' => \A t \in Retried!Tasks : v4'[t] = IF t < i + 1 THEN 1 ELSE 0
    <3>1. Retried!Reached = i
      BY <2>1, <1>r
    <3>2. v4[i] \in Nat /\ v4' \in [Retried!Tasks -> Nat]
      BY <2>1, <2>2, <1>t
    <3>3. ASSUME NEW t \in Retried!Tasks
          PROVE  /\ t < i + 1 => v4'[t] > 0
                 /\ v5' => v4'[t] = IF t < i + 1 THEN 1 ELSE 0
      <4>1. t \in Int /\ v4[t] \in Nat
        BY <1>t DEF Retried!Tasks
      <4>2. CASE t = i
        <5>1. v4'[t] = v4[i] + 1
          BY <2>1, <2>2, <1>t, <4>2
        <5>2. v5 => v4[i] = 0
          BY <1>k, <3>1, <2>2
        <5> QED
          BY <5>1, <5>2, <4>2, <3>2, <2>1, <2>2
      <4>3. CASE t /= i
        <5>1. v4'[t] = v4[t] /\ (t < i + 1 <=> t < i)
          BY <2>1, <2>2, <1>t, <4>1, <4>3
        <5> QED
          BY <5>1, <1>k, <3>1, <2>1
      <4> QED
        BY <4>2, <4>3
    <3> QED
      BY <3>2, <3>3
  <2>4. CASE m >= BatchSize \div 3 /\ i < BatchSize - 1
    <3>1. v3' = i + 1 /\ m >= d /\ i + 1 < BatchSize
      BY <1>2, <2>4, <2>2, <1>s DEF Retried!ProcessTask, d, Retried!Third
    <3>2. Retried!NextAttempt
      BY <1>2, <2>4 DEF Retried!ProcessTask
    <3>a. v5 => v1 \in 1..5 /\ i >= v2.inThisAttempt /\ Far(v1, i - v2.inThisAttempt, d)
      BY <1>f, <2>1
    (* Five attempts that come as far have reached the last task. *)
    <3>b. v5 => v1 + 1 \in 1..5 /\ Far(v1 + 1, i + 1, d)
      <4>1. v2.inThisAttempt \in Nat /\ i \in Nat /\ m = v2.inThisAttempt + 1
        BY <1>t
      <4>2. \A a \in 1..5 : \A j, k, e, b \in Nat :
              j >= k /\ Far(a, j - k, e) /\ k + 1 >= e /\ j + 1 < b /\ b <= 3 * e + 2 => a + 1 \in 1..5 /\ Far(a + 1, j + 1, e)
        BY DEF Far
      <4> HIDE DEF i
      <4> QED
        BY <4>1, <4>2, <3>a, <3>1, <1>s
    <3>3. CASE v1 < MaximumAttempts
      <4>1. v2' = [at |-> "scheduled", i |-> 0, inThisAttempt |-> 0] /\ v1' = v1 + 1
        BY <3>2, <3>3 DEF Retried!NextAttempt, Retried!Idle
      <4>2. v2' \in Activities /\ v2'.at = "scheduled" /\ v1' \in Nat /\ v3' \in Nat
        BY <4>1, <3>1, <2>2, <1>t
      <4>3. Retried!TypeOK'
        BY <4>2, <2>3, <2>1, <1>t DEF Retried!TypeOK
      <4>4. v5' => Retried!FarEnough'
        BY <4>1, <4>2, <4>3, <3>1, <3>b, <2>1, <1>g
      <4>5. Retried!Reached' = i + 1
        BY <4>2, <3>1, <1>u
      <4> QED
        BY <4>2, <4>3, <4>4, <4>5, <3>1, <2>2, <2>3, <1>s DEF Retried!IInv
    <3>4. CASE ~(v1 < MaximumAttempts)
      <4>1. v2' = [v2 EXCEPT !.at = "failed"] /\ v1' = v1
        BY <3>2, <3>4 DEF Retried!NextAttempt
      <4>2. v2' \in Activities /\ v2'.at = "failed" /\ v1' \in Nat /\ v3' \in Nat
        BY <4>1, <3>1, <2>2, <1>t
      <4>3. ~v5
        BY <3>4, <3>b, <1>s, <1>t
      <4>4. Retried!TypeOK'
        BY <4>2, <2>3, <2>1, <1>t DEF Retried!TypeOK
      <4>5. Retried!Reached' = i + 1
        BY <4>2, <3>1, <1>u
      <4> QED
        BY <4>2, <4>3, <4>4, <4>5, <3>1, <2>1, <2>2, <2>3, <1>s DEF Retried!IInv
    <3> QED
      BY <3>3, <3>4
  <2>5. CASE ~(m >= BatchSize \div 3 /\ i < BatchSize - 1)
    <3>1. v2' = [v2 EXCEPT !.i = i + 1, !.inThisAttempt = m] /\ v1' = v1 /\ v3' = v3
      BY <1>2, <2>5 DEF Retried!ProcessTask
    <3>2. v2' = [at |-> v2.at, i |-> i + 1, inThisAttempt |-> m]
      BY <3>1, <1>t
    <3>3. v2' \in Activities /\ v2'.at = "running" /\ v2'.i = i + 1 /\ v2'.inThisAttempt = m
      BY <3>2, <2>1, <2>2
    <3>4. Retried!TypeOK'
      BY <3>1, <3>3, <2>3, <2>1, <1>t DEF Retried!TypeOK
    <3>5. i + 1 - m = i - v2.inThisAttempt /\ (i >= v2.inThisAttempt => i + 1 >= m)
      BY <1>t
    <3>a. v2'.i - v2'.inThisAttempt = i - v2.inThisAttempt /\ (i >= v2.inThisAttempt => v2'.i >= v2'.inThisAttempt)
      <4>1. v2'.i = i + 1 /\ v2'.inThisAttempt = m /\ i \in Nat /\ v2.inThisAttempt \in Nat
        BY <3>3, <1>t
      <4>2. \A j, k \in Nat : (j + 1) - (k + 1) = j - k /\ (j >= k => j + 1 >= k + 1)
        OBVIOUS
      <4> HIDE DEF i
      <4> QED
        BY <4>1, <4>2
    <3>b. v5 => v1 \in 1..5 /\ Far(v1, v3, d) /\ i >= v2.inThisAttempt /\ Far(v1, i - v2.inThisAttempt, d)
      BY <1>f, <2>1
    <3>c. v5' => /\ v1' \in 1..5 /\ Far(v1', v3', d)
                 /\ v2'.i >= v2'.inThisAttempt /\ Far(v1', v2'.i - v2'.inThisAttempt, d)
      BY <3>a, <3>b, <3>1, <2>1
    <3>6. v5' => Retried!FarEnough'
      BY <3>c, <3>4, <1>g
    <3>7. Retried!Reached' = i + 1 /\ v3' <= i + 1 /\ i + 1 <= BatchSize
      BY <3>1, <3>3, <2>1, <2>2, <1>k, <1>r, <1>u, <1>t, <1>s
    <3> QED
      BY <3>3, <3>4, <3>6, <3>7, <2>3 DEF Retried!IInv
  <2> QED
    BY <2>4, <2>5
<1>3. CASE Retried!HeartbeatSent
  <2>1. v2.at = "running" /\ v2.i > v3 /\ v3' = v2.i /\ v1' = v1 /\ v2' = v2 /\ v4' = v4 /\ v5' = v5
    BY <1>3 DEF Retried!HeartbeatSent
  <2>2. Retried!TypeOK'
    BY <2>1, <1>t DEF Retried!TypeOK
  <2>3. v5 => Far(v1, v2.i, d)
    <3>1. \A a \in 1..5 : \A j, k, e \in Nat : j >= k /\ Far(a, j - k, e) => Far(a, j, e)
      BY DEF Far
    <3>2. v2.i \in Nat /\ v2.inThisAttempt \in Nat /\ d \in Nat
      BY <1>t, <1>s
    <3> QED
      BY <3>1, <3>2, <2>1, <1>f
  <2>4. v5' => Retried!FarEnough'
    BY <2>1, <2>2, <2>3, <1>f, <1>g
  <2>5. Retried!Reached = v2.i /\ Retried!Reached' = v2.i /\ v2.i <= v2.i
    BY <2>1, <1>r, <1>u, <1>t
  <2> QED
    BY <2>1, <2>2, <2>4, <2>5, <1>k DEF Retried!IInv
<1>4. CASE Retried!Succeed
  <2>1. v2.at = "running" /\ v2.i >= BatchSize /\ v2' = [v2 EXCEPT !.at = "done"] /\ v1' = v1 /\ v3' = v3 /\ v4' = v4 /\ v5' = v5
    BY <1>4 DEF Retried!Succeed
  <2>2. v2' \in Activities /\ v2'.at = "done" /\ v2'.i = v2.i
    BY <2>1, <1>t
  <2>3. Retried!TypeOK'
    BY <2>1, <2>2, <1>t DEF Retried!TypeOK
  <2>4. Retried!Reached = v2.i /\ Retried!Reached' = v2.i /\ v2.i = BatchSize
    BY <2>1, <2>2, <1>r, <1>u, <1>t, <1>k, <1>s
  <2>5. v5' => Retried!FarEnough'
    BY <2>1, <2>2, <2>3, <1>f, <1>g
  <2> QED
    BY <2>1, <2>2, <2>3, <2>4, <2>5, <1>k DEF Retried!IInv
<1>5. CASE Retried!WorkerDies
  <2>1. /\ v2.at = "running" /\ v5' = FALSE /\ v3' = v3 /\ v4' = v4
        /\ \/ v2' = [at |-> "scheduled", i |-> 0, inThisAttempt |-> 0] /\ v1' = v1 + 1
           \/ v2' = [v2 EXCEPT !.at = "failed"] /\ v1' = v1
    BY <1>5 DEF Retried!WorkerDies, Retried!NextAttempt, Retried!Idle
  <2>2. v2' \in Activities /\ v2'.at \in {"scheduled", "failed"} /\ v1' \in Nat
    BY <2>1, <1>t
  <2>3. Retried!TypeOK'
    BY <2>1, <2>2, <1>t DEF Retried!TypeOK
  <2>4. Retried!Reached' = v3 /\ v3 <= v2.i /\ v2.i <= BatchSize /\ v2.i \in Nat
    BY <2>1, <2>2, <1>r, <1>u, <1>k, <1>t
  <2>5. \A t \in Retried!Tasks : t < v3 => v4[t] > 0
    <3>1. ASSUME NEW t \in Retried!Tasks, t < v3 PROVE t < Retried!Reached
      BY <3>1, <2>1, <2>4, <1>r, <1>t DEF Retried!Tasks
    <3> QED
      BY <3>1, <1>k
  <2>6. v3 <= v3 /\ v3 <= BatchSize
    BY <2>4, <1>t, <1>s
  <2> QED
    BY <2>1, <2>2, <2>3, <2>4, <2>5, <2>6 DEF Retried!IInv
<1>6. CASE UNCHANGED Retried!vars
  <2>1. v1' = v1 /\ v2' = v2 /\ v3' = v3 /\ v4' = v4 /\ v5' = v5
    BY <1>6 DEF Retried!vars
  <2> QED
    BY <2>1 DEF Retried!IInv, Retried!TypeOK, Retried!Reached, Retried!FarEnough
<1> QED
  BY <1>1, <1>2, <1>3, <1>4, <1>5, <1>6 DEF Retried!Next, Retried!Progress

LEMMA RetriedSafe == Retried!IInv => Retried!NoTaskSkipped
<1> SUFFICES ASSUME Retried!IInv PROVE Retried!NoTaskSkipped
  OBVIOUS
<1>1. /\ v3 <= Retried!Reached /\ Retried!Reached <= BatchSize /\ v3 \in Nat /\ v2.i \in Nat
      /\ \A t \in Retried!Tasks : t < Retried!Reached => v4[t] > 0
      /\ v5 => \A t \in Retried!Tasks : v4[t] = IF t < Retried!Reached THEN 1 ELSE 0
      /\ v2.at = "done" => v2.i = BatchSize
      /\ v2.at = "failed" => ~v5
  BY DEF Retried!IInv, Retried!TypeOK
<1>2. /\ v2.at \in {"running", "done"} => Retried!Reached = v2.i
      /\ Retried!Reached \in Nat
  BY <1>1 DEF Retried!Reached, Retried!IInv, Retried!TypeOK
<1>3. BatchSize \in Nat
  BY BatchThird
<1>4. ASSUME NEW t \in Retried!Tasks, v2.at = "done" \/ t < v3 \/ (v2.at = "running" /\ t < v2.i)
      PROVE  v4[t] > 0
  <2>1. t \in Int /\ t < BatchSize
    BY <1>3 DEF Retried!Tasks
  <2>2. t < Retried!Reached
    BY <1>1, <1>2, <1>3, <1>4, <2>1
  <2> QED
    BY <2>2, <1>1
<1>5. v5 => \A t \in Retried!Tasks : v4[t] <= 1
  BY <1>1
<1> QED
  BY <1>1, <1>4, <1>5 DEF Retried!NoTaskSkipped

--------------------------------------------------------------------------------
(* Polling: v1 is pattern, v2 tries, v3 poll, v4 workflow, v5 trouble. *)

LEMMA PollInit == Poll!Init => Poll!IInv
<1> SUFFICES ASSUME Poll!Init PROVE Poll!IInv
  OBVIOUS
<1>1. Poll!TypeOK
  BY SamplesAssumption DEF Poll!Sizes, Poll!Init, Poll!TypeOK
<1>2. Poll!AnswerIsReal
  <2>1. Poll!Sizes
    BY SamplesAssumption
  <2> QED
    BY <2>1 DEF Poll!Sizes, Poll!Init, Poll!AnswerIsReal
<1> QED
  BY <1>1, <1>2 DEF Poll!Init, Poll!IInv

LEMMA PollStep == ASSUME Poll!IInv, [Poll!Next]_Poll!vars PROVE Poll!IInv'
<1>s. Poll!Sizes
  BY SamplesAssumption
<1>1. CASE Poll!StartPoll
  BY <1>1 DEF Poll!StartPoll, Poll!IInv, Poll!TypeOK, Poll!AnswerIsReal
<1>2. CASE Poll!GetServiceResult
  <2>1. (v2 + 1) % ErrorAttempts \in Nat /\ Poll!Answers \in BOOLEAN
    <3>1. v2 + 1 \in Nat /\ ErrorAttempts \in Nat /\ ErrorAttempts > 0
      BY <1>s DEF Poll!IInv, Poll!TypeOK, Poll!Sizes
    <3>2. \A a, b \in Nat : b > 0 => a % b \in Nat
      OBVIOUS
    <3>3. (v2 + 1) % ErrorAttempts \in Nat
      BY ONLY <3>1, <3>2
    <3> QED
      BY <3>3 DEF Poll!Answers
  <2>2. v4' = [v4 EXCEPT !.answered = v4.answered \/ Poll!Answers]
    BY <1>2 DEF Poll!GetServiceResult
  <2>3. Poll!TypeOK'
    BY <1>2, <2>1, <2>2 DEF Poll!GetServiceResult, Poll!AfterError, Poll!IInv, Poll!TypeOK
  <2>4. Poll!AnswerIsReal'
    BY <1>2, <2>1, <2>2 DEF Poll!GetServiceResult, Poll!IInv, Poll!TypeOK, Poll!AnswerIsReal
  <2>5. (v3 = "answered" => v4.answered)'
    BY <1>2, <2>1, <2>2 DEF Poll!GetServiceResult, Poll!AfterError, Poll!IInv, Poll!TypeOK
  <2> QED
    BY <2>3, <2>4, <2>5 DEF Poll!IInv
<1>3. CASE Poll!AnswerLost
  <2>1. v5' = [v5 EXCEPT !.lost = v5.lost + 1] /\ v1' = v1 /\ v2' = v2 /\ v4' = v4 /\ v3' \in {"failed", "scheduled"}
    BY <1>3 DEF Poll!AnswerLost, Poll!AfterLoss
  <2>2. v5' \in [restarts : Nat, lost : Nat]
    BY <2>1 DEF Poll!IInv, Poll!TypeOK
  <2> QED
    BY <2>1, <2>2 DEF Poll!IInv, Poll!TypeOK, Poll!AnswerIsReal
<1>4. CASE Poll!WorkerRestarts
  <2>1. /\ v5' = [v5 EXCEPT !.restarts = v5.restarts + 1] /\ v1' = v1 /\ v2' = 0 /\ v4' = v4
        /\ v3' = v3 \/ v3' \in {"failed", "scheduled"}
    BY <1>4 DEF Poll!WorkerRestarts, Poll!AfterLoss
  <2>2. v5' \in [restarts : Nat, lost : Nat]
    BY <2>1 DEF Poll!IInv, Poll!TypeOK
  <2> QED
    BY <2>1, <2>2 DEF Poll!IInv, Poll!TypeOK, Poll!AnswerIsReal
<1>5. CASE Poll!ReturnResult
  BY <1>5 DEF Poll!ReturnResult, Poll!IInv, Poll!TypeOK, Poll!AnswerIsReal
<1>6. CASE Poll!SleepAndRetry
  <2>1. /\ v1' = v1 /\ v2' = v2 /\ v5' = v5 /\ v3' = "scheduled" /\ v4.at = "await"
        /\ v4' = IF v4.i + 1 >= PollsPerRun THEN [v4 EXCEPT !.i = 0, !.runs = 2] ELSE [v4 EXCEPT !.i = v4.i + 1]
    BY <1>6 DEF Poll!SleepAndRetry, Poll!RunIsOver
  <2>2. v4 \in [i : Nat, runs : {1, 2}, at : {"await", "returned"}, result : {"none", "OK"}, answered : BOOLEAN]
    BY DEF Poll!IInv, Poll!TypeOK
  <2>3. PollsPerRun \in Nat \ {0}
    BY <1>s DEF Poll!Sizes
  <2>4. /\ v4' \in [i : Nat, runs : {1, 2}, at : {"await", "returned"}, result : {"none", "OK"}, answered : BOOLEAN]
        /\ v4'.at = "await"
    <3>1. CASE v4' = [v4 EXCEPT !.i = 0, !.runs = 2]
      <4>1. v4' = [i |-> 0, runs |-> 2, at |-> v4.at, result |-> v4.result, answered |-> v4.answered]
        BY <3>1, <2>2
      <4> QED
        BY <4>1, <2>1, <2>2
    <3>2. CASE v4' = [v4 EXCEPT !.i = v4.i + 1]
      BY <3>2, <2>1, <2>2
    <3> QED
      BY <2>1, <3>1, <3>2
  <2>5. v4'.i < PollsPerRun
    BY <2>1, <2>2, <2>3
  <2> QED
    BY <2>1, <2>4, <2>5 DEF Poll!IInv, Poll!TypeOK, Poll!AnswerIsReal
<1>7. CASE UNCHANGED Poll!vars
  BY <1>7 DEF Poll!vars, Poll!IInv, Poll!TypeOK, Poll!AnswerIsReal
<1> QED
  BY <1>1, <1>2, <1>3, <1>4, <1>5, <1>6, <1>7 DEF Poll!Next, Poll!Progress

--------------------------------------------------------------------------------
(* ParticleSwarm: v1 is parent, v2 child, v3 swarm, v4 task, v5 best. *)

LEMMA SwarmSizes ==
  /\ Particles \subseteq Nat /\ Particles /= {}
  /\ SwarmSteps \in Nat /\ ContinueAsNewEvery \in Nat \ {0} /\ NumberOfAttempts \in Nat
<1>1. Swarm!Sizes
  BY SamplesAssumption
<1> QED
  BY <1>1 DEF Swarm!Sizes

(* updateBest gives the best of Gbest and of what the particles have seen. *)
LEMMA UpdateBest ==
  ASSUME Swarm!TypeOK
  PROVE  /\ Swarm!updateBest \in Swarm!Known /\ Swarm!updateBest <= v3.gbest
         /\ \A p \in Particles : Swarm!updateBest <= v3.pbest[p]
         /\ Swarm!updateBest = v3.gbest \/ \E p \in Particles : Swarm!updateBest = v3.pbest[p]
<1> DEFINE S == {v3.pbest[p] : p \in Particles}
           m == Swarm!Min(S)
<1>1. v3.gbest \in 0..3 /\ v3.pbest \in [Particles -> 0..3]
  <2>1. Swarm!Known = 0..3
    BY DEF Swarm!Known, Swarm!Fitness, Swarm!Unknown
  <2> QED
    BY <2>1 DEF Swarm!TypeOK
<1>2. S \subseteq 0..3 /\ S \in SUBSET Nat /\ S /= {}
  <2>1. PICK q \in Particles : TRUE
    BY SwarmSizes
  <2>2. v3.pbest[q] \in S
    BY <2>1
  <2>3. S \subseteq 0..3
    BY <1>1
  <2>4. S \in SUBSET Nat
    BY <2>3
  <2> QED
    BY <2>2, <2>3, <2>4
<1>3. IsFiniteSet(S)
  <2>1. 0 \in Int /\ 3 \in Int /\ S \in SUBSET (0..3)
    BY <1>2
  <2>2. IsFiniteSet(0..3)
    BY <2>1, FS_Interval
  <2> HIDE DEF S
  <2> QED
    BY <2>1, <2>2, FS_Subset
<1>4. \E x \in S : \A k \in S : x <= k
  BY <1>2, <1>3, SmallestLargest
<1>5. m = CHOOSE x \in S : \A k \in S : x <= k
  BY DEF Swarm!Min
<1>6. m \in S /\ \A k \in S : m <= k
  BY <1>4, <1>5
<1>7. m \in 0..3 /\ \E p \in Particles : m = v3.pbest[p]
  BY <1>6, <1>1
<1>8. \A p \in Particles : m <= v3.pbest[p] /\ v3.pbest[p] \in 0..3
  BY <1>6, <1>1
<1>9. Swarm!updateBest = IF v3.gbest < m THEN v3.gbest ELSE m
  BY DEF Swarm!updateBest, Swarm!MinOf
<1> HIDE DEF m, S
<1>10. Swarm!updateBest \in 0..3 /\ Swarm!updateBest <= v3.gbest /\ Swarm!updateBest <= m
  BY <1>1, <1>7, <1>9
<1>11. Swarm!Known = 0..3
  BY DEF Swarm!Known, Swarm!Fitness, Swarm!Unknown
<1>12. ASSUME NEW p \in Particles PROVE Swarm!updateBest <= v3.pbest[p]
  BY <1>10, <1>8, <1>7, <1>1
<1> QED
  BY <1>7, <1>9, <1>10, <1>11, <1>12

LEMMA SwarmInit == Swarm!Init => Swarm!IInv
<1> SUFFICES ASSUME Swarm!Init PROVE Swarm!IInv
  OBVIOUS
<1>1. /\ v1 = [at |-> "init", attempt |-> 1] /\ v2 = [at |-> "none", step |-> 0, moved |-> 0]
      /\ v3 = [gbest |-> 3, pbest |-> [p \in Particles |-> 3]] /\ v4 = [p \in Particles |-> "none"] /\ v5 = 3
  BY DEF Swarm!Init, Swarm!NoSwarm, Swarm!NotStarted, Swarm!Unknown
<1>2. Swarm!TypeOK
  BY <1>1 DEF Swarm!TypeOK, Swarm!Known, Swarm!Unknown
<1>3. Swarm!BestKept
  BY <1>1 DEF Swarm!BestKept
<1>4. Swarm!BestIsBest
  BY <1>1 DEF Swarm!BestIsBest
<1> QED
  BY <1>1, <1>2, <1>3, <1>4 DEF Swarm!IInv

(* What is known of the parent and its child, whatever the swarm has found. *)
SwarmShape ==
  /\ v1.at = "init" => v2.at = "none"
  /\ v1.at = "child" => v2.at \in {"moving", "continues", "returned"}
  /\ v1.at \in {"reached", "unable"} => v2.at = "returned"
  /\ v2.at \in {"moving", "continues", "returned"} => v1.at \in {"child", "reached", "unable"}
  /\ v2.at \in {"moving", "continues"} => v1.at = "child"
  /\ v2.at \in {"continues", "returned"} => v4 = Swarm!NotStarted
  /\ v2.at = "continues" => v2.moved = v2.step

LEMMA SwarmIs ==
  /\ Swarm!IInv <=> Swarm!TypeOK /\ Swarm!BestKept /\ Swarm!BestIsBest /\ SwarmShape
  /\ Swarm!IInv' <=> Swarm!TypeOK' /\ Swarm!BestKept' /\ Swarm!BestIsBest' /\ SwarmShape'
<1>1. Swarm!IInv <=> Swarm!TypeOK /\ Swarm!BestKept /\ Swarm!BestIsBest /\ SwarmShape
  BY DEF Swarm!IInv, SwarmShape
<1>2. Swarm!IInv' <=> Swarm!TypeOK' /\ Swarm!BestKept' /\ Swarm!BestIsBest' /\ SwarmShape'
  BY DEF Swarm!IInv, SwarmShape
<1> QED
  BY <1>1, <1>2

LEMMA SwarmStep == ASSUME Swarm!IInv, [Swarm!Next]_Swarm!vars PROVE Swarm!IInv'
<1> DEFINE Parents == [at : {"init", "child", "reached", "unable", "failed"}, attempt : Nat]
           Children == [at : {"none", "moving", "continues", "returned", "failed"}, step : Nat, moved : Nat]
           Swarms == [gbest : 0..3, pbest : [Particles -> 0..3]]
           TaskMaps == [Particles -> {"none", "running", "done", "failed"}]
<1>n. Swarm!Known = 0..3 /\ Swarm!Goal = 1 /\ Swarm!Unknown = 3
  BY DEF Swarm!Known, Swarm!Fitness, Swarm!Unknown, Swarm!Goal
<1>t. v1 \in Parents /\ v2 \in Children /\ v3 \in Swarms /\ v4 \in TaskMaps /\ v5 \in 0..3
  BY <1>n DEF Swarm!IInv, Swarm!TypeOK
<1>o. v1' \in Parents /\ v2' \in Children /\ v3' \in Swarms /\ v4' \in TaskMaps /\ v5' \in 0..3 => Swarm!TypeOK'
  BY <1>n DEF Swarm!TypeOK
<1>k. Swarm!TypeOK /\ Swarm!BestKept /\ Swarm!BestIsBest /\ SwarmShape
  BY SwarmIs
<1>z. PICK q \in Particles : TRUE
  BY SwarmSizes
<1>y. Swarm!NotStarted' = Swarm!NotStarted /\ Swarm!NotStarted \in TaskMaps /\ Swarm!NotStarted[q] = "none"
  BY <1>z DEF Swarm!NotStarted
<1>x. v5' = v5 /\ v3' = v3 => Swarm!BestKept'
  BY <1>k DEF Swarm!BestKept
<1>1. CASE Swarm!StartActivities
  <2>1. v4' = [p \in Particles |-> "running"] /\ v1' = v1 /\ v2' = v2 /\ v3' = v3 /\ v5' = v5 /\ Swarm!Gathering
    BY <1>1 DEF Swarm!StartActivities
  <2>2. v4' \in TaskMaps /\ v4' /= Swarm!NotStarted
    BY <2>1, <1>y, <1>z
  <2>3. Swarm!BestIsBest'
    BY <2>1, <2>2, <1>k, <1>y DEF Swarm!BestIsBest, Swarm!Success
  <2>4. SwarmShape'
    BY <2>1, <2>2, <1>k, <1>y DEF SwarmShape, Swarm!Gathering
  <2> QED
    BY <2>1, <2>2, <2>3, <2>4, <1>t, <1>o, <1>x, SwarmIs
<1>2. ASSUME NEW p \in Particles, NEW fitness \in Swarm!Fitness, Swarm!UpdateFitness(p, fitness) PROVE Swarm!IInv'
  <2>1. /\ v4' = [v4 EXCEPT ![p] = "done"] /\ v5' = Swarm!MinOf(v5, fitness) /\ v1' = v1 /\ v2' = v2
        /\ v3' = [v3 EXCEPT !.pbest[p] = Swarm!MinOf(v3.pbest[p], fitness)] /\ Swarm!Gathering
    BY <1>2 DEF Swarm!UpdateFitness
  <2>f. fitness \in 0..3
    BY DEF Swarm!Fitness
  <2> DEFINE a == Swarm!MinOf(v3.pbest[p], fitness)
             b == Swarm!MinOf(v5, fitness)
  <2>2. /\ a \in 0..3 /\ a <= fitness /\ a <= v3.pbest[p] /\ (a = fitness \/ a = v3.pbest[p])
        /\ b \in 0..3 /\ b <= fitness /\ b <= v5 /\ (b = fitness \/ b = v5)
        /\ v3.pbest[p] \in 0..3 /\ v3.gbest \in 0..3
    BY <2>f, <1>t DEF Swarm!MinOf
  <2>a. b <= fitness /\ (b = fitness => b <= v5) /\ (b = v5 => b <= fitness)
    BY <2>2, <2>f, <1>t
  <2> HIDE DEF a, b
  <2>3. v3' = [gbest |-> v3.gbest, pbest |-> [v3.pbest EXCEPT ![p] = a]]
    BY <2>1, <1>t DEF a
  <2>4. v3' \in Swarms /\ v3'.gbest = v3.gbest /\ v3'.pbest = [v3.pbest EXCEPT ![p] = a]
    BY <2>3, <2>2, <1>t
  <2>5. v3'.pbest[p] = a /\ \A r \in Particles : r /= p => v3'.pbest[r] = v3.pbest[r] /\ v3.pbest[r] \in 0..3
    BY <2>4, <1>t
  <2>6. v4' \in TaskMaps /\ v4'[p] = "done" /\ Swarm!NotStarted[p] = "none"
    BY <2>1, <1>t DEF Swarm!NotStarted
  <2>7. v4' /= Swarm!NotStarted
    BY <2>6
  <2>b. v5' = b
    BY <2>1 DEF b
  <2>8. Swarm!BestKept'
    <3>1. v5 <= v3.gbest /\ \A r \in Particles : v5 <= v3.pbest[r]
      BY <1>k DEF Swarm!BestKept
    <3>2. b <= v3.gbest
      BY <3>1, <2>2, <1>t
    <3>3. ASSUME NEW r \in Particles PROVE b <= v3'.pbest[r]
      <4>1. CASE r = p
        BY <4>1, <3>1, <2>2, <2>5, <2>f, <1>t
      <4>2. CASE r /= p
        BY <4>2, <3>1, <2>2, <2>5, <1>t
      <4> QED
        BY <4>1, <4>2
    <3>4. b = v3.gbest \/ \E r \in Particles : b = v3'.pbest[r]
      <4>1. CASE b = fitness /\ fitness < v5
        <5>1. fitness < v3.pbest[p]
          BY <4>1, <3>1, <2>2, <2>f, <1>t
        <5>2. a = fitness
          BY <5>1, <2>2, <2>f DEF a, Swarm!MinOf
        <5> QED
          BY <5>2, <4>1, <2>5
      <4>2. CASE ~(b = fitness /\ fitness < v5)
        <5>1. b = v5 /\ v5 <= fitness
          BY <4>2, <2>2, <2>f, <1>t
        <5>2. v5 = v3.gbest \/ \E r \in Particles : v5 = v3.pbest[r]
          BY <1>k DEF Swarm!BestKept
        <5>3. ASSUME NEW r \in Particles, v5 = v3.pbest[r] PROVE v5 = v3'.pbest[r]
          <6>1. CASE r = p
            BY <6>1, <5>1, <5>3, <2>2, <2>5, <2>f, <1>t
          <6>2. CASE r /= p
            BY <6>2, <5>3, <2>5
          <6> QED
            BY <6>1, <6>2
        <5> QED
          BY <5>1, <5>2, <5>3
      <4> QED
        BY <4>1, <4>2
    <3> QED
      BY <2>4, <2>b, <3>2, <3>3, <3>4 DEF Swarm!BestKept
  <2>9. Swarm!BestIsBest'
    BY <2>1, <2>4, <2>7, <1>k, <1>y DEF Swarm!BestIsBest, Swarm!Success
  <2>10. SwarmShape'
    BY <2>1, <2>7, <1>k, <1>y DEF SwarmShape, Swarm!Gathering
  <2> QED
    BY <2>1, <2>2, <2>b, <2>4, <2>6, <2>8, <2>9, <2>10, <1>t, <1>o, SwarmIs
<1>3. ASSUME NEW p \in Particles, Swarm!ActivityFails(p) PROVE Swarm!IInv'
  <2>1. v4' = [v4 EXCEPT ![p] = "failed"] /\ v1' = v1 /\ v2' = v2 /\ v3' = v3 /\ v5' = v5 /\ Swarm!Gathering
    BY <1>3 DEF Swarm!ActivityFails
  <2>2. v4' \in TaskMaps /\ v4'[p] = "failed" /\ Swarm!NotStarted[p] = "none"
    BY <2>1, <1>t DEF Swarm!NotStarted
  <2>3. v4' /= Swarm!NotStarted
    BY <2>2
  <2>4. Swarm!BestIsBest'
    BY <2>1, <2>3, <1>k, <1>y DEF Swarm!BestIsBest, Swarm!Success
  <2>5. SwarmShape'
    BY <2>1, <2>3, <1>k, <1>y DEF SwarmShape, Swarm!Gathering
  <2> QED
    BY <2>1, <2>2, <2>4, <2>5, <1>t, <1>o, <1>x, SwarmIs
<1>4. CASE Swarm!SwarmFails
  <2>1. /\ v1' = [v1 EXCEPT !.at = "failed"] /\ v3' = v3 /\ v4' = v4 /\ v5' = v5 /\ Swarm!Gathering
        /\ v2' = [v2 EXCEPT !.at = IF v2.at = "moving" THEN "failed" ELSE v2.at]
    BY <1>4 DEF Swarm!SwarmFails
  <2>2. v1' \in Parents /\ v1'.at = "failed"
    BY <2>1, <1>t
  <2>3. v2' \in Children /\ v2'.at = IF v2.at = "moving" THEN "failed" ELSE v2.at
    BY <2>1, <1>t
  <2>4. v2'.at \in {"none", "failed"}
    BY <2>1, <2>3, <1>k DEF Swarm!Gathering, SwarmShape
  <2>5. Swarm!BestIsBest'
    BY <2>2, <2>4 DEF Swarm!BestIsBest
  <2>6. SwarmShape'
    BY <2>2, <2>4 DEF SwarmShape
  <2> QED
    BY <2>1, <2>2, <2>3, <2>5, <2>6, <1>t, <1>o, <1>x, SwarmIs
(* What updateBest makes of the swarm. *)
<1>u. ASSUME v3' = [v3 EXCEPT !.gbest = Swarm!updateBest], v5' = v5
      PROVE  v3' \in Swarms /\ v3'.gbest = Swarm!updateBest /\ v3'.gbest = v5 /\ Swarm!BestKept'
  <2> DEFINE u == Swarm!updateBest
  <2>1. /\ u \in 0..3 /\ u <= v3.gbest
        /\ \A p \in Particles : u <= v3.pbest[p]
        /\ u = v3.gbest \/ \E p \in Particles : u = v3.pbest[p]
    BY <1>k, <1>n, UpdateBest
  <2>2. v3' = [v3 EXCEPT !.gbest = u]
    BY <1>u
  <2> HIDE DEF u
  <2>3. v3' \in Swarms /\ v3'.gbest = u /\ v3'.pbest = v3.pbest
    BY <2>1, <2>2, <1>t
  <2>4. /\ v5 <= v3.gbest /\ \A p \in Particles : v5 <= v3.pbest[p]
        /\ v5 = v3.gbest \/ \E p \in Particles : v5 = v3.pbest[p]
    BY <1>k DEF Swarm!BestKept
  <2>5. u <= v5 /\ v5 <= u
    BY <2>1, <2>4
  <2>6. u = v5
    BY <2>5, <2>1, <1>t
  <2>7. Swarm!BestKept'
    BY <2>3, <2>4, <2>6, <1>u, <1>t DEF Swarm!BestKept
  <2> QED
    BY <2>3, <2>6, <2>7 DEF u
<1>5. CASE Swarm!NewSwarm
  <2>1. /\ v3' = [v3 EXCEPT !.gbest = Swarm!updateBest] /\ v4' = Swarm!NotStarted /\ v1' = [v1 EXCEPT !.at = "child"]
        /\ v2' = [at |-> "moving", step |-> 1, moved |-> 0] /\ v5' = v5
    BY <1>5 DEF Swarm!NewSwarm
  <2>2. v3' \in Swarms /\ v3'.gbest = v5 /\ Swarm!BestKept'
    BY <1>u, <2>1
  <2>3. v1' \in Parents /\ v1'.at = "child"
    BY <2>1, <1>t
  <2>4. v2' \in Children /\ v2'.at = "moving" /\ v2'.step = 1 /\ v2'.moved = 0
    BY <2>1
  <2>5. Swarm!BestIsBest'
    BY <2>1, <2>2, <2>3, <2>4 DEF Swarm!BestIsBest
  <2>6. SwarmShape'
    BY <2>3, <2>4 DEF SwarmShape
  <2> QED
    BY <2>1, <2>2, <2>3, <2>4, <2>5, <2>6, <1>t, <1>y, <1>o, SwarmIs
<1>6. CASE Swarm!Iterate
  <2> DEFINE u == Swarm!updateBest
             over == u < Swarm!Goal \/ v2.step = SwarmSteps
  <2>1. /\ v3' = [v3 EXCEPT !.gbest = Swarm!updateBest] /\ v4' = Swarm!NotStarted /\ v1' = v1 /\ v5' = v5
        /\ v2.at = "moving"
        /\ v2' = [v2 EXCEPT !.moved = v2.moved + 1,
                            !.at = IF over THEN "returned" ELSE IF Swarm!Continues THEN "continues" ELSE "moving",
                            !.step = IF over \/ Swarm!Continues THEN v2.step ELSE v2.step + 1]
    BY <1>6 DEF Swarm!Iterate
  <2>2. v3' \in Swarms /\ v3'.gbest = v5 /\ v3'.gbest = u /\ Swarm!BestKept'
    BY <1>u, <2>1
  <2>3. v2.moved + 1 = v2.step /\ v1.at = "child"
    BY <2>1, <1>k DEF Swarm!BestIsBest, SwarmShape
  <2> HIDE DEF u
  <2>4. v2' = [at |-> IF over THEN "returned" ELSE IF Swarm!Continues THEN "continues" ELSE "moving",
               step |-> IF over \/ Swarm!Continues THEN v2.step ELSE v2.step + 1,
               moved |-> v2.moved + 1]
    BY <2>1, <1>t
  <2>5. v2.step \in Nat /\ v2.moved \in Nat /\ v2.step + 1 \in Nat /\ v2.moved + 1 \in Nat
    BY <1>t
  <2>6. v2' \in Children
    BY <2>4, <2>5
  <2>7. /\ over => v2'.at = "returned"
        /\ ~over /\ Swarm!Continues => v2'.at = "continues" /\ v2'.step = v2.step
        /\ ~over /\ ~Swarm!Continues => v2'.at = "moving" /\ v2'.step = v2.step + 1
        /\ v2'.moved = v2.step
    BY <2>4, <2>3
  <2>8. over => v3'.gbest < Swarm!Goal' \/ v2'.moved = SwarmSteps
    BY <2>7, <2>2 DEF Swarm!Goal
  <2>9. ~over => v3'.gbest >= Swarm!Goal'
    BY <2>2, <1>t, <1>n DEF Swarm!Goal
  <2>10. Swarm!BestIsBest'
    BY <2>1, <2>2, <2>3, <2>7, <2>8, <2>9, <2>5 DEF Swarm!BestIsBest
  <2>11. SwarmShape'
    BY <2>1, <2>3, <2>7, <1>y DEF SwarmShape
  <2> QED
    BY <2>1, <2>2, <2>6, <2>10, <2>11, <1>t, <1>y, <1>o, SwarmIs
<1>7. CASE Swarm!ContinueAsNew
  <2>1. v2.at = "continues" /\ v2' = [v2 EXCEPT !.at = "moving", !.step = v2.step + 1] /\ v1' = v1 /\ v3' = v3 /\ v4' = v4 /\ v5' = v5
    BY <1>7 DEF Swarm!ContinueAsNew
  <2>2. v2' = [at |-> "moving", step |-> v2.step + 1, moved |-> v2.moved]
    BY <2>1, <1>t
  <2>3. v2' \in Children /\ v2'.at = "moving" /\ v2'.step = v2.step + 1 /\ v2'.moved = v2.moved
    BY <2>2, <1>t
  <2>4. v1.at = "child" /\ v2.moved = v2.step /\ v4 = Swarm!NotStarted
    BY <2>1, <1>k DEF SwarmShape
  <2>5. Swarm!BestIsBest'
    BY <2>1, <2>3, <2>4, <1>k, <1>y DEF Swarm!BestIsBest, Swarm!Success, Swarm!Goal
  <2>6. SwarmShape'
    BY <2>1, <2>3, <2>4 DEF SwarmShape
  <2> QED
    BY <2>1, <2>3, <2>5, <2>6, <1>t, <1>o, <1>x, SwarmIs
<1>8. CASE Swarm!ChildTimesOut
  <2>1. v2' = [v2 EXCEPT !.at = "failed"] /\ v1' = [v1 EXCEPT !.at = "failed"] /\ v3' = v3 /\ v4' = v4 /\ v5' = v5
    BY <1>8 DEF Swarm!ChildTimesOut
  <2>2. v1' \in Parents /\ v1'.at = "failed"
    BY <2>1, <1>t
  <2>3. v2' \in Children /\ v2'.at = "failed"
    BY <2>1, <1>t
  <2>4. Swarm!BestIsBest'
    BY <2>2, <2>3 DEF Swarm!BestIsBest
  <2>5. SwarmShape'
    BY <2>2, <2>3 DEF SwarmShape
  <2> QED
    BY <2>1, <2>2, <2>3, <2>4, <2>5, <1>t, <1>o, <1>x, SwarmIs
<1>9. CASE Swarm!ChildReturns
  <2>0. v1.at = "child" /\ v2.at = "returned" /\ v4' = v4 /\ v4 = Swarm!NotStarted
    BY <1>9, <1>k DEF Swarm!ChildReturns, SwarmShape
  <2>1. CASE Swarm!Success \/ v1.attempt + 1 >= NumberOfAttempts
    <3>1. v1' = [v1 EXCEPT !.at = IF Swarm!Success THEN "reached" ELSE "unable"] /\ v2' = v2 /\ v3' = v3 /\ v5' = v5
      BY <1>9, <2>1 DEF Swarm!ChildReturns
    <3>2. v1' \in Parents /\ v1'.at = IF Swarm!Success THEN "reached" ELSE "unable"
      BY <3>1, <1>t
    <3>3. Swarm!Success' <=> Swarm!Success
      BY <3>1 DEF Swarm!Success, Swarm!Goal
    <3>4. v3.gbest = v5 /\ (v3.gbest < Swarm!Goal \/ v2.moved = SwarmSteps)
      BY <2>0, <1>k DEF Swarm!BestIsBest
    <3>5. Swarm!BestIsBest'
      BY <2>0, <3>1, <3>2, <3>3, <3>4 DEF Swarm!BestIsBest, Swarm!Goal
    <3>6. SwarmShape'
      BY <2>0, <3>1, <3>2, <1>y DEF SwarmShape
    <3> QED
      BY <2>0, <3>1, <3>2, <3>5, <3>6, <1>t, <1>o, <1>x, SwarmIs
  <2>2. CASE ~(Swarm!Success \/ v1.attempt + 1 >= NumberOfAttempts)
    <3>1. /\ v1' = [at |-> "init", attempt |-> v1.attempt + 1] /\ v2' = [v2 EXCEPT !.at = "none"]
          /\ v3' = [gbest |-> 3, pbest |-> [p \in Particles |-> 3]] /\ v5' = 3
      BY <1>9, <2>2, <1>n DEF Swarm!ChildReturns, Swarm!NoSwarm
    <3>2. v1' \in Parents /\ v1'.at = "init"
      BY <3>1, <1>t
    <3>3. v2' \in Children /\ v2'.at = "none"
      BY <3>1, <1>t
    <3>4. v3' \in Swarms /\ v5' \in 0..3 /\ Swarm!BestKept'
      BY <3>1 DEF Swarm!BestKept
    <3>5. Swarm!BestIsBest'
      BY <3>2, <3>3 DEF Swarm!BestIsBest
    <3>6. SwarmShape'
      BY <3>2, <3>3 DEF SwarmShape
    <3> QED
      BY <2>0, <3>2, <3>3, <3>4, <3>5, <3>6, <1>t, <1>o, SwarmIs
  <2> QED
    BY <2>1, <2>2
<1>10. CASE UNCHANGED Swarm!vars
  <2>1. v1' = v1 /\ v2' = v2 /\ v3' = v3 /\ v4' = v4 /\ v5' = v5
    BY <1>10 DEF Swarm!vars
  <2>2. Swarm!BestIsBest'
    BY <2>1, <1>k, <1>y DEF Swarm!BestIsBest, Swarm!Success, Swarm!Goal
  <2>3. SwarmShape'
    BY <2>1, <1>k, <1>y DEF SwarmShape
  <2> QED
    BY <2>1, <2>2, <2>3, <1>t, <1>o, <1>x, SwarmIs
<1> QED
  BY <1>1, <1>2, <1>3, <1>4, <1>5, <1>6, <1>7, <1>8, <1>9, <1>10 DEF Swarm!Next, Swarm!Progress

--------------------------------------------------------------------------------
(* Partitions: v1 is input, v2 main, v3 child. *)

Children == [offset : Nat, max : Nat, window : Nat, state : {"running", "ok", "failed", "terminated"}]
Mainlines == [at : {"start", "divide", "collect", "returned", "failed", "panicking"},
              offset : Nat, given : Nat, next : Nat, result : Nat]

LEMMA SplitInit == Split!Init => Split!IInv
<1> SUFFICES ASSUME Split!Init PROVE Split!IInv
  OBVIOUS
<1>1. MaxRecords \in Nat /\ MaxWindow \in Nat /\ MaxPartitions \in Nat
  <2>1. Split!Sizes
    BY SamplesAssumption
  <2> QED
    BY <2>1 DEF Split!Sizes
<1>2. v1 \in [records : Nat, window : Nat, partitions : Nat]
  BY <1>1 DEF Split!Init
<1>3. v2 = [at |-> "start", offset |-> 0, given |-> 0, next |-> 1, result |-> 0] /\ v3 = <<>>
  BY DEF Split!Init
<1>4. Split!TypeOK
  BY <1>2, <1>3 DEF Split!TypeOK
<1>5. Split!Contiguous
  BY <1>3 DEF Split!Contiguous
<1> QED
  BY <1>3, <1>4, <1>5 DEF Split!IInv

(* A partition gets what is left for it and the later ones, less what is left after it;   *)
(* after the last one nothing is left.                                                    *)
LEMMA SplitLeft ==
  ASSUME NEW n \in Nat, Split!TypeOK, v1.partitions > 0, NEW k \in Nat, k < v1.partitions
  PROVE  LET part == Split!divideIntoPartitions(n, v1.partitions)[k + 1] IN
         /\ part \in Nat
         /\ Split!Left(n, k) = part + Split!Left(n, k + 1)
         /\ Split!Left(n, k + 1) \in Nat
         /\ k + 1 = v1.partitions => Split!Left(n, k + 1) = 0
<1> DEFINE p == v1.partitions
           q == n \div p
           m == n % p
<1>1. p \in Nat \ {0} /\ k < p
  BY DEF Split!TypeOK
<1>2. q \in Nat /\ m \in 0..(p - 1)
  BY <1>1
<1>3. k + 1 \in 1..p
  BY <1>1
<1>4. Split!divideIntoPartitions(n, p)[k + 1] = q + (IF k + 1 <= m THEN 1 ELSE 0)
  BY <1>3 DEF Split!divideIntoPartitions
<1>5. /\ Split!Left(n, k) = (p - k) * q + (IF k < m THEN m - k ELSE 0)
      /\ Split!Left(n, k + 1) = (p - (k + 1)) * q + (IF k + 1 < m THEN m - (k + 1) ELSE 0)
  BY DEF Split!Left
<1> HIDE DEF p, q, m
<1>6. (p - k) * q = (p - (k + 1)) * q + q /\ (p - (k + 1)) * q \in Nat
  <2>1. PICK d \in Nat : d = p - (k + 1)
    BY <1>1
  <2>2. p - k = d + 1
    BY <2>1, <1>1
  <2>3. (d + 1) * q = d * q + q /\ d * q \in Nat
    BY <1>2, <2>1
  <2> QED
    BY <2>1, <2>2, <2>3
<1>7. k + 1 = p => (p - (k + 1)) * q = 0
  <2>1. k + 1 = p => p - (k + 1) = 0
    BY <1>1
  <2> QED
    BY <2>1, <1>2
<1> DEFINE rest == (p - (k + 1)) * q
           part == Split!divideIntoPartitions(n, p)[k + 1]
<1>8. rest \in Nat /\ (p - k) * q = rest + q /\ (k + 1 = p => rest = 0)
  BY <1>6, <1>7
<1>9. /\ Split!Left(n, k) = (rest + q) + (IF k < m THEN m - k ELSE 0)
      /\ Split!Left(n, k + 1) = rest + (IF k + 1 < m THEN m - (k + 1) ELSE 0)
  BY <1>5, <1>8
<1>10. part = q + (IF k + 1 <= m THEN 1 ELSE 0)
  BY <1>4
<1> HIDE DEF rest, part
<1>11. /\ part \in Nat /\ Split!Left(n, k) = part + Split!Left(n, k + 1) /\ Split!Left(n, k + 1) \in Nat
       /\ k + 1 = p => Split!Left(n, k + 1) = 0
  BY <1>1, <1>2, <1>8, <1>9, <1>10
<1> QED
  BY <1>11 DEF part, p

(* Before a child is started there is all of the number. *)
LEMMA SplitWhole ==
  ASSUME NEW n \in Nat, Split!TypeOK, v1.partitions > 0
  PROVE  Split!Left(n, 0) = n
<1> DEFINE p == v1.partitions
<1>1. p \in Nat \ {0} /\ p \in Int /\ p > 0 /\ n \in Int
  BY DEF Split!TypeOK
<1>2. n \div p \in Nat /\ n % p \in Nat
  BY <1>1
<1>3. n = p * (n \div p) + (n % p)
  BY <1>1, DivMod
<1>4. Split!Left(n, 0) = (p - 0) * (n \div p) + (IF 0 < n % p THEN (n % p) - 0 ELSE 0)
  BY DEF Split!Left
<1>5. p - 0 = p
  BY <1>1
<1> HIDE DEF p
<1> QED
  BY <1>1, <1>2, <1>3, <1>4, <1>5

(* Whatever becomes of the children, their ranges stay. *)
LEMMA SplitRanges ==
  ASSUME Split!Contiguous, v3 \in Seq(Children), v3' \in Seq(Children), Len(v3') = Len(v3), v2'.offset = v2.offset,
         \A i \in 1..Len(v3) : v3'[i].offset = v3[i].offset /\ v3'[i].max = v3[i].max
  PROVE  Split!Contiguous'
<1> DEFINE n == Len(v3)
<1>1. n \in Nat /\ DOMAIN v3 = 1..n /\ DOMAIN v3' = 1..n
  OBVIOUS
<1>2. v3' /= <<>> => v3 /= <<>> /\ 1 \in 1..n
  BY <1>1
<1>3. /\ v3 /= <<>> => v3[1].offset = 0
      /\ \A i \in 1..n : /\ v3[i].offset <= v3[i].max
                         /\ v3[i].max = IF i = n THEN v2.offset ELSE v3[i + 1].offset
      /\ \A i, j \in 1..n : i < j => v3[i].max <= v3[j].offset
      /\ \A r \in 0..(v2.offset - 1) : \E i \in 1..n : v3[i].offset <= r /\ r < v3[i].max
  BY <1>1 DEF Split!Contiguous, Split!InRange
<1>4. \A i \in 1..n : i = n \/ i + 1 \in 1..n
  BY <1>1
<1>5. /\ v3' /= <<>> => v3'[1].offset = 0
      /\ \A i \in 1..n : /\ v3'[i].offset <= v3'[i].max
                         /\ v3'[i].max = IF i = n THEN v2'.offset ELSE v3'[i + 1].offset
      /\ \A i, j \in 1..n : i < j => v3'[i].max <= v3'[j].offset
      /\ \A r \in 0..(v2'.offset - 1) : \E i \in 1..n : v3'[i].offset <= r /\ r < v3'[i].max
  BY <1>2, <1>3, <1>4
<1> QED
  BY <1>1, <1>5 DEF Split!Contiguous, Split!InRange

LEMMA SplitStep == ASSUME Split!IInv, [Split!Next]_Split!vars PROVE Split!IInv'
<1> DEFINE n == Len(v3)
<1>t. v1 \in [records : Nat, window : Nat, partitions : Nat] /\ v2 \in Mainlines /\ v3 \in Seq(Children)
  BY DEF Split!IInv, Split!TypeOK, Mainlines, Children
<1>o. v1' = v1 /\ v2' \in Mainlines /\ v3' \in Seq(Children) => Split!TypeOK'
  BY <1>t DEF Split!TypeOK, Mainlines, Children
<1>k. /\ Split!TypeOK /\ Split!Contiguous
      /\ v2.at \in {"start", "panicking"} => v3 = <<>>
      /\ v2.at = "start" => v2.offset = 0 /\ v2.given = 0 /\ v2.next = 1 /\ v2.result = 0
      /\ v2.at = "divide" => /\ v1.partitions > 0 /\ Len(v3) < v1.partitions
                             /\ v2.next = 1 /\ v2.result = 0
                             /\ v1.records - v2.offset = Split!Left(v1.records, Len(v3))
                             /\ v1.window - v2.given = Split!Left(v1.window, Len(v3))
      /\ v2.at \notin {"start", "divide", "panicking"} /\ v3 /= <<>> =>
           v2.offset = v1.records /\ v2.given = v1.window
      /\ v2.at = "collect" => v2.next \in DOMAIN v3 /\ v2.result = v3[v2.next].offset
      /\ v2.at = "returned" => v3 /= <<>> /\ v2.result = v1.records
  BY DEF Split!IInv
<1>s. n \in Nat /\ DOMAIN v3 = 1..n
  BY <1>t
<1>l. ASSUME v1' = v1
      PROVE  /\ Split!Left(v1.records, Len(v3))' = Split!Left(v1.records, Len(v3'))
             /\ Split!Left(v1.window, Len(v3))' = Split!Left(v1.window, Len(v3'))
  BY <1>l DEF Split!Left
<1>1. CASE Split!Divide
  <2> DEFINE at == IF Split!InvalidInput THEN "failed" ELSE IF v1.partitions = 0 THEN "panicking" ELSE "divide"
  <2>1. v2.at = "start" /\ v2' = [v2 EXCEPT !.at = at] /\ v1' = v1 /\ v3' = v3 /\ v3 = <<>>
    BY <1>1, <1>k DEF Split!Divide
  <2>2. at \in {"failed", "panicking", "divide"} /\ (at = "divide" => v1.partitions /= 0)
    OBVIOUS
  <2> HIDE DEF at
  <2>3. v2' \in Mainlines /\ v2'.at = at /\ v2'.offset = v2.offset /\ v2'.given = v2.given /\ v2'.next = v2.next /\ v2'.result = v2.result
    BY <2>1, <2>2, <1>t DEF Mainlines
  <2>4. v2.offset = 0 /\ v2.given = 0 /\ v2.next = 1 /\ v2.result = 0
    BY <2>1, <1>k
  <2>5. Split!TypeOK'
    BY <2>1, <2>3, <1>t, <1>o
  <2>6. Split!Contiguous'
    BY <2>1, <2>3, <1>k DEF Split!Contiguous, Split!InRange
  <2>7. v2'.at = "divide" => /\ v1.partitions > 0 /\ Len(v3) < v1.partitions
                             /\ v1.records - v2'.offset = Split!Left(v1.records, Len(v3))
                             /\ v1.window - v2'.given = Split!Left(v1.window, Len(v3))
    <3>1. SUFFICES ASSUME at = "divide" PROVE /\ v1.partitions > 0 /\ Len(v3) < v1.partitions
                                              /\ v1.records - v2'.offset = Split!Left(v1.records, Len(v3))
                                              /\ v1.window - v2'.given = Split!Left(v1.window, Len(v3))
      BY <2>3
    <3>2. v1.partitions > 0 /\ Len(v3) = 0 /\ v1.records \in Nat /\ v1.window \in Nat
      BY <3>1, <2>1, <2>2, <1>t
    <3>3. Split!Left(v1.records, 0) = v1.records /\ Split!Left(v1.window, 0) = v1.window
      BY <3>2, <1>k, SplitWhole
    <3>4. v1.records - v2'.offset = v1.records /\ v1.window - v2'.given = v1.window
      BY <3>2, <2>3, <2>4
    <3> QED
      BY <3>2, <3>3, <3>4
  <2> QED
    BY <2>1, <2>2, <2>3, <2>4, <2>5, <2>6, <2>7, <1>l DEF Split!IInv
<1>2. CASE Split!StartChild
  <2> DEFINE i == n + 1
             window == Split!divideIntoPartitions(v1.window, v1.partitions)[i]
             part == Split!divideIntoPartitions(v1.records, v1.partitions)[i]
             end == v2.offset + part
             c == [offset |-> v2.offset, window |-> window, state |-> "running", max |-> end]
  <2>1. /\ v2.at = "divide" /\ v1' = v1
        /\ v3' = Append(v3, [offset |-> v2.offset, window |-> window, state |-> "running",
                             max |-> IF end > v1.records THEN v1.records ELSE end])
        /\ v2' = [v2 EXCEPT !.offset = end, !.given = v2.given + window,
                            !.at = IF i = v1.partitions THEN "collect" ELSE "divide"]
    BY <1>2 DEF Split!StartChild
  <2>2. /\ v1.partitions > 0 /\ n < v1.partitions /\ v2.next = 1 /\ v2.result = 0
        /\ v1.records - v2.offset = Split!Left(v1.records, n) /\ v1.window - v2.given = Split!Left(v1.window, n)
    BY <2>1, <1>k
  <2>3. /\ part \in Nat /\ window \in Nat
        /\ Split!Left(v1.records, n) = part + Split!Left(v1.records, i)
        /\ Split!Left(v1.window, n) = window + Split!Left(v1.window, i)
        /\ Split!Left(v1.records, i) \in Nat /\ Split!Left(v1.window, i) \in Nat
        /\ i = v1.partitions => Split!Left(v1.records, i) = 0 /\ Split!Left(v1.window, i) = 0
    <3>1. v1.records \in Nat /\ v1.window \in Nat /\ v1.partitions > 0 /\ n < v1.partitions
      BY <1>t, <2>2
    <3> QED
      BY <3>1, <1>s, <1>k, SplitLeft
  <2>n. v2.offset \in Nat /\ v2.given \in Nat /\ v1.records \in Nat /\ v1.window \in Nat /\ v1.partitions \in Nat
    BY <1>t DEF Mainlines
  <2> HIDE DEF window, part
  <2>4. /\ v1.records - end = Split!Left(v1.records, i) /\ v1.window - (v2.given + window) = Split!Left(v1.window, i)
        /\ end <= v1.records /\ end \in Nat /\ v2.given + window \in Nat /\ v2.offset <= end
    <3>1. \A a, o, q, l \in Nat : a - o = q + l => a - (o + q) = l /\ o + q <= a /\ o + q \in Nat /\ o <= o + q
      OBVIOUS
    <3>2. v1.records - v2.offset = part + Split!Left(v1.records, i) /\ v1.window - v2.given = window + Split!Left(v1.window, i)
      BY <2>2, <2>3
    <3> DEFINE lr == Split!Left(v1.records, i)
               lw == Split!Left(v1.window, i)
    <3>3. lr \in Nat /\ lw \in Nat /\ part \in Nat /\ window \in Nat
      BY <2>3
    <3>a. v1.records - v2.offset = part + lr /\ v1.window - v2.given = window + lw
      BY <3>2
    <3> HIDE DEF lr, lw
    <3>4. /\ v1.records - (v2.offset + part) = lr /\ v2.offset + part <= v1.records /\ v2.offset + part \in Nat
          /\ v2.offset <= v2.offset + part
      BY ONLY <2>n, <3>1, <3>a, <3>3
    <3>5. v1.window - (v2.given + window) = lw /\ v2.given + window \in Nat
      BY ONLY <2>n, <3>1, <3>a, <3>3
    <3> QED
      BY <3>4, <3>5 DEF lr, lw
  <2>5. v3' = Append(v3, c) /\ c \in Children
    <3>1. ~(end > v1.records)
      BY <2>4, <2>n
    <3>2. v3' = Append(v3, c)
      BY <2>1, <3>1
    <3>3. c \in Children
      BY <2>3, <2>4, <2>n DEF Children
    <3> QED
      BY <3>2, <3>3
  <2> DEFINE at == IF i = v1.partitions THEN "collect" ELSE "divide"
  <2>6. v2' = [at |-> at, offset |-> end, given |-> v2.given + window, next |-> 1, result |-> 0]
    BY <2>1, <2>2, <1>t DEF Mainlines
  <2>7. at \in {"collect", "divide"} /\ (at = "collect" <=> i = v1.partitions)
    OBVIOUS
  <2> HIDE DEF at
  <2>8. v2' \in Mainlines /\ v2'.at = at /\ v2'.offset = end /\ v2'.given = v2.given + window /\ v2'.next = 1 /\ v2'.result = 0
    BY <2>4, <2>6, <2>7 DEF Mainlines
  <2>9. /\ v3' \in Seq(Children) /\ Len(v3') = i /\ DOMAIN v3' = 1..i /\ i \in Nat
        /\ \A j \in 1..n : v3'[j] = v3[j]
        /\ v3'[i] = c
    <3> HIDE DEF c
    <3> QED
      BY <2>5, <1>t
  <2>10. /\ v3'[i].offset = v2.offset /\ v3'[i].max = end
    BY <2>9
  <2>11. Split!TypeOK'
    BY <2>1, <2>8, <2>9, <1>o
  <2>c. /\ v3 /= <<>> => v3[1].offset = 0
        /\ \A j \in 1..n : /\ v3[j].offset <= v3[j].max
                           /\ v3[j].max = IF j = n THEN v2.offset ELSE v3[j + 1].offset
        /\ \A j, k \in 1..n : j < k => v3[j].max <= v3[k].offset
        /\ \A r \in 0..(v2.offset - 1) : \E j \in 1..n : v3[j].offset <= r /\ r < v3[j].max
    BY <1>k, <1>s DEF Split!Contiguous, Split!InRange
  <2> HIDE DEF c, end
  <2>12. v3'[1].offset = 0
    <3>1. CASE n = 0
      <4>1. v3 = <<>> /\ i = 1
        BY <3>1, <1>t
      <4>2. v2.offset = 0
        BY <4>1, <2>1, <2>2, <3>1, SplitWhole, <1>k, <2>n
      <4> QED
        BY <4>1, <4>2, <2>10
    <3>2. CASE n > 0
      <4>1. v3 /= <<>> /\ 1 \in 1..n
        BY <3>2, <1>s
      <4> QED
        BY <4>1, <2>c, <2>9
    <3> QED
      BY <3>1, <3>2, <1>s
  (* A child ends where the next begins, the last one at the offset. *)
  <2>13. ASSUME NEW j \in 1..i
         PROVE  /\ v3'[j].offset <= v3'[j].max
                /\ v3'[j].max = IF j = i THEN end ELSE v3'[j + 1].offset
    <3>1. CASE j = i
      BY <3>1, <2>10, <2>4
    <3>2. CASE j = n /\ j /= i
      BY <3>2, <2>10, <2>9, <2>c, <1>s
    <3>3. CASE j /= n /\ j /= i
      <4>1. j \in 1..n /\ j + 1 \in 1..n
        <5> HIDE DEF n
        <5> QED
          BY <3>3, <1>s
      <4> QED
        BY <3>3, <4>1, <2>9, <2>c
    <3> QED
      BY <3>1, <3>2, <3>3
  <2>14. ASSUME NEW j \in 1..n PROVE v3[j].max <= v2.offset
    <3>1. CASE j = n
      BY <3>1, <2>c, <2>n
    <3>2. CASE j /= n
      <4>1. n \in 1..n /\ j < n
        <5> HIDE DEF n
        <5> QED
          BY <3>2, <1>s
      <4>2. v3[j].max <= v3[n].offset /\ v3[n].offset <= v3[n].max /\ v3[n].max = v2.offset
        BY <4>1, <2>c
      <4>3. v3[n] \in Children /\ v3[j] \in Children
        BY <4>1, <1>t
      <4> QED
        BY <4>2, <4>3, <2>n DEF Children
    <3> QED
      BY <3>1, <3>2
  <2>15. ASSUME NEW j \in 1..i, NEW k \in 1..i, j < k PROVE v3'[j].max <= v3'[k].offset
    <3>1. j \in 1..n
      BY <2>15, <1>s
    <3>2. CASE k = i
      BY <3>1, <3>2, <2>14, <2>9, <2>10
    <3>3. CASE k /= i
      <4>1. k \in 1..n
        BY <3>3, <1>s
      <4> QED
        BY <3>1, <4>1, <2>15, <2>9, <2>c
    <3> QED
      BY <3>2, <3>3
  <2>16. ASSUME NEW r \in 0..(end - 1) PROVE \E j \in 1..i : v3'[j].offset <= r /\ r < v3'[j].max
    <3>1. CASE r < v2.offset
      <4>1. r \in 0..(v2.offset - 1)
        BY <3>1, <2>n, <2>4
      <4>2. PICK j \in 1..n : v3[j].offset <= r /\ r < v3[j].max
        BY <4>1, <2>c
      <4>3. j \in 1..i
        BY <1>s
      <4> QED
        BY <4>2, <4>3, <2>9
    <3>2. CASE ~(r < v2.offset)
      <4>1. i \in 1..i /\ v2.offset <= r /\ r < end
        BY <3>2, <1>s, <2>n, <2>4
      <4> QED
        BY <4>1, <2>10
    <3> QED
      BY <3>1, <3>2
  <2>17. Split!Contiguous'
    BY <2>8, <2>9, <2>12, <2>13, <2>15, <2>16 DEF Split!Contiguous, Split!InRange
  <2>18. CASE at = "collect"
    <3>1. v1.records - end = 0 /\ v1.window - (v2.given + window) = 0
      BY <2>18, <2>3, <2>4, <2>7
    <3>2. end = v1.records /\ v2.given + window = v1.window
      <4>1. \A a, b \in Nat : a - b = 0 => b = a
        OBVIOUS
      <4>2. end \in Nat /\ v2.given + window \in Nat
        BY <2>4
      <4> DEFINE g == v2.given + window
      <4> HIDE DEF g
      <4> QED
        BY <3>1, <4>1, <4>2, <2>n DEF g
    <3>3. 1 \in DOMAIN v3' /\ v3'[1].offset = 0
      BY <2>9, <2>12, <1>s
    <3> QED
      BY <3>2, <3>3, <2>1, <2>8, <2>11, <2>17, <2>18 DEF Split!IInv
  <2>19. CASE at = "divide"
    <3>1. i < v1.partitions
      BY <2>19, <2>7, <2>2, <2>n, <1>s
    <3>3. /\ v1'.partitions > 0 /\ Len(v3') < v1'.partitions /\ v2'.next = 1 /\ v2'.result = 0
          /\ v1'.records - v2'.offset = Split!Left(v1.records, Len(v3))'
          /\ v1'.window - v2'.given = Split!Left(v1.window, Len(v3))'
      BY <3>1, <2>1, <2>2, <2>4, <2>8, <2>9, <1>l
    <3> QED
      BY <3>3, <2>8, <2>11, <2>17, <2>19 DEF Split!IInv
  <2> QED
    BY <2>7, <2>18, <2>19
<1>3. ASSUME NEW j \in DOMAIN v3, NEW ok \in BOOLEAN, Split!ChildEnds(j, ok) PROVE Split!IInv'
  <2>1. v2.at = "collect" /\ v3' = [v3 EXCEPT ![j].state = IF ok THEN "ok" ELSE "failed"] /\ v1' = v1 /\ v2' = v2
    BY <1>3 DEF Split!ChildEnds
  <2> DEFINE st == IF ok THEN "ok" ELSE "failed"
             d == [v3[j] EXCEPT !.state = st]
  <2>2. v3[j] \in Children /\ j \in 1..n
    BY <1>t, <1>s
  <2>3. d \in Children /\ d.offset = v3[j].offset /\ d.max = v3[j].max
    BY <2>2 DEF Children
  <2>4. v3' = [v3 EXCEPT ![j] = d]
    BY <2>1
  <2> HIDE DEF d
  <2>5. v3' \in Seq(Children) /\ Len(v3') = n /\ DOMAIN v3' = 1..n /\ \A k \in 1..n : v3'[k] = IF k = j THEN d ELSE v3[k]
    BY <2>2, <2>3, <2>4, <1>t
  <2>6. \A k \in 1..n : v3'[k].offset = v3[k].offset /\ v3'[k].max = v3[k].max
    BY <2>5, <2>3
  <2>7. Split!Contiguous'
    BY <2>1, <2>5, <2>6, <1>t, <1>k, SplitRanges
  <2>8. Split!TypeOK'
    BY <2>1, <2>5, <1>t, <1>o
  <2>9. v2.next \in 1..n /\ v3 /= <<>> /\ v3'[v2.next].offset = v2.result
    BY <2>1, <2>2, <2>6, <1>k, <1>s
  <2> QED
    BY <2>1, <2>5, <2>7, <2>8, <2>9, <1>k DEF Split!IInv
<1>4. CASE Split!TakeCount
  <2> DEFINE c == v3[v2.next]
  <2>1. v2.at = "collect" /\ v1' = v1
    BY <1>4 DEF Split!TakeCount
  <2>2. v2.next \in 1..n /\ v2.result = c.offset /\ c \in Children /\ v3 /= <<>> /\ v2.offset = v1.records /\ v2.given = v1.window
    <3>1. v2.next \in 1..n /\ v2.result = c.offset
      BY <2>1, <1>k, <1>s
    <3>2. c \in Children /\ v3 /= <<>>
      BY <3>1, <1>t, <1>s
    <3> QED
      BY <3>1, <3>2, <2>1, <1>k
  <2>3. CASE c.state = "failed"
    <3>1. v2' = [v2 EXCEPT !.at = "failed"] /\ v3' = [i \in DOMAIN v3 |-> Split!Terminated(v3[i])]
      BY <1>4, <2>3 DEF Split!TakeCount
    <3>2. ASSUME NEW i \in 1..n
          PROVE  /\ Split!Terminated(v3[i]) \in Children
                 /\ Split!Terminated(v3[i]).offset = v3[i].offset /\ Split!Terminated(v3[i]).max = v3[i].max
      <4>1. v3[i] \in Children
        BY <1>t
      <4> QED
        BY <4>1 DEF Split!Terminated, Children
    <3>3. v3' \in Seq(Children) /\ Len(v3') = n /\ DOMAIN v3' = 1..n /\ \A i \in 1..n : v3'[i] = Split!Terminated(v3[i])
      BY <3>1, <3>2, <1>s
    <3>4. v2' \in Mainlines /\ v2'.at = "failed" /\ v2'.offset = v2.offset /\ v2'.given = v2.given
      BY <3>1, <1>t DEF Mainlines
    <3>5. Split!Contiguous'
      BY <3>2, <3>3, <3>4, <1>t, <1>k, SplitRanges
    <3>6. Split!TypeOK'
      BY <2>1, <3>3, <3>4, <1>o
    <3> QED
      BY <2>1, <2>2, <3>4, <3>5, <3>6 DEF Split!IInv
  <2>4. CASE c.state /= "failed"
    <3> DEFINE at == IF v2.next = n THEN "returned" ELSE "collect"
    <3>1. v3' = v3 /\ v2' = [v2 EXCEPT !.at = at, !.next = v2.next + 1, !.result = v2.result + c.max - c.offset]
      BY <1>4, <2>4 DEF Split!TakeCount
    <3>2. c.offset \in Nat /\ c.max \in Nat /\ v2.result + c.max - c.offset = c.max
      BY <2>2 DEF Children
    <3>3. v2' = [at |-> at, offset |-> v2.offset, given |-> v2.given, next |-> v2.next + 1, result |-> c.max]
      BY <3>1, <3>2, <1>t DEF Mainlines
    <3>a. at \in {"returned", "collect"} /\ (at = "returned" <=> v2.next = n)
      OBVIOUS
    <3>c. c.max = IF v2.next = n THEN v2.offset ELSE v3[v2.next + 1].offset
      BY <2>2, <1>k, <1>s DEF Split!Contiguous
    <3> HIDE DEF at, c
    <3>n. v2.next + 1 \in Nat /\ v2.offset \in Nat /\ v2.given \in Nat
      BY <1>t DEF Mainlines
    <3>4. v2' \in Mainlines /\ v2'.at = at /\ v2'.offset = v2.offset /\ v2'.given = v2.given /\ v2'.next = v2.next + 1 /\ v2'.result = c.max
      BY ONLY <3>2, <3>3, <3>a, <3>n DEF Mainlines
    <3>5. Split!Contiguous'
      BY <3>1, <3>4, <1>t, <1>k, SplitRanges
    <3>6. Split!TypeOK'
      BY <2>1, <3>1, <3>4, <1>t, <1>o
    <3>7. at = "returned" => c.max = v1.records
      BY <3>a, <3>c, <2>2
    <3>8. at = "collect" => v2.next + 1 \in 1..n /\ c.max = v3[v2.next + 1].offset
      BY <3>a, <3>c, <2>2, <1>s
    <3> QED
      BY <2>1, <2>2, <3>1, <3>4, <3>5, <3>6, <3>7, <3>8, <3>a, <1>s DEF Split!IInv
  <2> QED
    BY <2>3, <2>4
<1>5. CASE UNCHANGED Split!vars
  <2>1. v1' = v1 /\ v2' = v2 /\ v3' = v3
    BY <1>5 DEF Split!vars
  <2>2. Split!Contiguous'
    BY <2>1, <1>k, <1>t, SplitRanges
  <2>3. Split!TypeOK'
    BY <2>1, <1>t, <1>o
  <2> QED
    BY <2>1, <2>2, <2>3, <1>k, <1>l DEF Split!IInv
<1> QED
  BY <1>1, <1>2, <1>3, <1>4, <1>5 DEF Split!Next, Split!Progress

LEMMA SplitSafe == Split!IInv => Split!EveryRecordOnce
<1> SUFFICES ASSUME Split!IInv PROVE Split!EveryRecordOnce
  OBVIOUS
<1> DEFINE n == Len(v3)
<1>1. v3 \in Seq(Children) /\ v2.offset \in Nat /\ v1.records \in Nat
  BY DEF Split!IInv, Split!TypeOK, Children
<1>2. n \in Nat /\ DOMAIN v3 = 1..n
  BY <1>1
<1>3. /\ \A i \in 1..n : /\ v3[i].offset <= v3[i].max
                         /\ v3[i].max = IF i = n THEN v2.offset ELSE v3[i + 1].offset
      /\ \A i, j \in 1..n : i < j => v3[i].max <= v3[j].offset
      /\ \A r \in 0..(v2.offset - 1) : \E i \in 1..n : v3[i].offset <= r /\ r < v3[i].max
  BY <1>2 DEF Split!IInv, Split!Contiguous, Split!InRange
<1>4. ASSUME NEW i \in 1..n PROVE v3[i].offset \in Nat /\ v3[i].max \in Nat
  <2>1. v3[i] \in Children
    BY <1>1
  <2> QED
    BY <2>1 DEF Children
<1>5. ASSUME NEW i \in 1..n PROVE v3[i].max <= v2.offset
  <2>1. CASE i = n
    BY <2>1, <1>3, <1>1
  <2>2. CASE i /= n
    <3>1. n \in 1..n /\ i < n
      <4> HIDE DEF n
      <4> QED
        BY <2>2, <1>2
    <3>2. v3[i].max <= v3[n].offset /\ v3[n].offset <= v3[n].max /\ v3[n].max = v2.offset
      BY <3>1, <1>3
    <3> QED
      BY <3>1, <3>2, <1>4, <1>1
  <2> QED
    BY <2>1, <2>2
<1>6. ASSUME NEW i \in 1..n, NEW j \in 1..n, NEW r \in Nat,
             v3[i].offset <= r, r < v3[i].max, v3[j].offset <= r, r < v3[j].max
      PROVE  i = j
  <2>1. ~(i < j)
    <3>1. i < j => v3[i].max <= v3[j].offset
      BY <1>3
    <3> QED
      BY <3>1, <1>4, <1>6
  <2>2. ~(j < i)
    <3>1. j < i => v3[j].max <= v3[i].offset
      BY <1>3
    <3> QED
      BY <3>1, <1>4, <1>6
  <2>3. i \in Int /\ j \in Int
    OBVIOUS
  <2> QED
    BY <2>1, <2>2, <2>3
<1>7. v3 /= <<>> /\ v2.at /= "divide" => v2.offset = v1.records /\ v2.given = v1.window
  BY DEF Split!IInv
<1>8. v2.at = "returned" => v2.result = v1.records
  BY DEF Split!IInv
<1>9. \A i, j \in 1..n, r \in 0..(v1.records - 1) : Split!InRange(i, r) /\ Split!InRange(j, r) => i = j
  <2>1. \A r \in 0..(v1.records - 1) : r \in Nat
    BY <1>1
  <2> QED
    BY <2>1, <1>6 DEF Split!InRange
<1>10. v2.offset = v1.records => /\ \A r \in 0..(v1.records - 1) : \E i \in 1..n : Split!InRange(i, r)
                                 /\ \A i \in 1..n : v3[i].offset <= v3[i].max /\ v3[i].max <= v1.records
  BY <1>3, <1>5 DEF Split!InRange
<1> QED
  BY <1>2, <1>7, <1>8, <1>9, <1>10 DEF Split!EveryRecordOnce

--------------------------------------------------------------------------------
(* The inductive invariant: that of the sample which the behaviour is of. *)
SamplesInv ==
  /\ which = "cart" => Cart!IInv
  /\ which = "proxy" => Proxy!IInv
  /\ which = "chat" => Chat!IInv
  /\ which = "messages" => Greeting!IInv
  /\ which = "deployments" => Version!IInv
  /\ which = "listings" => Listing!IInv
  /\ which = "payloads" => Payload!IInv
  /\ which = "flows" => Flow!IInv
  /\ which = "schedule" => Schedule!IInv
  /\ which = "timer" => Timer!IInv
  /\ which = "signals" => Await!IInv
  /\ which = "runs" => Chain!IInv
  /\ which = "cache" => Lru!IInv
  /\ which = "tokens" => Token!IInv
  /\ which = "streams" => Stream!IInv
  /\ which = "early" => Early!IInv
  /\ which = "guard" => Guard!IInv
  /\ which = "files" => Files!IInv
  /\ which = "batch" => Retried!IInv
  /\ which = "polling" => Poll!IInv
  /\ which = "swarm" => Swarm!IInv
  /\ which = "partitions" => Split!IInv

(* Whatever sample runs, its inductive invariant holds in every state. *)
THEOREM Invariance == Spec => []SamplesInv
<1>1. Init => SamplesInv
  BY CartInit, ProxyInit, ChatInit, GreetingInit, VersionInit, ListingInit, PayloadInit,
     FlowInit, ScheduleInit, TimerInit, AwaitInit, ChainInit, CacheInit, TokenInit, StreamInit,
     EarlyInit, GuardInit, FilesInit, RetriedInit, PollInit, SwarmInit, SplitInit DEF Init, SamplesInv
<1>2. SamplesInv /\ [Next]_vars => SamplesInv'
  <2> SUFFICES ASSUME SamplesInv, [Next]_vars PROVE SamplesInv'
    OBVIOUS
  <2>1. (which = "cart" => Cart!IInv)'
    BY StepOf, CartStep DEF SamplesInv
  <2>2. (which = "proxy" => Proxy!IInv)'
    BY StepOf, ProxyStep DEF SamplesInv
  <2>3. (which = "chat" => Chat!IInv)'
    BY StepOf, ChatStep DEF SamplesInv
  <2>4. (which = "messages" => Greeting!IInv)'
    BY StepOf, GreetingStep DEF SamplesInv
  <2>5. (which = "deployments" => Version!IInv)'
    BY StepOf, VersionStep DEF SamplesInv
  <2>6. (which = "listings" => Listing!IInv)'
    BY StepOf, ListingStep DEF SamplesInv
  <2>7. (which = "payloads" => Payload!IInv)'
    BY StepOf, PayloadStep DEF SamplesInv
  <2>8. (which = "flows" => Flow!IInv)'
    BY StepOf, FlowStep DEF SamplesInv
  <2>9. (which = "schedule" => Schedule!IInv)'
    BY StepOf, ScheduleStep DEF SamplesInv
  <2>10. (which = "timer" => Timer!IInv)'
    BY StepOf, TimerStep DEF SamplesInv
  <2>11. (which = "signals" => Await!IInv)'
    BY StepOf, AwaitStep DEF SamplesInv
  <2>12. (which = "runs" => Chain!IInv)'
    BY StepOf, ChainStep DEF SamplesInv
  <2>13. (which = "cache" => Lru!IInv)'
    BY StepOf, CacheStep DEF SamplesInv
  <2>14. (which = "tokens" => Token!IInv)'
    BY StepOf, TokenStep DEF SamplesInv
  <2>15. (which = "streams" => Stream!IInv)'
    BY StepOf, StreamStep DEF SamplesInv
  <2>16. (which = "early" => Early!IInv)'
    BY StepOf, EarlyStep DEF SamplesInv
  <2>17. (which = "guard" => Guard!IInv)'
    BY StepOf, GuardStep DEF SamplesInv
  <2>18. (which = "files" => Files!IInv)'
    BY StepOf, FilesStep DEF SamplesInv
  <2>19. (which = "batch" => Retried!IInv)'
    BY StepOf, RetriedStep DEF SamplesInv
  <2>20. (which = "polling" => Poll!IInv)'
    BY StepOf, PollStep DEF SamplesInv
  <2>21. (which = "swarm" => Swarm!IInv)'
    BY StepOf, SwarmStep DEF SamplesInv
  <2>22. (which = "partitions" => Split!IInv)'
    BY StepOf, SplitStep DEF SamplesInv
  <2> QED
    BY <2>1, <2>2, <2>3, <2>4, <2>5, <2>6, <2>7, <2>8, <2>9, <2>10, <2>11, <2>12, <2>13, <2>14,
       <2>15, <2>16, <2>17, <2>18, <2>19, <2>20, <2>21, <2>22 DEF SamplesInv
<1> QED
  BY <1>1, <1>2, PTL DEF Spec

(* The schedule starts the workflow as often as its limit says, the sleep of the        *)
(* updatable timer ends at the time last asked for, a sum is handed on along a chain of  *)
(* runs, an entry in use stays in the cache, no token is sent that has expired, the      *)
(* sixty seconds from the first signal are kept, and the truncated log does not grow.     *)
THEOREM BoundsHold == Spec => []BoundsKept
<1>1. SamplesInv => BoundsKept
  <2> SUFFICES ASSUME SamplesInv PROVE BoundsKept
    OBVIOUS
  <2>1. which = "streams" => Stream!LogBounded
    BY StreamSafe DEF SamplesInv
  <2>2. which = "cache" => Lru!UsedEntriesStay
    BY DEF SamplesInv, Lru!IInv
  <2>3. which = "runs" => Chain!HistoryFits
    BY DEF SamplesInv, Chain!IInv
  <2>4. which = "schedule" => Schedule!ActionsLimited
    BY SamplesAssumption DEF SamplesInv, Schedule!IInv, Schedule!TypeOK, Schedule!Sizes, Schedule!Steps,
                             Schedule!ActionsLimited
  <2>5. which = "signals" => Await!DoneInTime
    BY AwaitSafe DEF SamplesInv
  <2>6. which = "timer" => Timer!WokenOnTime
    BY DEF SamplesInv, Timer!IInv, Timer!TypeOK, Timer!WokenOnTime
  <2>7. which = "tokens" => Token!HeaderValid
    BY TokenSafe DEF SamplesInv
  <2> QED
    BY <2>1, <2>2, <2>3, <2>4, <2>5, <2>6, <2>7 DEF BoundsKept
<1> QED
  BY <1>1, Invariance, PTL

(* The cart, the order, the chat and the language of a user are what its clients were    *)
(* told, across runs that continue as new and handlers that interleave.                  *)
THEOREM SessionsHold == Spec => []SessionsKept
<1>1. SamplesInv => SessionsKept
  <2> SUFFICES ASSUME SamplesInv PROVE SessionsKept
    OBVIOUS
  <2>1. which = "cart" => Cart!CartKept
    BY DEF SamplesInv, Cart!IInv
  <2>2. which = "proxy" => Proxy!OrderInStep
    BY ProxySafe DEF SamplesInv
  <2>3. which = "chat" => Chat!TurnsWhole /\ Chat!NoMessageDropped
    BY ChatSafe DEF SamplesInv
  <2>4. which = "messages" => Greeting!SwapsChained /\ Greeting!AcceptedAnswered
    BY GreetingSafe DEF SamplesInv
  <2> QED
    BY <2>1, <2>2, <2>3, <2>4 DEF SessionsKept
<1> QED
  BY <1>1, Invariance, PTL

(* No child runs that the guard does not list, no task of a run is done by code that    *)
(* does not fit its history, and no resource is deleted without a decision of its own.   *)
THEOREM DecisionsHold == Spec => DecisionsObeyed
<1>1. SamplesInv => (which = "guard" => Guard!OnlyAllowedChildren)
  BY GuardSafe DEF SamplesInv
<1>2. SamplesInv => (which = "deployments" => Version!UpgradesReplay)
  BY VersionSafe DEF SamplesInv
<1>3. [Next]_vars => (which = "approval" => Approval!DeletionConfirmed)
  BY StepOf, ApprovalStep
<1> QED
  BY <1>1, <1>2, <1>3, Invariance, PTL DEF Spec, DecisionsObeyed

(* Who reads a stream, a list of pages or a payload through its codecs gets all of it,   *)
(* in order and as it was written, whatever reconnections, truncations, empty pages and  *)
(* hops there were.                                                                      *)
THEOREM ReadsHold == Spec => []ReadsComplete
<1>1. SamplesInv => ReadsComplete
  <2> SUFFICES ASSUME SamplesInv PROVE ReadsComplete
    OBVIOUS
  <2>1. which = "streams" => Stream!SeenOnce /\ Stream!AnswerWhole
    BY StreamSafe DEF SamplesInv
  <2>2. which = "listings" => Listing!ListComplete
    BY DEF SamplesInv, Listing!IInv
  <2>3. which = "payloads" => Payload!PayloadsArrive
    BY PayloadSafe DEF SamplesInv
  <2> QED
    BY <2>1, <2>2, <2>3 DEF ReadsComplete
<1> QED
  BY <1>1, Invariance, PTL

(* What a workflow returns was done: by the branch, the attempt and the host that count, *)
(* with no task of a batch skipped, with an answer the service has given, with the best   *)
(* place any particle has seen, and for every record of every partition.                  *)
THEOREM ResultsHold == Spec => []ResultsEarned
<1>1. SamplesInv => ResultsEarned
  <2> SUFFICES ASSUME SamplesInv PROVE ResultsEarned
    OBVIOUS
  <2>1. which = "flows" => Flow!ResultEarned
    BY FlowSafe DEF SamplesInv
  <2>2. which = "files" => Files!AllOnOneHost
    BY FilesSafe DEF SamplesInv
  <2>3. which = "batch" => Retried!NoTaskSkipped
    BY RetriedSafe DEF SamplesInv
  <2>4. which = "polling" => Poll!AnswerIsReal
    BY DEF SamplesInv, Poll!IInv
  <2>5. which = "swarm" => Swarm!BestIsBest
    BY DEF SamplesInv, Swarm!IInv
  <2>6. which = "partitions" => Split!EveryRecordOnce
    BY SplitSafe DEF SamplesInv
  <2> QED
    BY <2>1, <2>2, <2>3, <2>4, <2>5, <2>6 DEF ResultsEarned
<1> QED
  BY <1>1, Invariance, PTL

(* A flow that fails half-way has undone what it did and leaves nothing at work, and a   *)
(* client of early-return that was told its transaction is under way finds it so.        *)
THEOREM FailuresHold == Spec => []FailuresUndone
<1>1. SamplesInv => FailuresUndone
  <2> SUFFICES ASSUME SamplesInv PROVE FailuresUndone
    OBVIOUS
  <2>1. which = "flows" => Flow!FailureUndone /\ Flow!NothingLeftAtWork
    BY FlowSafe DEF SamplesInv
  <2>2. which = "early" => Early!ToldTrue
    BY EarlySafe DEF SamplesInv
  <2> QED
    BY <2>1, <2>2 DEF FailuresUndone
<1> QED
  BY <1>1, Invariance, PTL
================================================================================
