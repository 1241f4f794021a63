-------------------------------- MODULE Streams --------------------------------
(* workflowstreams: a workflow hosts a log, publishers append to it and subscribers     *)
(* read it by offset. Five scenarios share the log: an order, a pipeline whose          *)
(* subscriber reconnects, a hub for a publisher outside, a ticker that truncates its    *)
(* log, and an activity that streams the answer of a model and may be retried.          *)
(* The workflow stays open for drainDelay after its last event: long enough here for    *)
(* each subscriber to have read what there is.                                          *)
EXTENDS Naturals, Sequences, FiniteSets

CONSTANTS TickCount, KeepLast, TruncateEvery,   \* input of TickerWorkflow
          MaxStreamAttempts                     \* attempts of ChargeCard, of StreamCompletion

VARIABLES scenario,   \* which of the five
          log,        \* all events: [kind, attempt]; offsets count from 0
          base,       \* events below this offset are truncated
          host,       \* what publishes: phase, next event, attempt
          reader      \* per subscriber: phase, next offset, offsets it has seen

vars == <<scenario, log, base, host, reader>>

Larger(a, b) == IF a > b THEN a ELSE b
Readers == IF scenario = "ticker" THEN {"fast", "late"} ELSE {"main"}
AllReaders == {"fast", "late", "main"}
Head0 == Len(log)                       \* GetOffset: the offset of the next event
phase1Events == 2
staleOffset == 1
firstTruncate == ((KeepLast \div TruncateEvery) + 1) * TruncateEvery

(* What each scenario publishes; the last event is the one a subscriber returns on. *)
OrderEvents == <<"received", "charging card", "card charged", "shipped", "charge id", "complete">>
PipelineEvents == <<"validating", "loading data", "transforming", "writing output", "verifying", "complete">>
HubEvents == <<"headline", "headline", "done">>
TickerEvents == [n \in 1..TickCount |-> IF n = TickCount THEN "complete" ELSE "tick"]
CompletionEvents == <<"delta", "delta", "complete">>

Events == CASE scenario = "order" -> OrderEvents
            [] scenario = "pipeline" -> PipelineEvents
            [] scenario = "hub" -> HubEvents
            [] scenario = "ticker" -> TickerEvents
            [] scenario = "llm" -> CompletionEvents
LastEvents == {"complete", "done"}

Init ==
  /\ scenario \in {"order", "pipeline", "hub", "ticker", "llm"}
  /\ log = <<>>
  /\ base = 0
  /\ host = [phase |-> "publish", next |-> 1, attempt |-> 1]
  /\ reader = [r \in AllReaders |-> [phase |-> IF r = "late" THEN "wait" ELSE "read", next |-> 0, seen |-> <<>>]]

Publish ==
  /\ host.phase = "publish"
  /\ log' = Append(log, [kind |-> Events[host.next], attempt |-> host.attempt])
  /\ host' = [host EXCEPT !.next = @ + 1,
                          !.phase = IF scenario = "ticker" THEN "sleep"
                                    ELSE IF host.next = Len(Events) THEN "drain"
                                    ELSE "publish"]
  /\ UNCHANGED <<scenario, base, reader>>

(* An attempt of ChargeCard fails: the next one publishes its two events again. *)
RetryCharge ==
  /\ scenario = "order"
  /\ host.phase = "publish"
  /\ host.next \in {3, 4}
  /\ host.attempt < MaxStreamAttempts
  /\ host' = [host EXCEPT !.next = 2, !.attempt = @ + 1]
  /\ UNCHANGED <<scenario, log, base, reader>>

(* Mutant of Truncates: the remainder is not that of what was published. *)
TruncatesLate(published) == published % TruncateEvery = 1 /\ published > KeepLast

(* The ticker has slept: from time to time it keeps the last KeepLast ticks only. *)
Truncates(published) == published % TruncateEvery = 0 /\ published > KeepLast

TickerWakes ==
  /\ host.phase = "sleep"
  /\ base' = IF Truncates(host.next - 1) THEN host.next - 1 - KeepLast ELSE base
  /\ host' = [host EXCEPT !.phase = IF host.next > TickCount THEN "drain" ELSE "publish"]
  /\ UNCHANGED <<scenario, log, reader>>

(* An attempt of StreamCompletion fails, or its result is lost after all: the next   *)
(* one says that it is a retry and publishes from the start.                         *)
RetryCompletion ==
  /\ scenario = "llm"
  /\ host.phase \in {"publish", "drain"}
  /\ host.attempt < MaxStreamAttempts
  /\ host' = [phase |-> "publish", next |-> 1, attempt |-> host.attempt + 1]
  /\ log' = Append(log, [kind |-> "retry", attempt |-> host.attempt + 1])
  /\ UNCHANGED <<scenario, base, reader>>

Behind(r) == reader[r].phase \in {"read", "apart"} /\ reader[r].next < Head0

WorkflowReturns ==
  /\ host.phase = "drain"
  /\ \A r \in Readers : ~Behind(r)
  /\ host' = [host EXCEPT !.phase = "closed"]
  /\ UNCHANGED <<scenario, log, base, reader>>

(* Subscribe yields the events from the requested offset on, or from the base when   *)
(* that has overtaken it.                                                            *)
Receive(r) ==
  /\ r \in Readers
  /\ reader[r].phase = "read"
  /\ Behind(r)
  /\ LET offset == Larger(reader[r].next, base)
         seen == Append(reader[r].seen, offset)
     IN reader' = [reader EXCEPT ![r] =
          [next |-> offset + 1, seen |-> seen,
           phase |-> IF log[offset + 1].kind \in LastEvents THEN "returned"
                     ELSE IF scenario = "pipeline" /\ Len(seen) = phase1Events THEN "apart"
                     ELSE "read"]]
  /\ UNCHANGED <<scenario, log, base, host>>

(* Another client resumes one past the last event that was consumed. *)
Reconnect(r) ==
  /\ reader[r].phase = "apart"
  /\ reader' = [reader EXCEPT ![r].phase = "read"]
  /\ UNCHANGED <<scenario, log, base, host>>

(* The late subscriber polls the offset until the log must have been truncated. *)
LateSubscribes ==
  /\ "late" \in Readers
  /\ reader["late"].phase = "wait"
  /\ Head0 > firstTruncate
  /\ reader' = [reader EXCEPT !["late"] = [phase |-> "read", next |-> staleOffset, seen |-> @.seen]]
  /\ UNCHANGED <<scenario, log, base, host>>

Progress ==
  \/ Publish \/ TickerWakes \/ WorkflowReturns \/ LateSubscribes
  \/ \E r \in Readers : Receive(r) \/ Reconnect(r)
Next == Progress \/ RetryCharge \/ RetryCompletion

----------------------------------------------------------------------------
(* The log keeps the last KeepLast events, and never more than a truncation period    *)
(* beyond them.                                                                       *)
LogBounded ==
  /\ base <= Larger(Head0, KeepLast) - KeepLast
  /\ scenario = "ticker" => Head0 - base <= KeepLast + TruncateEvery

(* A subscriber misses what was truncated and nothing else, and sees no event twice:   *)
(* across a reconnection too. The late one has missed the offset it asked for.         *)
SeenOnce ==
  \A r \in Readers :
    LET seen == reader[r].seen IN
    /\ \A i \in 2..Len(seen) : seen[i] = seen[i - 1] + 1 \/ (seen[i] > seen[i - 1] /\ seen[i] <= base)
    /\ (r = "late" /\ seen /= <<>>) => seen[1] > staleOffset
    /\ (r = "main" /\ seen /= <<>>) => seen[1] = 0

(* What a subscriber of the completion shows since the last retry when it returns is   *)
(* one whole answer.                                                                   *)
AnswerWhole ==
  (scenario = "llm" /\ reader["main"].phase = "returned") =>
    LET seen == reader["main"].seen
        n == Len(seen)
        kind(i) == log[seen[i] + 1].kind
    IN /\ n >= Len(CompletionEvents)
       /\ \A i \in 1..Len(CompletionEvents) :
            /\ kind(n - Len(CompletionEvents) + i) = CompletionEvents[i]
            /\ log[seen[n - Len(CompletionEvents) + i] + 1].attempt = log[seen[n] + 1].attempt
       /\ n > Len(CompletionEvents) => kind(n - Len(CompletionEvents)) = "retry"

(* The inductive invariant. The first truncation passes the offset that is asked for    *)
(* too late, which the sizes of the sample see to.                                      *)
Sizes ==
  /\ TickCount \in Nat \ {0} /\ KeepLast \in Nat \ {0} /\ TruncateEvery \in Nat \ {0}
  /\ firstTruncate - KeepLast > staleOffset

EventKinds ==
  {"received", "charging card", "card charged", "shipped", "charge id", "complete", "validating", "loading data",
   "transforming", "writing output", "verifying", "headline", "done", "tick", "delta", "retry"}

TypeOK ==
  /\ scenario \in {"order", "pipeline", "hub", "ticker", "llm"}
  /\ log \in Seq([kind : EventKinds, attempt : Nat])
  /\ base \in Nat
  /\ host \in [phase : {"publish", "sleep", "drain", "closed"}, next : Nat \ {0}, attempt : Nat \ {0}]
  /\ reader \in [AllReaders -> [phase : {"wait", "read", "apart", "returned"}, next : Nat, seen : Seq(Nat)]]

(* What a log of so many ticks has lost: all but KeepLast of those up to the last one    *)
(* that was a multiple of TruncateEvery.                                                *)
Lost(ticks) ==
  LET multiple == (ticks \div TruncateEvery) * TruncateEvery
  IN IF multiple > KeepLast THEN multiple - KeepLast ELSE 0

TickerLog ==
  /\ Len(log) = host.next - 1
  /\ host.phase = "sleep" => host.next > 1
  /\ base = Lost(IF host.phase = "sleep" THEN host.next - 2 ELSE host.next - 1)

(* The last events are those of this attempt; a complete answer comes right after its    *)
(* parts and these after a retry or first.                                              *)
CompletionLog ==
  /\ host.next - 1 <= Len(CompletionEvents)
  /\ Len(log) >= (IF host.attempt = 1 THEN host.next - 1 ELSE host.next)
  /\ \A j \in 1..(host.next - 1) :
       log[Len(log) - (host.next - 1) + j] = [kind |-> CompletionEvents[j], attempt |-> host.attempt]
  /\ IF host.attempt = 1 THEN Len(log) = host.next - 1 ELSE log[Len(log) - (host.next - 1)].kind = "retry"
  /\ \A n \in 1..Len(log) : log[n].kind \in {"delta", "complete", "retry"}
  /\ \A n \in 1..Len(log) : log[n].kind = "complete" =>
       /\ n >= 3 /\ log[n - 1].kind = "delta" /\ log[n - 2].kind = "delta"
       /\ log[n - 1].attempt = log[n].attempt /\ log[n - 2].attempt = log[n].attempt
       /\ n > 3 => log[n - 3].kind = "retry"

MainReader ==
  /\ Len(reader["main"].seen) = reader["main"].next /\ reader["main"].next <= Len(log)
  /\ reader["main"].phase = "returned" => reader["main"].next > 0 /\ log[reader["main"].next].kind \in LastEvents
  /\ \A i \in 1..Len(reader["main"].seen) : reader["main"].seen[i] = i - 1

TickReader(r) ==
  LET seen == reader[r].seen IN
  /\ seen /= <<>> => reader[r].next = seen[Len(seen)] + 1
  /\ \A i \in 2..Len(seen) : seen[i] = seen[i - 1] + 1 \/ (seen[i] > seen[i - 1] /\ seen[i] <= base)
  /\ r = "late" => IF reader[r].phase = "wait" THEN seen = <<>>
                    ELSE base > staleOffset /\ (seen /= <<>> => seen[1] > staleOffset)

IInv ==
  /\ TypeOK
  /\ host.phase = "publish" => host.next <= Len(Events)
  /\ host.phase = "sleep" => scenario = "ticker"
  /\ IF scenario = "ticker" THEN TickerLog /\ \A r \in Readers : TickReader(r)
     ELSE base = 0 /\ MainReader
  /\ scenario = "llm" => CompletionLog

(* Every subscriber gets to the event it waits for, the late one too. *)
ReadersReturn == \A r \in Readers : reader[r].phase = "returned"
===============================================================================
