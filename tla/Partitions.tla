------------------------------ MODULE Partitions ------------------------------
(* ProcessBatchWorkflow of batch-sliding-window: the records and the window are divided  *)
(* among child workflows (each a SlidingWindow), which run at once; the counts they      *)
(* return are added up.                                                                  *)
EXTENDS Integers, Sequences

CONSTANTS MaxRecords, MaxWindow, MaxPartitions

VARIABLES input,     \* recordCount, window (SlidingWindowSize), partitions
          main,      \* at, offset, next future to wait for, result; the windows given (history)
          child      \* Seq of [offset, max, window, state]

vars == <<input, main, child>>

Init ==
  /\ input \in [records : 0..MaxRecords, window : 0..MaxWindow, partitions : 0..MaxPartitions]
  /\ main = [at |-> "start", offset |-> 0, given |-> 0, next |-> 1, result |-> 0]
  /\ child = <<>>

(* Mutant of divideIntoPartitions: the remainder is dropped. *)
DivideWithoutRemainder(number, n) == [i \in 1..n |-> number \div n]

divideIntoPartitions(number, n) ==
  [i \in 1..n |-> number \div n + (IF i <= number % n THEN 1 ELSE 0)]

(* Mutant of InvalidInput: a window of any size will do. *)
AnyWindow == FALSE

InvalidInput == input.window < input.partitions

(* The count comes first; a window smaller than the number of partitions is refused,    *)
(* and the division by no partitions panics (the workflow task fails, again and again). *)
Divide ==
  /\ main.at = "start"
  /\ main' = [main EXCEPT !.at = IF InvalidInput THEN "failed"
                                 ELSE IF input.partitions = 0 THEN "panicking" ELSE "divide"]
  /\ UNCHANGED <<input, child>>

(* One turn of the loop; the commands to start the children leave together, after it.   *)
StartChild ==
  LET i == Len(child) + 1
      window == divideIntoPartitions(input.window, input.partitions)[i]
      end == main.offset + divideIntoPartitions(input.records, input.partitions)[i]
  IN /\ main.at = "divide"
     /\ child' = Append(child, [offset |-> main.offset, window |-> window, state |-> "running",
                                max |-> IF end > input.records THEN input.records ELSE end])
     /\ main' = [main EXCEPT !.offset = end, !.given = @ + window,
                             !.at = IF i = input.partitions THEN "collect" ELSE "divide"]
     /\ UNCHANGED input

(* A child with room in its window processes its range; without any it would wait for    *)
(* room for ever, if it had a record to process.                                         *)
ChildEnds(i, ok) ==
  /\ main.at = "collect" /\ child[i].state = "running"
  /\ child[i].window > 0 \/ child[i].offset = child[i].max
  /\ child' = [child EXCEPT ![i].state = IF ok THEN "ok" ELSE "failed"]
  /\ UNCHANGED <<input, main>>

(* The results are taken in the order of the partitions. The first error is the result,  *)
(* and the children still at work are terminated with their parent.                      *)
Terminated(c) == IF c.state = "running" THEN [c EXCEPT !.state = "terminated"] ELSE c

TakeCount ==
  LET c == child[main.next] IN
  /\ main.at = "collect" /\ c.state \in {"ok", "failed"}
  /\ IF c.state = "failed"
     THEN /\ main' = [main EXCEPT !.at = "failed"]
          /\ child' = [i \in DOMAIN child |-> Terminated(child[i])]
     ELSE /\ main' = [main EXCEPT !.at = IF main.next = Len(child) THEN "returned" ELSE "collect",
                                  !.next = @ + 1, !.result = @ + c.max - c.offset]
          /\ UNCHANGED child
  /\ UNCHANGED input

Progress == Divide \/ StartChild \/ TakeCount \/ \E i \in DOMAIN child, ok \in BOOLEAN : ChildEnds(i, ok)
Next == Progress

----------------------------------------------------------------------------
InRange(i, r) == child[i].offset <= r /\ r < child[i].max

(* Every record is in the range of exactly one child, no range goes past the last        *)
(* record, the windows add up to the one asked for, and the count returned is that of    *)
(* all records.                                                                          *)
EveryRecordOnce ==
  /\ child /= <<>> /\ main.at /= "divide" =>
       /\ \A r \in 0..(input.records - 1) : \E i \in DOMAIN child : InRange(i, r)
       /\ \A i, j \in DOMAIN child, r \in 0..(input.records - 1) : InRange(i, r) /\ InRange(j, r) => i = j
       /\ \A i \in DOMAIN child : child[i].offset <= child[i].max /\ child[i].max <= input.records
       /\ main.given = input.window
  /\ main.at = "returned" => main.result = input.records

(* No child is given a window it could never start anything in, so the workflow ends.    *)
BatchEnds == main.at \in {"returned", "failed", "panicking"}

(* The inductive invariant: the ranges given so far follow on one another without a gap,  *)
(* and what is left of a number is what the partitions still without a child will get.    *)
Sizes == MaxRecords \in Nat /\ MaxWindow \in Nat /\ MaxPartitions \in Nat

TypeOK ==
  /\ input \in [records : Nat, window : Nat, partitions : Nat]
  /\ main \in [at : {"start", "divide", "collect", "returned", "failed", "panicking"},
               offset : Nat, given : Nat, next : Nat, result : Nat]
  /\ child \in Seq([offset : Nat, max : Nat, window : Nat, state : {"running", "ok", "failed", "terminated"}])

(* What the partitions after the first k get of this number. *)
Left(number, k) ==
  (input.partitions - k) * (number \div input.partitions)
    + (IF k < number % input.partitions THEN (number % input.partitions) - k ELSE 0)

Contiguous ==
  /\ child /= <<>> => child[1].offset = 0
  /\ \A i \in DOMAIN child : /\ child[i].offset <= child[i].max
                             /\ child[i].max = IF i = Len(child) THEN main.offset ELSE child[i + 1].offset
  /\ \A i, j \in DOMAIN child : i < j => child[i].max <= child[j].offset
  /\ \A r \in 0..(main.offset - 1) : \E i \in DOMAIN child : InRange(i, r)

IInv ==
  /\ TypeOK /\ Contiguous
  /\ main.at \in {"start", "panicking"} => child = <<>>
  /\ main.at = "start" => main.offset = 0 /\ main.given = 0 /\ main.next = 1 /\ main.result = 0
  /\ main.at = "divide" => /\ input.partitions > 0 /\ Len(child) < input.partitions
                           /\ main.next = 1 /\ main.result = 0
                           /\ input.records - main.offset = Left(input.records, Len(child))
                           /\ input.window - main.given = Left(input.window, Len(child))
  /\ main.at \notin {"start", "divide", "panicking"} /\ child /= <<>> =>
       main.offset = input.records /\ main.given = input.window
  /\ main.at = "collect" => /\ main.next \in DOMAIN child
                            /\ main.result = child[main.next].offset
  /\ main.at = "returned" => child /= <<>> /\ main.result = input.records
===============================================================================
