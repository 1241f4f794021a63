----------------------------- MODULE BatchWindow -----------------------------
(***************************************************************************)
(* What one sliding window of batch-sliding-window/ promises, with no      *)
(* workflow run, signal or page in it: the records from Offset up to       *)
(* MaximumOffset are started in order, at most SlidingWindowSize of them   *)
(* at a time, each is counted once, and the count is returned when none    *)
(* is left.                                                                *)
(***************************************************************************)
EXTENDS Naturals, FiniteSets

CONSTANTS Offset, MaximumOffset, SlidingWindowSize

VARIABLES next,       \* the next record to start
          inFlight,   \* the records that are started and not counted
          counted,    \* how many are counted
          returned    \* whether the count has been returned

windowVars == <<next, inFlight, counted, returned>>

WindowInit ==
  /\ next = Offset
  /\ inFlight = {}
  /\ counted = 0
  /\ returned = FALSE

StartRecord ==
  /\ next < MaximumOffset
  /\ Cardinality(inFlight) < SlidingWindowSize
  /\ inFlight' = inFlight \cup {next}
  /\ next' = next + 1
  /\ UNCHANGED <<counted, returned>>

CountRecords(records) ==
  /\ records \subseteq inFlight
  /\ inFlight' = inFlight \ records
  /\ counted' = counted + Cardinality(records)
  /\ UNCHANGED <<next, returned>>

ReturnCount ==
  /\ next = MaximumOffset
  /\ inFlight = {}
  /\ returned' = TRUE
  /\ UNCHANGED <<next, inFlight, counted>>

WindowNext ==
  \/ StartRecord
  \/ \E records \in SUBSET inFlight : CountRecords(records)
  \/ ReturnCount

WindowSpec == WindowInit /\ [][WindowNext]_windowVars
==============================================================================
