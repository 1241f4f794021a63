---------------------------- MODULE SlidingWindow ----------------------------
(***************************************************************************)
(* SlidingWindowWorkflow and its RecordProcessorWorkflow children, of      *)
(* batch-sliding-window/.  Each run of the workflow loads a page of        *)
(* records, starts one child per record as the window allows, and          *)
(* continues as new; a child reports its completion with a signal to       *)
(* whichever run is then open.  The run that has no page left waits for    *)
(* the last children and returns the count.                                *)
(*                                                                         *)
(* A run stops only where it blocks, so an action is what the workflow     *)
(* does between two blocking calls.  External: the server starts children, *)
(* delivers signals to the open run (twice, if a child is reset), drops    *)
(* the children it has not started when their parent closes, and refuses   *)
(* to close a run over a signal that run has not read.  The GetRecords     *)
(* activity is retried until it succeeds.                                  *)
(***************************************************************************)
EXTENDS Naturals, FiniteSets

CONSTANTS PageSize, SlidingWindowSize,
          Offset, MaximumOffset     \* of the first run: [Offset, MaximumOffset)

ASSUME SizesAssumption == PageSize \in Nat /\ SlidingWindowSize \in Nat
ASSUME OffsetsAssumption ==
  Offset \in Nat /\ MaximumOffset \in Nat /\ Offset <= MaximumOffset

VARIABLES
  pc,               \* where the open run is
  offset,           \* s.offset: where its page begins
  started,          \* len(s.childrenStartedByThisRun)
  currentRecords,   \* s.currentRecords, as a set of IDs
  progress,         \* s.progress
  reported,         \* record IDs in "ReportCompletion" signals the run has not read
  child             \* the state of each record's RecordProcessorWorkflow

runVars == <<pc, offset, started, currentRecords, progress>>
vars == <<pc, offset, started, currentRecords, progress, reported, child>>

Records == Offset .. MaximumOffset - 1

ChildState == {"none", "initiated", "running", "reported", "killed", "dropped", "refused"}

TypeOK ==
  /\ pc \in {"load", "process", "awaitStarts", "awaitLast", "completed", "failed"}
  /\ offset \in Offset .. MaximumOffset
  /\ started \in Nat
  /\ currentRecords \subseteq Records
  /\ progress \in Nat
  /\ reported \subseteq Records
  /\ child \in [Records -> ChildState]

Init ==
  /\ pc = "load"
  /\ offset = Offset
  /\ started = 0
  /\ currentRecords = {}
  /\ progress = 0
  /\ reported = {}
  /\ child = [r \in Records |-> "none"]
------------------------------------------------------------------------------
(***************************************************************************)
(* A run of SlidingWindowWorkflow.                                         *)
(***************************************************************************)

Open == pc \notin {"completed", "failed"}

\* The end of the page that GetRecords returns.
Limit == IF offset + PageSize < MaximumOffset THEN offset + PageSize ELSE MaximumOffset

\* The record the loop is at.
NextRecord == offset + started

\* The page is loaded; an empty page has no loop to go through.
LoadPage ==
  /\ pc = "load"
  /\ offset < MaximumOffset
  /\ pc' = IF NextRecord < Limit THEN "process" ELSE "awaitStarts"
  /\ UNCHANGED <<offset, started, currentRecords, progress, reported, child>>

\* No page is left: this is the last run.
LoadNothing ==
  /\ pc = "load"
  /\ offset = MaximumOffset
  /\ pc' = "awaitLast"
  /\ UNCHANGED <<offset, started, currentRecords, progress, reported, child>>

\* Mutant of WindowHasRoom: one child too many.
WindowHasRoomForOneMore == Cardinality(currentRecords) <= SlidingWindowSize

\* Mutant of WindowHasRoom: the children of earlier runs are forgotten.
RunHasRoom == Cardinality({r \in currentRecords : r >= offset}) < SlidingWindowSize

WindowHasRoom == Cardinality(currentRecords) < SlidingWindowSize

\* The loop's Await returns and the next child is initiated.
StartChild ==
  /\ pc = "process"
  /\ WindowHasRoom
  /\ child' = [child EXCEPT ![NextRecord] = "initiated"]
  /\ currentRecords' = currentRecords \cup {NextRecord}
  /\ started' = started + 1
  /\ pc' = IF NextRecord + 1 < Limit THEN "process" ELSE "awaitStarts"
  /\ UNCHANGED <<offset, progress, reported>>

\* Mutant of RecordCompletions: no duplicate signal check.
RecordCompletionsTwice(records) ==
  /\ currentRecords' = currentRecords \ records
  /\ progress' = progress + Cardinality(records)

\* recordCompletion of every record in the set: one that is not current, because
\* its signal is a duplicate, is not counted.
RecordCompletions(records) ==
  /\ currentRecords' = currentRecords \ records
  /\ progress' = progress + Cardinality(currentRecords \cap records)

\* The completion signal pump takes a signal, wherever the run is.
PumpSignal(r) ==
  /\ Open
  /\ r \in reported
  /\ RecordCompletions({r})
  /\ reported' = reported \ {r}
  /\ UNCHANGED <<pc, offset, started, child>>

RunRecords == offset .. NextRecord - 1     \* those of childrenStartedByThisRun

\* Mutant of ChildrenStarted: the run does not wait.
ChildrenNotAwaited == TRUE

ChildrenStarted == \A r \in RunRecords : child[r] \notin {"initiated", "refused"}

\* Mutant of ContinueAsNew: the signal channel is not drained.
ContinueAsNewUndrained ==
  /\ pc = "awaitStarts"
  /\ ChildrenStarted
  /\ UNCHANGED <<currentRecords, progress>>
  /\ reported' = {}
  /\ offset' = offset + started
  /\ started' = 0
  /\ pc' = "load"
  /\ child' = [r \in Records |-> IF child[r] = "initiated" THEN "dropped" ELSE child[r]]

\* All the children of this run have started: the pump is stopped, the channel
\* is drained, and the run closes.  Nothing can come in between: the server
\* sends a run back to a signal it has not read.
ContinueAsNew ==
  /\ pc = "awaitStarts"
  /\ ChildrenStarted
  /\ RecordCompletions(reported)
  /\ reported' = {}
  /\ offset' = offset + started
  /\ started' = 0
  /\ pc' = "load"
  /\ child' = [r \in Records |-> IF child[r] = "initiated" THEN "dropped" ELSE child[r]]

\* A child was refused: waiting for the starts in order, the run gets its error.
FailToStart ==
  /\ pc = "awaitStarts"
  /\ \E r \in RunRecords :
       /\ child[r] = "refused"
       /\ \A q \in RunRecords : q < r => child[q] \notin {"initiated", "refused"}
  /\ pc' = "failed"
  /\ UNCHANGED <<offset, started, currentRecords, progress, reported, child>>

\* The last run returns its count.
Complete ==
  /\ pc = "awaitLast"
  /\ currentRecords = {}
  /\ pc' = "completed"
  /\ UNCHANGED <<offset, started, currentRecords, progress, reported, child>>
------------------------------------------------------------------------------
(***************************************************************************)
(* The children, RecordProcessorWorkflow.                                  *)
(***************************************************************************)
ChildStarts(r) ==
  /\ child[r] = "initiated"
  /\ child' = [child EXCEPT ![r] = "running"]
  /\ UNCHANGED <<runVars, reported>>

\* External: a workflow with the child's ID is still open, say a child that an
\* earlier execution of this workflow abandoned.
ChildRefused(r) ==
  /\ child[r] = "initiated"
  /\ child' = [child EXCEPT ![r] = "refused"]
  /\ UNCHANGED <<runVars, reported>>

\* Mutant of ReportCompletion: the child signals the run that started it.
ReportToFirstRun(r) ==
  /\ child[r] = "running"
  /\ child' = [child EXCEPT ![r] = "reported"]
  /\ reported' = IF Open /\ r >= offset THEN reported \cup {r} ELSE reported
  /\ UNCHANGED runVars

\* Processed or failed, the child signals its parent and closes; the signal to a
\* parent that is closed is an error.
ReportCompletion(r) ==
  /\ child[r] = "running"
  /\ child' = [child EXCEPT ![r] = "reported"]
  /\ reported' = IF Open THEN reported \cup {r} ELSE reported
  /\ UNCHANGED runVars

\* External: a child that was reset after it reported reports again.
ReportAgain(r) ==
  /\ child[r] = "reported"
  /\ Open
  /\ reported' = reported \cup {r}
  /\ UNCHANGED <<runVars, child>>

\* External: a child is terminated before it reports.
KillChild(r) ==
  /\ child[r] = "running"
  /\ child' = [child EXCEPT ![r] = "killed"]
  /\ UNCHANGED <<runVars, reported>>
------------------------------------------------------------------------------
RunStep ==
  \/ LoadPage
  \/ LoadNothing
  \/ StartChild
  \/ ContinueAsNew
  \/ FailToStart
  \/ Complete

ChildStep(r) == ChildStarts(r) \/ ReportCompletion(r)

Next ==
  \/ RunStep
  \/ \E r \in Records :
       PumpSignal(r) \/ ChildStep(r) \/ ChildRefused(r) \/ ReportAgain(r) \/ KillChild(r)

Spec == Init /\ [][Next]_vars

\* A worker is up, signals are read in the order they came, the server starts the
\* children it was told to, and a child that runs ends.  No child has to be reset,
\* refused or killed.
Fairness ==
  /\ WF_vars(RunStep)
  /\ \A r \in Records : WF_vars(PumpSignal(r)) /\ WF_vars(ChildStep(r))

FairSpec == Spec /\ Fairness
------------------------------------------------------------------------------
(***************************************************************************)
(* Properties.                                                             *)
(***************************************************************************)
StartedRecords == {r \in Records : child[r] # "none"}

\* Every record that was started is either current or counted, and counted once:
\* over continue-as-new, with signals that come twice or late.
ProgressExact ==
  /\ currentRecords \subseteq StartedRecords
  /\ progress + Cardinality(currentRecords) = Cardinality(StartedRecords)

\* At most SlidingWindowSize children are open, those of earlier runs included.
WindowBound ==
  Cardinality({r \in Records : child[r] \in {"initiated", "running"}}) <= SlidingWindowSize

\* No child that was initiated is lost because its parent closed before it started.
NoChildDropped == \A r \in Records : child[r] # "dropped"

\* A record that reported is counted, or its signal is still to be read by the
\* open run: continuing as new loses no signal.
NoSignalLost ==
  Open => \A r \in currentRecords : child[r] = "reported" => r \in reported

\* The count that is returned is the number of records in the range.
CountCorrect == pc = "completed" => progress = MaximumOffset - Offset

\* The runs, pages and signals implement the abstract window.
Window == INSTANCE BatchWindow
          WITH next <- NextRecord, inFlight <- currentRecords,
               counted <- progress, returned <- (pc = "completed")

ImplementsWindow == Window!WindowSpec

\* The batch is completed unless a child never runs or dies without a word: only
\* that can keep a slot of the window, and the last run, waiting for ever.
BatchCompletes ==
  <>(pc = "completed" \/ \E r \in Records : child[r] \in {"killed", "refused"})
------------------------------------------------------------------------------
(***************************************************************************)
(* The inductive invariant.                                                *)
(***************************************************************************)

\* Records are started in order, page by page; only a run that has no page left
\* waits for the last children.
Paging ==
  /\ NextRecord <= MaximumOffset
  /\ \A r \in Records : child[r] = "none" <=> r >= NextRecord
  /\ pc = "process" => NextRecord < Limit
  /\ pc = "load" => started = 0
  /\ pc \in {"awaitLast", "completed"} => started = 0 /\ offset = MaximumOffset
  /\ pc = "completed" => currentRecords = {}

\* The children that are open, and those whose signal is not read, are current;
\* those of earlier runs have started.
Tracking ==
  /\ \A r \in Records : child[r] \in {"initiated", "running"} => r \in currentRecords
  /\ \A r \in currentRecords : r < NextRecord
  /\ \A r \in reported : child[r] = "reported"
  /\ \A r \in Records : r < offset => child[r] # "initiated"

\* No slot of the window is counted twice.
Counting ==
  /\ Cardinality(currentRecords) <= SlidingWindowSize
  /\ progress + Cardinality(currentRecords) = NextRecord - Offset

\* What every step preserves.
IInv == TypeOK /\ Paging /\ Tracking /\ Counting /\ NoChildDropped /\ NoSignalLost
==============================================================================
