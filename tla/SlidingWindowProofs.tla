------------------------- MODULE SlidingWindowProofs -------------------------
(***************************************************************************)
(* Theorems of SlidingWindow, for every range of records, page size and    *)
(* window size: the bound of the window, that every record is counted      *)
(* exactly once, that continuing as new loses no child and no signal, and  *)
(* that the runs implement the abstract window of BatchWindow.             *)
(***************************************************************************)
EXTENDS SlidingWindow, FiniteSetTheorems, TLAPS

USE SizesAssumption, OffsetsAssumption

\* What the window holds is finite, so that it can be counted.
LEMMA RecordsFinite ==
  /\ IsFiniteSet(Records)
  /\ \A S \in SUBSET Records : IsFiniteSet(S) /\ Cardinality(S) \in Nat
<1>1. IsFiniteSet(Records)
  BY FS_Interval DEF Records
<1> QED
  BY <1>1, FS_Subset, FS_CardinalityType

\* Limit lies in the rest of the range.
LEMMA LimitType == TypeOK => Limit \in offset .. MaximumOffset
  BY DEF TypeOK, Limit

\* recordCompletion moves a record from the window to the count, once.
LEMMA CompletionsCounted ==
  ASSUME TypeOK, NEW records \in SUBSET Records, RecordCompletions(records)
  PROVE  /\ currentRecords' \subseteq currentRecords
         /\ progress' \in Nat
         /\ Cardinality(currentRecords') \in Nat
         /\ Cardinality(currentRecords') <= Cardinality(currentRecords)
         /\ progress' + Cardinality(currentRecords')
              = progress + Cardinality(currentRecords)
<1> DEFINE both == currentRecords \cap records
<1>1. /\ IsFiniteSet(currentRecords)
      /\ Cardinality(currentRecords) \in Nat
      /\ Cardinality(both) \in Nat
  <2>1. currentRecords \in SUBSET Records /\ both \in SUBSET Records
    BY DEF TypeOK
  <2> QED
    BY <2>1, RecordsFinite
<1>2. /\ Cardinality(currentRecords') = Cardinality(currentRecords) - Cardinality(both)
      /\ Cardinality(currentRecords') \in Nat
      /\ currentRecords' \subseteq currentRecords
  <2>1. currentRecords' = currentRecords \ records
    BY DEF RecordCompletions
  <2>2. currentRecords \ records \in SUBSET Records
    BY DEF TypeOK
  <2> QED
    BY <1>1, <2>1, <2>2, FS_Difference, RecordsFinite
<1>3. progress' = progress + Cardinality(both) /\ progress \in Nat
  BY DEF RecordCompletions, TypeOK
<1> QED
  BY <1>1, <1>2, <1>3

\* The next child to start is a record of the range that is not current.
LEMMA NextRecordFresh ==
  ASSUME IInv, pc = "process"
  PROVE  /\ NextRecord \in Records
         /\ NextRecord \notin currentRecords
         /\ child[NextRecord] = "none"
         /\ NextRecord \notin reported
<1>1. NextRecord \in Records
  <2>1. NextRecord < Limit /\ Limit \in offset .. MaximumOffset
    BY LimitType DEF IInv, Paging
  <2> QED
    BY <2>1 DEF NextRecord, Records, IInv, TypeOK
<1> QED
  BY <1>1 DEF IInv, Paging, Tracking, NextRecord, TypeOK, Records
------------------------------------------------------------------------------
\* Nothing is started in the initial state.
LEMMA IInvInit == Init => IInv
<1> SUFFICES ASSUME Init PROVE IInv
  OBVIOUS
<1>1. TypeOK /\ Tracking /\ NoChildDropped /\ NoSignalLost
  BY DEF Init, TypeOK, ChildState, Tracking, NoChildDropped, NoSignalLost, NextRecord, Records
<1>2. Paging
  BY DEF Init, Paging, NextRecord, Records
<1>3. Counting
  BY FS_EmptySet DEF Init, Counting, NextRecord
<1> QED
  BY <1>1, <1>2, <1>3 DEF IInv

\* Steps of the run that start no child and read no signal.
LEMMA MoveStep ==
  IInv /\ (LoadPage \/ LoadNothing \/ FailToStart \/ Complete) => IInv'
<1> SUFFICES ASSUME IInv, LoadPage \/ LoadNothing \/ FailToStart \/ Complete
             PROVE  IInv'
  OBVIOUS
<1> USE DEF IInv
<1>1. UNCHANGED <<offset, started, currentRecords, progress, reported, child>>
  BY DEF LoadPage, LoadNothing, FailToStart, Complete
<1>2. TypeOK'
  BY <1>1 DEF TypeOK, LoadPage, LoadNothing, FailToStart, Complete
<1>3. Paging'
  BY <1>1
  DEF Paging, NextRecord, Limit, Records, LoadPage, LoadNothing, FailToStart, Complete, TypeOK
<1>4. Tracking' /\ Counting' /\ NoChildDropped'
  BY <1>1 DEF Tracking, Counting, NoChildDropped, NextRecord
<1>5. NoSignalLost'
  BY <1>1 DEF NoSignalLost, Open, LoadPage, LoadNothing, FailToStart, Complete
<1> QED
  BY <1>2, <1>3, <1>4, <1>5

\* A child takes a free slot of the window.
LEMMA StartStep == IInv /\ StartChild => IInv'
<1> SUFFICES ASSUME IInv, StartChild PROVE IInv'
  OBVIOUS
<1> DEFINE r == NextRecord
<1>1. /\ r \in Records /\ r \notin currentRecords /\ child[r] = "none" /\ r \notin reported
      /\ r < Limit /\ Limit \in offset .. MaximumOffset
      /\ offset \in Nat /\ started \in Nat
  BY NextRecordFresh, LimitType DEF StartChild, IInv, Paging, TypeOK
<1>2. /\ child' = [child EXCEPT ![r] = "initiated"]
      /\ currentRecords' = currentRecords \cup {r}
      /\ started' = started + 1
      /\ NextRecord' = r + 1
      /\ UNCHANGED <<offset, progress, reported>>
      /\ pc = "process"
      /\ pc' = IF r + 1 < Limit THEN "process" ELSE "awaitStarts"
  BY <1>1 DEF StartChild, NextRecord
<1>3. TypeOK'
  BY <1>1, <1>2 DEF IInv, TypeOK, ChildState
<1>4. Paging'
  <2>1. NextRecord' <= MaximumOffset /\ UNCHANGED Limit
    BY <1>1, <1>2 DEF Limit, NextRecord
  <2>2. \A q \in Records : child'[q] = "none" <=> q >= NextRecord'
    BY <1>1, <1>2 DEF IInv, Paging, TypeOK, Records
  <2> QED
    BY <1>2, <2>1, <2>2 DEF Paging
<1>5. Tracking'
  BY <1>1, <1>2 DEF IInv, Tracking, TypeOK, NextRecord, Records
<1>6. Counting'
  <2>1. currentRecords \in SUBSET Records
    BY DEF IInv, TypeOK
  <2>2. Cardinality(currentRecords') = Cardinality(currentRecords) + 1
    BY <1>1, <1>2, <2>1, RecordsFinite, FS_AddElement
  <2>3. /\ Cardinality(currentRecords) < SlidingWindowSize
        /\ Cardinality(currentRecords) \in Nat
        /\ progress \in Nat
        /\ progress + Cardinality(currentRecords) = r - Offset
    BY <2>1, RecordsFinite DEF StartChild, WindowHasRoom, IInv, Counting, TypeOK
  <2> QED
    BY <1>1, <1>2, <2>2, <2>3 DEF Counting, NextRecord
<1>7. NoChildDropped' /\ NoSignalLost'
  BY <1>1, <1>2 DEF IInv, NoChildDropped, NoSignalLost, Open, TypeOK
<1> QED
  BY <1>3, <1>4, <1>5, <1>6, <1>7 DEF IInv

\* A signal, new or duplicate, is read.
LEMMA PumpStep == ASSUME NEW r \in Records PROVE IInv /\ PumpSignal(r) => IInv'
<1> SUFFICES ASSUME IInv, PumpSignal(r) PROVE IInv'
  OBVIOUS
<1>1. /\ UNCHANGED <<pc, offset, started, child, NextRecord, Limit>>
      /\ currentRecords' = currentRecords \ {r}
      /\ reported' = reported \ {r}
      /\ r \in reported
      /\ RecordCompletions({r})
  BY DEF PumpSignal, RecordCompletions, NextRecord, Limit
<1>2. /\ progress' \in Nat
      /\ Cardinality(currentRecords') \in Nat
      /\ Cardinality(currentRecords') <= Cardinality(currentRecords)
      /\ progress' + Cardinality(currentRecords') = progress + Cardinality(currentRecords)
  BY <1>1, CompletionsCounted DEF IInv
<1>3. TypeOK'
  BY <1>1, <1>2 DEF IInv, TypeOK
<1>4. Paging' /\ NoChildDropped' /\ NoSignalLost'
  BY <1>1 DEF IInv, Paging, NoChildDropped, NoSignalLost, Open
<1>5. Tracking'
  BY <1>1 DEF IInv, Tracking
<1>6. Counting'
  <2>1. Cardinality(currentRecords) \in Nat
    BY RecordsFinite DEF IInv, TypeOK
  <2> QED
    BY <1>1, <1>2, <2>1 DEF IInv, Counting
<1> QED
  BY <1>3, <1>4, <1>5, <1>6 DEF IInv

\* The run closes with all its children started and its signals read.
LEMMA ContinueStep == IInv /\ ContinueAsNew => IInv'
<1> SUFFICES ASSUME IInv, ContinueAsNew PROVE IInv'
  OBVIOUS
<1>1. /\ pc = "awaitStarts" /\ pc' = "load"
      /\ currentRecords' = currentRecords \ reported
      /\ reported' = {} /\ started' = 0 /\ offset' = NextRecord
      /\ RecordCompletions(reported)
  BY DEF ContinueAsNew, RecordCompletions, NextRecord
<1>2. /\ offset \in Nat /\ started \in Nat /\ NextRecord \in offset .. MaximumOffset
      /\ NextRecord' = NextRecord
      /\ offset \in Offset .. MaximumOffset
  BY <1>1 DEF IInv, TypeOK, Paging, NextRecord
<1>3. \A q \in Records : child[q] # "initiated"
  <2> SUFFICES ASSUME NEW q \in Records, child[q] = "initiated" PROVE FALSE
    OBVIOUS
  <2>1. q < NextRecord /\ ~(q < offset)
    BY <1>2 DEF IInv, Paging, Tracking, Records
  <2>2. q \in RunRecords
    BY <1>2, <2>1 DEF RunRecords, Records
  <2> QED
    BY <2>2 DEF ContinueAsNew, ChildrenStarted
<1>4. child' = child
  BY <1>3 DEF ContinueAsNew, IInv, TypeOK
<1>5. /\ progress' \in Nat
      /\ Cardinality(currentRecords') \in Nat
      /\ Cardinality(currentRecords') <= Cardinality(currentRecords)
      /\ progress' + Cardinality(currentRecords') = progress + Cardinality(currentRecords)
  BY <1>1, CompletionsCounted DEF IInv, TypeOK
<1>6. TypeOK'
  BY <1>1, <1>2, <1>4, <1>5 DEF IInv, TypeOK
<1>7. Paging'
  BY <1>1, <1>2, <1>4 DEF IInv, Paging
<1>8. NoChildDropped'
  BY <1>4 DEF IInv, NoChildDropped
<1>9. NoSignalLost'
  BY <1>1, <1>4 DEF IInv, NoSignalLost, Open
<1>10. Tracking'
  BY <1>1, <1>2, <1>3, <1>4 DEF IInv, Tracking
<1>11. Counting'
  <2>1. Cardinality(currentRecords) \in Nat
    BY RecordsFinite DEF IInv, TypeOK
  <2> QED
    BY <1>1, <1>2, <1>5, <2>1 DEF IInv, Counting
<1> QED
  BY <1>6, <1>7, <1>8, <1>9, <1>10, <1>11 DEF IInv

\* A child moves on; if it reports, the open run has its signal.
LEMMA ChildrenStep ==
  ASSUME NEW r \in Records
  PROVE  IInv /\ (ChildStep(r) \/ ChildRefused(r) \/ ReportAgain(r) \/ KillChild(r)) => IInv'
<1> SUFFICES ASSUME IInv, ChildStep(r) \/ ChildRefused(r) \/ ReportAgain(r) \/ KillChild(r)
             PROVE  IInv'
  OBVIOUS
<1> USE DEF ChildStep
<1>1. /\ UNCHANGED <<pc, offset, started, currentRecords, progress, NextRecord, Limit>>
      /\ child[r] # "none"
  BY DEF ChildStarts, ReportCompletion, ChildRefused, ReportAgain, KillChild, runVars,
         NextRecord, Limit
<1>2. /\ \E s \in ChildState \ {"none", "initiated", "dropped"} :
           child' = [child EXCEPT ![r] = s]
      /\ reported' = reported \/ (reported' = reported \cup {r} /\ child'[r] = "reported")
      /\ child[r] = "reported" => child'[r] = "reported"
      /\ child'[r] = "running" => child[r] = "initiated"
      /\ child'[r] = "reported" /\ Open => r \in reported' \/ child[r] = "reported"
  <2>1. CASE ChildStarts(r) \/ ChildRefused(r) \/ KillChild(r)
    BY <2>1 DEF ChildStarts, ChildRefused, KillChild, ChildState, IInv, TypeOK
  <2>2. CASE ReportCompletion(r)
    BY <2>2 DEF ReportCompletion, ChildState, IInv, TypeOK
  <2>3. CASE ReportAgain(r)
    <3>1. child' = [child EXCEPT ![r] = "reported"]
      BY <2>3 DEF ReportAgain, IInv, TypeOK
    <3> QED
      BY <2>3, <3>1 DEF ReportAgain, ChildState, IInv, TypeOK
  <2> QED
    BY <2>1, <2>2, <2>3
<1>3. TypeOK'
  BY <1>1, <1>2 DEF IInv, TypeOK
<1>4. Paging'
  BY <1>1, <1>2 DEF IInv, Paging, TypeOK
<1>5. Tracking'
  BY <1>1, <1>2 DEF IInv, Tracking, TypeOK
<1>6. Counting'
  BY <1>1 DEF IInv, Counting
<1>7. NoChildDropped'
  BY <1>2 DEF IInv, NoChildDropped, TypeOK
<1>8. NoSignalLost'
  BY <1>1, <1>2 DEF IInv, NoSignalLost, Open, TypeOK
<1> QED
  BY <1>3, <1>4, <1>5, <1>6, <1>7, <1>8 DEF IInv

\* The inductive invariant is preserved by every step.
LEMMA IInvStep == IInv /\ [Next]_vars => IInv'
<1>1. IInv /\ UNCHANGED vars => IInv'
  BY DEF vars, IInv, TypeOK, Paging, Tracking, Counting, NoChildDropped, NoSignalLost, Open,
         NextRecord, Limit
<1> QED
  BY <1>1, MoveStep, StartStep, PumpStep, ContinueStep, ChildrenStep DEF Next, RunStep

\* The inductive invariant holds in every reachable state.
THEOREM InductiveInvariant == Spec => []IInv
  BY IInvInit, IInvStep, PTL DEF Spec
------------------------------------------------------------------------------
\* At most SlidingWindowSize children are open at a time, those of earlier runs
\* included: they are all current.
THEOREM WindowBoundHolds == Spec => []WindowBound
<1>1. IInv => WindowBound
  <2> SUFFICES ASSUME IInv PROVE WindowBound
    OBVIOUS
  <2> DEFINE open == {r \in Records : child[r] \in {"initiated", "running"}}
  <2>1. open \subseteq currentRecords
    BY DEF IInv, Tracking
  <2>2. currentRecords \in SUBSET Records /\ open \in SUBSET Records
    BY DEF IInv, TypeOK
  <2>3. Cardinality(open) <= Cardinality(currentRecords)
    BY <2>1, <2>2, RecordsFinite, FS_Subset
  <2>4. Cardinality(open) \in Nat /\ Cardinality(currentRecords) \in Nat
    BY <2>2, RecordsFinite
  <2> QED
    BY <2>3, <2>4 DEF IInv, Counting, WindowBound
<1> QED
  BY <1>1, InductiveInvariant, PTL

\* Every started record is current or counted, and counted once.
THEOREM ProgressExactHolds == Spec => []ProgressExact
<1>1. IInv => ProgressExact
  <2> SUFFICES ASSUME IInv PROVE ProgressExact
    OBVIOUS
  <2>1. NextRecord \in Offset .. MaximumOffset
    BY DEF IInv, TypeOK, Paging, NextRecord
  <2>2. StartedRecords = Offset .. NextRecord - 1
    BY <2>1 DEF StartedRecords, IInv, Paging, Records
  <2>3. Cardinality(StartedRecords) = NextRecord - Offset
    <3>1. Offset \in Int /\ NextRecord - 1 \in Int
      BY <2>1
    <3>2. Cardinality(Offset .. NextRecord - 1)
            = IF Offset > NextRecord - 1 THEN 0 ELSE NextRecord - 1 - Offset + 1
      BY <3>1, FS_Interval
    <3> QED
      BY <2>1, <2>2, <3>2
  <2>4. currentRecords \subseteq StartedRecords
    BY DEF IInv, TypeOK, Tracking, Paging, StartedRecords, Records, NextRecord
  <2> QED
    BY <2>3, <2>4 DEF IInv, Counting, ProgressExact
<1> QED
  BY <1>1, InductiveInvariant, PTL

\* The count the last run returns is the number of records of the range.
THEOREM CountCorrectHolds == Spec => []CountCorrect
<1>1. IInv => CountCorrect
  BY FS_EmptySet DEF IInv, TypeOK, Paging, Counting, CountCorrect, NextRecord
<1> QED
  BY <1>1, InductiveInvariant, PTL

\* Continuing as new drops no child that was initiated.
THEOREM NoChildDroppedHolds == Spec => []NoChildDropped
<1>1. IInv => NoChildDropped
  BY DEF IInv
<1> QED
  BY <1>1, InductiveInvariant, PTL

\* Continuing as new loses no completion signal.
THEOREM NoSignalLostHolds == Spec => []NoSignalLost
<1>1. IInv => NoSignalLost
  BY DEF IInv
<1> QED
  BY <1>1, InductiveInvariant, PTL
------------------------------------------------------------------------------
\* The abstract window counts with the same Cardinality.
LEMMA SameCardinality == \A S : Window!Cardinality(S) = Cardinality(S)
  BY DEF Cardinality, Window!Cardinality

\* Reading signals, one or a channel full of them, counts records in the window.
LEMMA CountingImplements ==
  ASSUME NEW records, RecordCompletions(records), UNCHANGED NextRecord,
         pc' = "completed" <=> pc = "completed"
  PROVE  Window!WindowNext
<1> DEFINE both == currentRecords \cap records
<1>1. /\ both \in SUBSET currentRecords
      /\ currentRecords' = currentRecords \ both
      /\ progress' = progress + Cardinality(both)
  BY DEF RecordCompletions
<1>2. Window!CountRecords(both)
  BY <1>1, SameCardinality DEF Window!CountRecords
<1> QED
  BY <1>1, <1>2 DEF Window!WindowNext

\* Every step is a step of the abstract window or changes nothing of it.
LEMMA WindowStep == IInv /\ [Next]_vars => [Window!WindowNext]_(Window!windowVars)
<1> SUFFICES ASSUME IInv, [Next]_vars
             PROVE  [Window!WindowNext]_(Window!windowVars)
  OBVIOUS
<1>0. ASSUME UNCHANGED <<NextRecord, currentRecords, progress>>,
             pc' = "completed" <=> pc = "completed"
      PROVE  [Window!WindowNext]_(Window!windowVars)
  BY <1>0 DEF Window!windowVars
<1>1. CASE LoadPage \/ LoadNothing \/ FailToStart
  BY <1>0, <1>1 DEF LoadPage, LoadNothing, FailToStart, NextRecord
<1>2. CASE StartChild
  <2>1. NextRecord < Limit /\ Limit <= MaximumOffset /\ NextRecord \in Nat /\ Limit \in Nat
    BY <1>2, NextRecordFresh, LimitType DEF StartChild, IInv, Paging, TypeOK, NextRecord
  <2>2. NextRecord' = NextRecord + 1
    BY <1>2 DEF StartChild, NextRecord, IInv, TypeOK
  <2>3. /\ pc # "completed" /\ pc' # "completed"
        /\ Cardinality(currentRecords) < SlidingWindowSize
        /\ currentRecords' = currentRecords \cup {NextRecord}
        /\ progress' = progress
    BY <1>2 DEF StartChild, WindowHasRoom
  <2>4. NextRecord < MaximumOffset
    BY <2>1
  <2>5. Window!StartRecord
    BY <2>2, <2>3, <2>4, SameCardinality DEF Window!StartRecord
  <2> QED
    BY <2>5 DEF Window!WindowNext
<1>3. CASE ContinueAsNew
  <2>1. NextRecord' = NextRecord
    BY <1>3 DEF ContinueAsNew, NextRecord, IInv, TypeOK
  <2>2. RecordCompletions(reported) /\ pc # "completed" /\ pc' # "completed"
    BY <1>3 DEF ContinueAsNew
  <2> QED
    BY <2>1, <2>2, CountingImplements
<1>4. CASE Complete
  <2>1. Window!ReturnCount
    BY <1>4 DEF Complete, Window!ReturnCount, IInv, Paging, NextRecord, TypeOK
  <2> QED
    BY <2>1 DEF Window!WindowNext
<1>5. ASSUME NEW r \in Records, PumpSignal(r)
      PROVE  [Window!WindowNext]_(Window!windowVars)
  BY <1>5, CountingImplements DEF PumpSignal, NextRecord
<1>6. ASSUME NEW r \in Records,
             ChildStep(r) \/ ChildRefused(r) \/ ReportAgain(r) \/ KillChild(r)
      PROVE  [Window!WindowNext]_(Window!windowVars)
  BY <1>0, <1>6
  DEF ChildStep, ChildStarts, ReportCompletion, ChildRefused, ReportAgain, KillChild, runVars,
      NextRecord
<1>7. CASE UNCHANGED vars
  BY <1>0, <1>7 DEF vars, NextRecord
<1> QED
  BY <1>1, <1>2, <1>3, <1>4, <1>5, <1>6, <1>7 DEF Next, RunStep

\* The runs, pages, children and signals implement the abstract window.
THEOREM Implementation == Spec => ImplementsWindow
<1>1. Init => Window!WindowInit
  BY DEF Init, Window!WindowInit, NextRecord
<1> QED
  BY <1>1, WindowStep, InductiveInvariant, PTL DEF Spec, ImplementsWindow, Window!WindowSpec
==============================================================================
