------------------------------- MODULE Listings -------------------------------
(* Three loops that read a list from the server page by page while it changes:           *)
(* getAllExecutionsOfType (recovery: the open executions), ListExecutions                 *)
(* (searchattributes: waits until the store of visibility knows the run it is part of)    *)
(* and GetWorkflows (multi-history-replay). A page token says after which execution the   *)
(* next page starts. The newest execution is listed first. What is found is told by how    *)
(* often each execution is on the pages that were kept.                                   *)
EXTENDS Integers, FiniteSets, FiniteSetsExt

CONSTANTS Executions,     \* 1..n, in the order of their start
          PageSize,
          MaxReads        \* bound: pages read

VARIABLES loop,           \* open, current, all: which of the three
          listed,         \* executions the server shows
          known,          \* executions that are or have been there to be shown
          steady,         \* shown all the time since the loop started
          reader          \* token (0: none), found, seen, reads, at

vars == <<loop, listed, known, steady, reader>>

Nothing == [e \in Executions |-> 0]
Self == Max(Executions) - 1     \* searchattributes: the run that lists; one more may start after it

Init ==
  /\ loop \in {"open", "current", "all"}
  /\ listed \in SUBSET (Executions \ (IF loop = "current" THEN {Self, Self + 1} ELSE {}))
  /\ known = listed /\ steady = listed
  /\ reader = [token |-> 0, found |-> Nothing, seen |-> FALSE, reads |-> 0, at |-> "reading"]

(* The page after the token, and its own token: none when there is no more.               *)
After(token) == IF token = 0 THEN listed ELSE {e \in listed : e < token}
Page(token) == {e \in After(token) : Cardinality({f \in After(token) : f > e}) < PageSize}
PageToken(token) == IF Page(token) = After(token) THEN 0 ELSE Min(Page(token))

(* Mutant of Kept: the first page read after the run has been seen only. *)
SeenPagesOnly(seen, page) == IF seen THEN page ELSE {}

Kept(seen, page) == page

Appended(found, page) == [e \in Executions |-> found[e] + (IF e \in page THEN 1 ELSE 0)]

(* The reader with the next page. *)
PageTaken ==
  [token |-> PageToken(reader.token), found |-> Appended(reader.found, Kept(reader.seen, Page(reader.token))),
   seen |-> TRUE, reads |-> reader.reads, at |-> IF PageToken(reader.token) = 0 THEN "done" ELSE "reading"]

(* getAllExecutionsOfType, GetWorkflows: page after page until there is no token. *)
ReadPage ==
  /\ loop /= "current" /\ reader.at = "reading"
  /\ reader' = PageTaken
  /\ UNCHANGED <<loop, listed, known, steady>>

(* ListExecutions: the first page over and over until the run itself is on it; the token  *)
(* is taken, and pages are kept, from then on.                                            *)
ReadPageOfRun ==
  /\ loop = "current" /\ reader.at = "reading"
  /\ reader' = IF reader.seen \/ Self \in Page(reader.token) THEN PageTaken
               ELSE [reader EXCEPT !.reads = IF @ < MaxReads THEN @ + 1 ELSE @]
  /\ UNCHANGED <<loop, listed, known, steady>>

(* A call fails: so does the activity, which is tried again from the start (the replayer  *)
(* ends).                                                                                 *)
ReadFails ==
  /\ reader.at = "reading" /\ reader.reads < MaxReads
  /\ reader' = IF loop = "all" THEN [reader EXCEPT !.at = "failed"]
               ELSE [token |-> 0, found |-> Nothing, seen |-> FALSE, reads |-> reader.reads + 1, at |-> "reading"]
  /\ steady' = listed
  /\ UNCHANGED <<loop, listed, known>>

(* The store comes to know an execution. *)
Appears(e) ==
  /\ e \notin known
  /\ listed' = listed \union {e} /\ known' = known \union {e}
  /\ UNCHANGED <<loop, steady, reader>>

(* An open execution closes. *)
Closes(e) ==
  /\ loop = "open" /\ e \in listed
  /\ listed' = listed \ {e} /\ steady' = steady \ {e}
  /\ UNCHANGED <<loop, known, reader>>

Progress == ReadPage \/ ReadPageOfRun \/ \E e \in Executions : Appears(e)
Next == Progress \/ ReadFails \/ \E e \in Executions : Closes(e)

----------------------------------------------------------------------------
(* A list that is returned names every execution that was there all the time, nothing     *)
(* twice, nothing that was never there; and the run that lists is on its own list. (When  *)
(* it waits for itself, later pages are those of the moment they are read.)               *)
ListComplete ==
  reader.at = "done" =>
    /\ \A e \in steady : reader.found[e] = 1
    /\ \A e \in Executions : reader.found[e] = 0 \/ (reader.found[e] = 1 /\ e \in known)
    /\ loop = "current" => reader.found[Self] = 1

(* Every loop ends, once the store knows the run that waits for itself, as long as not a  *)
(* page full of later ones hides it.                                                      *)
ListingEnds == reader.at /= "reading"

(* The inductive invariant: what is on the pages read is what lies before the token, and   *)
(* each execution is on one of them.                                                      *)
Sizes ==
  /\ Executions \subseteq Nat \ {0} /\ IsFiniteSet(Executions)
  /\ PageSize \in Nat \ {0} /\ MaxReads \in Nat

TypeOK ==
  /\ loop \in {"open", "current", "all"}
  /\ known \subseteq Executions /\ listed \subseteq known /\ steady \subseteq listed
  /\ reader \in [token : Nat, found : [Executions -> 0..1], seen : BOOLEAN, reads : Nat,
                 at : {"reading", "done", "failed"}]

ReadSoFar ==
  reader.at = "reading" =>
    /\ \A e \in Executions : reader.found[e] = 1 => reader.token /= 0 /\ e >= reader.token
    /\ \A e \in steady : reader.found[e] = 1 \/ reader.token = 0 \/ e < reader.token
    /\ loop = "current" =>
         /\ reader.seen => reader.token /= 0
         /\ reader.token /= 0 => Self \in Executions /\ reader.found[Self] = 1

IInv ==
  /\ TypeOK /\ ReadSoFar /\ ListComplete
  /\ \A e \in Executions : reader.found[e] = 1 => e \in known
===============================================================================
