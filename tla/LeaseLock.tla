------------------------------ MODULE LeaseLock ------------------------------
(***************************************************************************)
(* What the mutex sample (mutex/) promises its callers, with no workflow,  *)
(* signal or retry in it: a lock on one resource that is lent for a        *)
(* bounded time.  At most one sender owns the lease.  A sender whose lease *)
(* ran out before it gave the lock back is "overdue": it may still be      *)
(* inside its critical section, and the lock no longer protects it.        *)
(***************************************************************************)
CONSTANTS Senders, NoSender

VARIABLES owner,    \* the sender the lock is lent to, or NoSender
          inside,   \* the senders inside their critical section
          overdue   \* the senders whose last lease ended by the unlock timeout

leaseVars == <<owner, inside, overdue>>

LeaseTypeOK ==
  /\ owner \in Senders \cup {NoSender}
  /\ inside \subseteq Senders
  /\ overdue \subseteq Senders

LeaseInit ==
  /\ owner = NoSender
  /\ inside = {}
  /\ overdue = {}

\* The lock is lent only when nobody owns it.
Lend(s) ==
  /\ owner = NoSender
  /\ owner' = s
  /\ overdue' = overdue \ {s}
  /\ UNCHANGED inside

\* A sender enters as the owner, or late, on a lease that already ran out.
Enter(s) ==
  /\ owner = s \/ s \in overdue
  /\ inside' = inside \cup {s}
  /\ UNCHANGED <<owner, overdue>>

\* A sender leaves when its work is done or when its workflow is closed.
Leave(s) ==
  /\ s \in inside
  /\ inside' = inside \ {s}
  /\ UNCHANGED <<owner, overdue>>

\* The lock is given back by its owner, and never from inside the section.
GiveBack(s) ==
  /\ owner = s
  /\ s \notin inside
  /\ owner' = NoSender
  /\ UNCHANGED <<inside, overdue>>

\* The unlock timeout takes the lock back, wherever the owner is.
Expire(s) ==
  /\ owner = s
  /\ owner' = NoSender
  /\ overdue' = overdue \cup {s}
  /\ UNCHANGED inside

LeaseNext ==
  \E s \in Senders : Lend(s) \/ Enter(s) \/ Leave(s) \/ GiveBack(s) \/ Expire(s)

LeaseSpec == LeaseInit /\ [][LeaseNext]_leaseVars
------------------------------------------------------------------------------
\* Two senders are inside together only if one of them overstayed its lease.
Exclusion ==
  \A s, t \in inside : s # t => s \in overdue \/ t \in overdue

\* The strengthening of Exclusion that every step preserves.
LeaseInv ==
  /\ LeaseTypeOK
  /\ inside \subseteq {owner} \cup overdue

==============================================================================
