------------------------------ MODULE MCRecovery ------------------------------
(* Instances of Recovery for TLC. *)
EXTENDS Recovery

\* What happens to one trip does not depend on another: the first gets as many
\* events as fit into a run, the others get none.
MCMaxSent == [t \in 0 .. MaxTrips - 1 |-> IF t = 0 THEN RunLength ELSE 0]

==============================================================================
