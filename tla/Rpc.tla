--------------------------------- MODULE Rpc ----------------------------------
(***************************************************************************)
(* What RequestUppercase promises its callers, however the response comes  *)
(* back: a call ends once, and ends with a result only if that result was  *)
(* computed for its own request.  Anything else is an error, or nothing.   *)
(***************************************************************************)
CONSTANT Requests

VARIABLES call, result

vars == <<call, result>>

Init ==
  /\ call = [r \in Requests |-> "idle"]
  /\ result = [r \in Requests |-> "none"]

Ask(r) ==
  /\ call[r] = "idle"
  /\ call' = [call EXCEPT ![r] = "open"]
  /\ UNCHANGED result

\* A request is worked on once, only after it was made, and perhaps for nobody.
Compute(r) ==
  /\ call[r] # "idle"
  /\ result[r] = "none"
  /\ \E outcome \in {"ok", "error"} : result' = [result EXCEPT ![r] = outcome]
  /\ UNCHANGED call

Answer(r) ==
  /\ call[r] = "open"
  /\ result[r] = "ok"
  /\ call' = [call EXCEPT ![r] = "ok"]
  /\ UNCHANGED result

Fail(r) ==
  /\ call[r] = "open"
  /\ call' = [call EXCEPT ![r] = "failed"]
  /\ UNCHANGED result

Next == \E r \in Requests : Ask(r) \/ Compute(r) \/ Answer(r) \/ Fail(r)

Spec == Init /\ [][Next]_vars
==============================================================================
