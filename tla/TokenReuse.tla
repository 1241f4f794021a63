------------------------------ MODULE TokenReuse ------------------------------
(* serverjwtauth: the header of every call to the server carries a token, which      *)
(* JWTHeadersProvider reuses until shortly before it expires. Any number of calls    *)
(* get their headers at once: the token and its time are read under a lock and       *)
(* written under it, and nothing is locked in between. A call may be delayed at       *)
(* any step, for less than Pause in all.                                             *)
EXTENDS Integers

CONSTANTS GrpcCalls,     \* what calls GetHeaders, one call after the other
          Expiration,    \* Config.Expiration
          RegenLeeway,   \* how long before its expiration a token is replaced
          Pause,         \* what a call of GetHeaders takes at most
          MaxClock       \* when the clock stops

VARIABLES clock,
          reuse,         \* reuseToken, which is its expiration, and reuseRegenAfter
          call           \* per call: where it is, its copies of the two, when it began

vars == <<clock, reuse, call>>

LongAgo == -1

(* The leeway covers two calls: the one that made the token and the one that uses it. *)
Timing == /\ Expiration \in Nat /\ RegenLeeway \in Nat /\ Pause \in Nat
          /\ 2 * Pause < RegenLeeway /\ Pause < Expiration

NoCall == [at |-> "idle", token |-> 0, regenAfter |-> LongAgo, since |-> 0]

Init ==
  /\ clock = 0
  /\ reuse = [token |-> 0, regenAfter |-> LongAgo]
  /\ call = [c \in GrpcCalls |-> NoCall]

Tick ==
  /\ clock < MaxClock
  /\ \A c \in GrpcCalls : call[c].at /= "idle" => clock < call[c].since + Pause
  /\ clock' = clock + 1
  /\ UNCHANGED <<reuse, call>>

ReadReuse(c) ==
  /\ call[c].at = "idle"
  /\ call' = [call EXCEPT ![c] = [at |-> "read", token |-> reuse.token, regenAfter |-> reuse.regenAfter,
                                  since |-> clock]]
  /\ UNCHANGED <<clock, reuse>>

Reuse(c) ==
  /\ call[c].at = "read"
  /\ ~(clock > call[c].regenAfter)
  /\ call' = [call EXCEPT ![c].at = "answer"]
  /\ UNCHANGED <<clock, reuse>>

GenToken(c) ==
  /\ call[c].at = "read"
  /\ clock > call[c].regenAfter
  /\ call' = [call EXCEPT ![c].at = "generated", ![c].token = clock + Expiration]
  /\ UNCHANGED <<clock, reuse>>

GenTokenFails(c) ==
  /\ call[c].at = "read"
  /\ clock > call[c].regenAfter
  /\ call' = [call EXCEPT ![c] = NoCall]
  /\ UNCHANGED <<clock, reuse>>

(* Mutant of RegenAfter: a token is reused until it expires. *)
RegenWhenExpired == clock + Expiration

(* The second look at the time: the token is older than that. *)
RegenAfter == clock + (Expiration - RegenLeeway)

SetRegen(c) ==
  /\ call[c].at = "generated"
  /\ call' = [call EXCEPT ![c].at = "lock", ![c].regenAfter = RegenAfter]
  /\ UNCHANGED <<clock, reuse>>

(* The last one wins, though its token may be the older one. *)
SetReuse(c) ==
  /\ call[c].at = "lock"
  /\ reuse' = [token |-> call[c].token, regenAfter |-> call[c].regenAfter]
  /\ call' = [call EXCEPT ![c].at = "answer"]
  /\ UNCHANGED clock

ReturnHeaders(c) ==
  /\ call[c].at = "answer"
  /\ call' = [call EXCEPT ![c] = NoCall]
  /\ UNCHANGED <<clock, reuse>>

----------------------------------------------------------------------------
GetHeaders(c) ==
  ReadReuse(c) \/ Reuse(c) \/ GenToken(c) \/ GenTokenFails(c) \/ SetRegen(c) \/ SetReuse(c) \/ ReturnHeaders(c)
Next == Tick \/ \E c \in GrpcCalls : GetHeaders(c)
Spec == Init /\ [][Next]_vars

----------------------------------------------------------------------------
(* No call goes out with a token that has expired, however the calls that read,      *)
(* generate and store tokens overlap (GetHeaders).                                    *)
HeaderValid == \A c \in GrpcCalls : call[c].at = "answer" => clock < call[c].token

(* The inductive invariant: what is stored, or read from there, is replaced early     *)
(* enough, and a call that answers has a token that outlasts it.                       *)
TypeOK ==
  /\ clock \in Nat
  /\ reuse \in [token : Nat, regenAfter : Int]
  /\ call \in [GrpcCalls -> [at : {"idle", "read", "generated", "lock", "answer"},
                         token : Nat, regenAfter : Int, since : Nat]]

ReplacedEarly(r) == r.regenAfter = LongAgo \/ r.regenAfter + RegenLeeway <= r.token + Pause

CallInTime(r) ==
  /\ r.at /= "idle" => r.since <= clock /\ clock <= r.since + Pause
  /\ r.at \in {"read", "lock"} => ReplacedEarly(r)
  /\ r.at \in {"generated", "lock"} => r.since + Expiration <= r.token
  /\ r.at = "answer" => r.since + Pause < r.token

IInv == TypeOK /\ ReplacedEarly(reuse) /\ \A c \in GrpcCalls : CallInTime(call[c])
===============================================================================
